---------------------------- MODULE AccountBook ----------------------------
(***************************************************************************)
(* What the account half of the API promises, without processes, requests, *)
(* files or tokens (docs/specs/API-SYSTEM.md, "User administration" and    *)
(* "Project authorization").  Every operation takes effect at once and as  *)
(* a whole: a deletion takes the user's grants with it, a grant goes to an *)
(* enrolled user, an account changes only by its own operations, and an    *)
(* Admin remains.  The book may fall back to its saved copy; every         *)
(* operation may or may not reach that copy, which is the whole book.      *)
(***************************************************************************)
CONSTANTS Users, Projects, Passwords, DefaultAccounts, NoAccount

VARIABLES
    book,    \* the accounts and grants in force
    saved    \* the copy a restart falls back to

bookVars == <<book, saved>>

Accounts == [role : {"Admin", "Client"}, password : Passwords]

Init ==
    /\ book = [users |-> DefaultAccounts, grants |-> {}]
    /\ saved = book

Has(u) == book.users[u] # NoAccount

Become(users, grants) ==
    /\ book' = [users |-> users, grants |-> grants]
    /\ saved' \in {saved, book'}

Enroll(u, account) ==
    /\ ~Has(u)
    /\ Become([book.users EXCEPT ![u] = account], book.grants)

SetPassword(u, password) ==
    /\ Has(u)
    /\ Become([book.users EXCEPT ![u] = [role |-> book.users[u].role, password |-> password]],
              book.grants)

Grant(u, p) ==
    /\ Has(u)
    /\ Become(book.users, book.grants \cup {<<u, p>>})

Delete(u) ==
    /\ Has(u)
    /\ \E v \in Users \ {u} : Has(v) /\ book.users[v].role = "Admin"
    /\ Become([book.users EXCEPT ![u] = NoAccount], {g \in book.grants : g[1] # u})

Save == saved' = book /\ UNCHANGED book

FallBack == book' = saved /\ UNCHANGED saved

Next ==
    \/ \E u \in Users, account \in Accounts : Enroll(u, account)
    \/ \E u \in Users, password \in Passwords : SetPassword(u, password)
    \/ \E u \in Users, p \in Projects : Grant(u, p)
    \/ \E u \in Users : Delete(u)
    \/ Save
    \/ FallBack

Spec == Init /\ [][Next]_bookVars
=============================================================================
