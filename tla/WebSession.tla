----------------------------- MODULE WebSession -----------------------------
(***************************************************************************)
(* The browser client (static/ui/app.js): who is signed in, what is        *)
(* selected and what the page shows.  A handler runs until it awaits a     *)
(* response; the page stays live meanwhile, so another handler may run and *)
(* change the state the first one goes on with.  A task is a handler that  *)
(* waits, given by the request it waits for.  The server answers a request *)
(* by the credentials it was sent with; what it stores is not modelled.    *)
(***************************************************************************)
CONSTANTS
    People, RoleOf,       \* who may sign in, and as what
    Projects, Versions,   \* every project has every version
    Tasks,                \* handlers that may wait at the same time
    MayFail,              \* whether responses may be lost, 5xx or revoked (401)
    Patient,              \* whether the user waits for answers, see Waited
    Nobody, None, Idle

VARIABLES
    session,      \* the client's state object, without the upload queue
    cookie,       \* whose token the VS_TOKEN cookie holds
    buttons,      \* the users with a Delete button in the user list
    detail,       \* project-detail is shown
    versionList,  \* whose versions are listed, and with Delete buttons or not
    fileList,     \* whose files are listed, and with Delete buttons or not
    tasks,
    lost          \* an answer was lost or a token refused since the page was loaded

views == <<buttons, detail, versionList, fileList>>
vars == <<session, cookie, buttons, detail, versionList, fileList, tasks, lost>>

ForAdmins == {"users", "deleteFile", "deleteVersion", "deleteUser", "enroll", "grant"}
Paths == {"login", "logout", "projects", "versionsOfProject", "versionsOfVersion",
          "files"} \cup ForAdmins

\* A request: its credentials, what it is about and what its handler does next.
Request == [at : Paths, as : People \cup {Nobody}, project : Projects \cup {None},
            version : Versions \cup {None},
            then : {"users", "projects", "versionsOfProject", "end"}]

\* What the lists of versions and of files are drawn of.
Versioned == [project : Projects \cup {None}, admin : BOOLEAN]
Filed == [project : Projects \cup {None}, version : Versions \cup {None}, admin : BOOLEAN]

ASSUME WebAssumption ==
    /\ RoleOf \in [People -> {"Admin", "Client"}]
    /\ Nobody \notin People
    /\ None \notin Projects \cup Versions \cup Versioned \cup Filed
    /\ {MayFail, Patient} \subseteq BOOLEAN
    /\ Idle \notin Request

NoSession == [token |-> Nobody, user |-> Nobody, role |-> None,
              project |-> None, version |-> None]

IsAdmin(state) == state.role = "Admin"
IsSignedIn == session.user # Nobody

\* api() sends the bearer token if there is one; the cookie goes along always.
Caller(state) == IF state.token # Nobody THEN state.token ELSE cookie

Init ==
    /\ session = NoSession
    /\ cookie = Nobody
    /\ buttons = {}
    /\ detail = FALSE
    /\ versionList = None
    /\ fileList = None
    /\ tasks = [t \in Tasks |-> Idle]
    /\ lost = FALSE

Ask(state, at, p, v, then) ==
    [at |-> at, as |-> Caller(state), project |-> p, version |-> v, then |-> then]

AskProjects(state, then) == Ask(state, "projects", state.project, None, then)
AskUsers(then) == Ask(session, "users", None, None, then)

Waits(t, at) == tasks[t] # Idle /\ tasks[t].at = at
GoOn(t, request) == tasks' = [tasks EXCEPT ![t] = request]
Done(t) == tasks' = [tasks EXCEPT ![t] = Idle]

\* The server answers t's request with 2xx.
Answered(t, at) ==
    /\ Waits(t, at)
    /\ tasks[t].as # Nobody
    /\ at \in ForAdmins => RoleOf[tasks[t].as] = "Admin"
-----------------------------------------------------------------------------
(* Loading the page, signing in and out. *)

\* enterWorkspace, up to its first await.
Entered(token) == [session EXCEPT !.token = token, !.project = None, !.version = None]

Reload(t) ==
    /\ session' = NoSession
    /\ buttons' = {} /\ versionList' = None /\ fileList' = None
    /\ detail' = FALSE
    /\ tasks' = [s \in Tasks |-> IF s = t THEN AskProjects(NoSession, "users") ELSE Idle]
    /\ lost' = FALSE
    /\ UNCHANGED cookie

SubmitLogin(t, u) ==
    /\ ~IsSignedIn
    /\ tasks[t] = Idle
    /\ GoOn(t, [Ask(session, "login", None, None, "users") EXCEPT !.as = u])
    /\ UNCHANGED <<session, cookie, views, lost>>

LoggedIn(t) ==
    /\ Answered(t, "login")
    /\ cookie' = tasks[t].as
    /\ session' = Entered(tasks[t].as)
    /\ detail' = FALSE
    /\ GoOn(t, AskProjects(session', "users"))
    /\ UNCHANGED <<buttons, versionList, fileList, lost>>

SignOut(t) ==
    /\ IsSignedIn
    /\ tasks[t] = Idle
    /\ GoOn(t, Ask(session, "logout", None, None, "end"))
    /\ UNCHANGED <<session, cookie, views, lost>>

\* Mutant: the page forgets the token and keeps the user.
LoggedOutKeepingUser(t) ==
    /\ Waits(t, "logout")
    /\ \/ cookie' = Nobody
       \/ MayFail /\ UNCHANGED cookie
    /\ session' = [session EXCEPT !.token = Nobody]
    /\ Done(t)
    /\ UNCHANGED <<views, lost>>

\* Mutant: the page forgets the user and keeps the token.
LoggedOutKeepingToken(t) ==
    /\ Waits(t, "logout")
    /\ \/ cookie' = Nobody
       \/ MayFail /\ UNCHANGED cookie
    /\ session' = [NoSession EXCEPT !.token = session.token]
    /\ Done(t)
    /\ UNCHANGED <<views, lost>>

\* Whether or not the server answers, the client forgets the session; the cookie
\* goes only with the answer.  The lists stay in the hidden workspace.
LoggedOut(t) ==
    /\ Waits(t, "logout")
    /\ \/ cookie' = Nobody
       \/ MayFail /\ UNCHANGED cookie
    /\ session' = NoSession
    /\ Done(t)
    /\ UNCHANGED <<views, lost>>
-----------------------------------------------------------------------------
(* refreshProjects and refreshUsers. *)

\* The answer says who the caller is: the page shows it as signed in.
GotProjects(t) ==
    LET identified == [session EXCEPT !.user = tasks[t].as, !.role = RoleOf[tasks[t].as]]
    IN  /\ Answered(t, "projects")
        /\ session' = identified
        /\ CASE tasks[t].then = "users" /\ IsAdmin(identified) -> GoOn(t, AskUsers("end"))
             [] tasks[t].then = "versionsOfProject" ->
                   GoOn(t, Ask(identified, "versionsOfProject", tasks[t].project, None, "end"))
             [] OTHER -> Done(t)
        /\ UNCHANGED <<cookie, views, lost>>

GotUsers(t, listed) ==
    /\ Answered(t, "users")
    /\ tasks[t].as \in listed
    /\ buttons' = listed \ {session.user}
    /\ IF tasks[t].then = "projects" THEN GoOn(t, AskProjects(session, "end")) ELSE Done(t)
    /\ UNCHANGED <<session, cookie, detail, versionList, fileList, lost>>
-----------------------------------------------------------------------------
(* openProject and openVersion. *)

\* Mutant: the selected version is kept.
OpenProjectOnly(t, p) ==
    /\ IsSignedIn
    /\ tasks[t] = Idle
    /\ session' = [session EXCEPT !.project = p]
    /\ detail' = TRUE
    /\ GoOn(t, AskProjects(session', "versionsOfProject"))
    /\ UNCHANGED <<cookie, buttons, versionList, fileList, lost>>

OpenProject(t, p) ==
    /\ IsSignedIn
    /\ tasks[t] = Idle
    /\ session' = [session EXCEPT !.project = p, !.version = None]
    /\ detail' = TRUE
    /\ GoOn(t, AskProjects(session', "versionsOfProject"))
    /\ UNCHANGED <<cookie, buttons, versionList, fileList, lost>>

\* Mutant: the files listed before stay.
GotVersionsKeepingFiles(t) ==
    /\ Answered(t, "versionsOfProject")
    /\ versionList' = [project |-> tasks[t].project, admin |-> IsAdmin(session)]
    /\ Done(t)
    /\ UNCHANGED <<session, cookie, buttons, detail, fileList, lost>>

\* openProject ends with no files listed.
GotVersions(t) ==
    /\ Answered(t, "versionsOfProject")
    /\ versionList' = [project |-> tasks[t].project, admin |-> IsAdmin(session)]
    /\ fileList' = None
    /\ Done(t)
    /\ UNCHANGED <<session, cookie, buttons, detail, lost>>

ShowsDetail == IsSignedIn /\ detail

OpenVersion(t, v) ==
    /\ ShowsDetail /\ versionList # None
    /\ tasks[t] = Idle
    /\ session' = [session EXCEPT !.version = v]
    /\ GoOn(t, Ask(session, "versionsOfVersion", session.project, v, "end"))
    /\ UNCHANGED <<cookie, views, lost>>

\* The files are asked of the project that is selected by now.
GotVersionsAgain(t) ==
    /\ Answered(t, "versionsOfVersion")
    /\ versionList' = [project |-> tasks[t].project, admin |-> IsAdmin(session)]
    /\ GoOn(t, Ask(session, "files", session.project, tasks[t].version, "end"))
    /\ UNCHANGED <<session, cookie, buttons, detail, fileList, lost>>

\* renderFiles lists nothing while no version is selected.
GotFiles(t) ==
    /\ Answered(t, "files")
    /\ fileList' = IF session.version = None THEN None
                   ELSE [project |-> tasks[t].project, version |-> tasks[t].version,
                         admin |-> IsAdmin(session)]
    /\ Done(t)
    /\ UNCHANGED <<session, cookie, buttons, detail, versionList, lost>>
-----------------------------------------------------------------------------
(* The Delete buttons and the forms of admins.  A button acts on the       *)
(* project and the version that are selected when it is clicked.           *)

DeleteFile(t) ==
    /\ ShowsDetail /\ fileList # None /\ fileList.admin
    /\ tasks[t] = Idle
    /\ GoOn(t, Ask(session, "deleteFile", session.project, session.version, "end"))
    /\ UNCHANGED <<session, cookie, views, lost>>

\* openVersion of the version selected by now.
DeletedFile(t) ==
    /\ Answered(t, "deleteFile")
    /\ GoOn(t, Ask(session, "versionsOfVersion", session.project, session.version, "end"))
    /\ UNCHANGED <<session, cookie, views, lost>>

DeleteVersion(t, v) ==
    /\ ShowsDetail /\ versionList # None /\ versionList.admin
    /\ tasks[t] = Idle
    /\ GoOn(t, Ask(session, "deleteVersion", session.project, v, "end"))
    /\ UNCHANGED <<session, cookie, views, lost>>

\* openProject of the project selected by now.
DeletedVersion(t) ==
    /\ Answered(t, "deleteVersion")
    /\ fileList' = IF session.version = tasks[t].version THEN None ELSE fileList
    /\ session' = [session EXCEPT !.version = None]
    /\ detail' = TRUE
    /\ GoOn(t, AskProjects(session', "versionsOfProject"))
    /\ UNCHANGED <<cookie, buttons, versionList, lost>>

DeleteUser(t, u) ==
    /\ IsSignedIn /\ IsAdmin(session)
    /\ u \in buttons
    /\ tasks[t] = Idle
    /\ GoOn(t, Ask(session, "deleteUser", None, None, "projects"))
    /\ UNCHANGED <<session, cookie, views, lost>>

\* The forms that enroll a user and grant access.
SubmitForm(t, at) ==
    /\ IsSignedIn /\ IsAdmin(session)
    /\ at \in {"enroll", "grant"}
    /\ tasks[t] = Idle
    /\ GoOn(t, Ask(session, at, None, None, "end"))
    /\ UNCHANGED <<session, cookie, views, lost>>

\* refreshUsers looks at the role of by now, and does nothing for a Client.
Posted(t, at) ==
    /\ Answered(t, at)
    /\ CASE at # "grant" /\ IsAdmin(session) -> GoOn(t, AskUsers(tasks[t].then))
         [] at = "enroll" /\ ~IsAdmin(session) -> Done(t)
         [] OTHER -> GoOn(t, AskProjects(session, "end"))
    /\ UNCHANGED <<session, cookie, views, lost>>
-----------------------------------------------------------------------------
\* 401: the session is dropped, and the lists stay in the hidden workspace.
Rejected(t) ==
    /\ tasks[t] # Idle /\ tasks[t].at \notin {"login", "logout"}
    /\ \/ tasks[t].as = Nobody /\ UNCHANGED lost
       \/ tasks[t].as # Nobody /\ MayFail /\ lost' = TRUE
    /\ session' = NoSession
    /\ Done(t)
    /\ UNCHANGED <<cookie, views>>

\* The handler ends with a message: a lost response or a 5xx, a refused sign-in, a
\* user who cannot be deleted, a request that is not for clients (403).
Failed(t) ==
    /\ tasks[t] # Idle /\ tasks[t].at # "logout"
    /\ \/ MayFail /\ lost' = TRUE
       \/ tasks[t].at \in {"login", "deleteUser"} /\ UNCHANGED lost
       \/ tasks[t].as # Nobody /\ ~Answered(t, tasks[t].at) /\ UNCHANGED lost
    /\ Done(t)
    /\ UNCHANGED <<session, cookie, views>>

\* The lists of users and projects, and the forms beside them.
AtPanel(request) ==
    \/ request.at \in {"users", "deleteUser", "enroll", "grant"}
    \/ request.at = "projects" /\ request.then = "end"

\* A patient user signs in or out only when nothing is under way, and waits for the answers
\* to one selection, or to one form, before the next; but a selection does not wait for
\* the panel of users and projects, nor the panel for a selection.
Waited(t) ==
    \A s \in Tasks \ {t} : tasks[s] # Idle =>
        /\ {tasks[s].at, tasks'[t].at} \cap {"login", "logout"} = {}
        /\ AtPanel(tasks[s]) # AtPanel(tasks'[t])

Click(t) ==
    \/ SignOut(t) \/ DeleteFile(t)
    \/ \E u \in People : SubmitLogin(t, u) \/ DeleteUser(t, u)
    \/ \E p \in Projects : OpenProject(t, p)
    \/ \E v \in Versions : OpenVersion(t, v) \/ DeleteVersion(t, v)
    \/ \E at \in {"enroll", "grant"} : SubmitForm(t, at)

Respond(t) ==
    \/ LoggedIn(t) \/ LoggedOut(t) \/ GotProjects(t) \/ GotVersions(t)
    \/ GotVersionsAgain(t) \/ GotFiles(t) \/ DeletedFile(t) \/ DeletedVersion(t)
    \/ \E listed \in SUBSET People : GotUsers(t, listed)
    \/ \E at \in {"deleteUser", "enroll", "grant"} : Posted(t, at)
    \/ Rejected(t) \/ Failed(t)

Next ==
    \E t \in Tasks :
        \/ Reload(t)
        \/ Respond(t)
        \/ Click(t) /\ (Patient => Waited(t))

Spec == Init /\ [][Next]_vars
-----------------------------------------------------------------------------
TypeOK ==
    /\ session \in [token : People \cup {Nobody}, user : People \cup {Nobody},
                    role : {"Admin", "Client", None},
                    project : Projects \cup {None}, version : Versions \cup {None}]
    /\ cookie \in People \cup {Nobody}
    /\ buttons \subseteq People
    /\ detail \in BOOLEAN
    /\ versionList \in Versioned \cup {None}
    /\ fileList \in Filed \cup {None}
    /\ tasks \in [Tasks -> Request \cup {Idle}]
    /\ lost \in BOOLEAN

\* No request is under way, and none has failed since the page was loaded.
Settled == ~lost /\ \A t \in Tasks : tasks[t] = Idle

\* Once the responses are in, the files shown are those of the selected version.
FilesMatchWhenSettled ==
    Settled /\ ShowsDetail /\ session.version # None =>
        /\ fileList # None
        /\ fileList.project = session.project /\ fileList.version = session.version

\* Whatever failed, the user the page shows as signed in is the one the next request
\* will be made as, by token or by cookie.
ShownUserIsCaller ==
    (\A t \in Tasks : tasks[t] = Idle) /\ IsSignedIn => Caller(session) = session.user

\* Once the responses are in, a client is shown no control of admins, in lists drawn
\* for a user before either.
ClientsSeeNoControlsWhenSettled ==
    Settled /\ ShowsDetail /\ ~IsAdmin(session) =>
        /\ versionList # None => ~versionList.admin
        /\ fileList # None => ~fileList.admin

\* Once the responses are in, the signed-in admin has no control to delete their own
\* account.
NoOwnDeleteWhenSettled ==
    Settled /\ IsSignedIn /\ IsAdmin(session) => session.user \notin buttons

\* The variables have their types, and the page agrees with the selection and with the
\* role of the signed-in user once the responses are in.
PageAgreesWhenSettled ==
    /\ TypeOK
    /\ FilesMatchWhenSettled
    /\ ClientsSeeNoControlsWhenSettled
    /\ NoOwnDeleteWhenSettled

\* Once a sign-out has been answered, and until a sign-in is, the page asks nothing more
\* in anybody's name: neither the handlers that were under way at the sign-out and go on
\* with their next request, nor the buttons of a workspace that a late answer shows again.
NothingDoneSignedOut ==
    [][\A t \in Tasks : cookie' = Nobody /\ tasks'[t] \notin {tasks[t], Idle} =>
          tasks'[t].at = "login" \/ tasks'[t].as = Nobody]_vars

\* Unless a request has failed, a Delete button deletes what it is shown next to: a
\* file of the version listed, a version of the project listed.
DeletesWhatItShows ==
    [][\A t \in Tasks : ~lost /\ tasks[t] = Idle /\ tasks'[t] # Idle =>
          /\ tasks'[t].at = "deleteFile" =>
                /\ tasks'[t].project = fileList.project
                /\ tasks'[t].version = fileList.version
          /\ tasks'[t].at = "deleteVersion" => tasks'[t].project = versionList.project]_vars
=============================================================================
