-------------------------- MODULE WebClientProofs ---------------------------
(***************************************************************************)
(* Theorems about the browser client: first WebSession, for any people,    *)
(* projects, versions and number of handlers that wait, with or without    *)
(* lost responses, for the patient user of the large run and, where        *)
(* signing out is concerned, for one who waits for nothing; then           *)
(* UploadQueue, for any files, with or without failures.                   *)
(***************************************************************************)
EXTENDS WebSession, TLAPS

\* A handler on its way to sign somebody in, and one that opens a project or shows a
\* version.
SignsIn(r) == r.at = "login" \/ (r.at = "projects" /\ r.then = "users")
Opens(r) == r.at = "versionsOfProject" \/ (r.at = "projects" /\ r.then = "versionsOfProject")
Shows(r) == r.at \in {"versionsOfVersion", "files"}

Session == [token : People \cup {Nobody}, user : People \cup {Nobody},
            role : {"Admin", "Client", None},
            project : Projects \cup {None}, version : Versions \cup {None}]

Busy == {t \in Tasks : tasks[t] # Idle}

\* Handlers that sign in or out run alone; of two others one is at the panel of users and
\* projects, and the other is not.
TakeTurns ==
    /\ \A t \in Busy : SignsIn(tasks[t]) \/ tasks[t].at = "logout" => Busy = {t}
    /\ \A s, t \in Busy : s # t => AtPanel(tasks[s]) # AtPanel(tasks[t])

\* The token, the user and the requests under way are those of the cookie.
CookieIsCaller ==
    /\ session.token \in {Nobody, cookie}
    /\ session.user \in {Nobody, cookie}
    /\ session.role = (IF session.user = Nobody THEN None ELSE RoleOf[session.user])
    /\ \A t \in Busy : tasks[t].at = "login" \/ tasks[t].as = cookie

\* Nobody is signed in while a handler signs in.
NotYetSignedIn ==
    \A t \in Busy : SignsIn(tasks[t]) =>
        /\ session.user = Nobody
        /\ tasks[t].at = "projects" => ~detail

\* Before anything is lost, only a user who is signed in has other handlers wait, and those
\* that open a project or show a version are about the selection.
HandlersKnow ==
    ~lost => \A t \in Busy :
        /\ ~SignsIn(tasks[t]) => session.user # Nobody
        /\ Opens(tasks[t]) => tasks[t].project = session.project /\ session.version = None
        /\ Shows(tasks[t]) => tasks[t].project = session.project
                              /\ tasks[t].version = session.version

FilesMatch ==
    fileList # None /\ fileList.project = session.project /\ fileList.version = session.version

\* What the page shows when no project is being opened, and unless a version is about to be
\* shown.
PageKnows ==
    ~lost /\ session.user # Nobody /\ detail /\ (\A t \in Busy : ~Opens(tasks[t])) =>
        /\ versionList # None => /\ versionList.project = session.project
                                 /\ versionList.admin => session.role = "Admin"
        /\ fileList # None /\ fileList.admin => session.role = "Admin"
        /\ \/ fileList = None /\ session.version = None
           \/ FilesMatch
           \/ \E t \in Busy : Shows(tasks[t])

ButtonsKnow ==
    ~lost /\ session.user # Nobody /\ session.role = "Admin" =>
        session.user \notin buttons \/ \E t \in Busy : tasks[t].at = "users"

Sound == /\ TypeOK /\ TakeTurns /\ CookieIsCaller /\ NotYetSignedIn
         /\ HandlersKnow /\ PageKnows /\ ButtonsKnow
-----------------------------------------------------------------------------
(* Requests and handlers. *)

\* Both ways a handler goes on: it waits for another answer, or it has ended.
LEMMA Asks ==
    ASSUME TypeOK, NEW t \in Tasks, NEW r \in Request, GoOn(t, r)
    PROVE  /\ tasks' \in [Tasks -> Request \cup {Idle}]
           /\ tasks'[t] = r
           /\ \A s \in Tasks \ {t} : tasks'[s] = tasks[s]
           /\ Busy' = Busy \cup {t}
BY WebAssumption DEF TypeOK, GoOn, Busy

\* A handler that has ended waits for nothing, and the others wait as before.
LEMMA Ends ==
    ASSUME TypeOK, NEW t \in Tasks, Done(t)
    PROVE  /\ tasks' \in [Tasks -> Request \cup {Idle}]
           /\ tasks'[t] = Idle
           /\ \A s \in Tasks \ {t} : tasks'[s] = tasks[s]
           /\ Busy' = Busy \ {t}
BY WebAssumption DEF TypeOK, Done, Busy

\* Every request the page makes is one.
LEMMA Requests ==
    ASSUME NEW state, NEW at \in Paths, NEW p \in Projects \cup {None},
           NEW v \in Versions \cup {None},
           NEW then \in {"users", "projects", "versionsOfProject", "end"},
           state.token \in People \cup {Nobody}, cookie \in People \cup {Nobody}
    PROVE  Ask(state, at, p, v, then) \in Request
BY DEF Ask, Request, Caller

\* A handler that got a 2xx answer was waiting, as somebody.
LEMMA Known ==
    ASSUME TypeOK, NEW t \in Tasks, NEW at, Answered(t, at)
    PROVE  /\ t \in Busy /\ tasks[t] \in Request /\ tasks[t].at = at
           /\ tasks[t].as \in People
           /\ at \in ForAdmins => RoleOf[tasks[t].as] = "Admin"
BY WebAssumption DEF TypeOK, Answered, Waits, Busy, Request

\* The type invariant is kept by every step.
LEMMA TypesStay == TypeOK /\ [Next]_vars => TypeOK'
<1> SUFFICES ASSUME TypeOK, [Next]_vars PROVE TypeOK'
  OBVIOUS
<1>1. CASE UNCHANGED vars
  BY <1>1 DEF TypeOK, vars, views
<1>2. ASSUME NEW t \in Tasks, Reload(t) PROVE TypeOK'
  BY <1>2, WebAssumption
     DEF TypeOK, Reload, NoSession, AskProjects, Ask, Request, Caller, Paths
<1>3. ASSUME NEW t \in Tasks, Click(t) PROVE TypeOK'
  <2>1. ASSUME SignOut(t) PROVE TypeOK'
    BY <2>1, Asks, Requests DEF TypeOK, SignOut, views, Paths
  <2>2. ASSUME NEW u \in People, SubmitLogin(t, u) PROVE TypeOK'
    BY <2>2 DEF TypeOK, SubmitLogin, views, Ask, GoOn, Request, Paths, Caller
  <2>3. ASSUME NEW u \in People, DeleteUser(t, u) PROVE TypeOK'
    BY <2>3, Asks, Requests DEF TypeOK, DeleteUser, views, Paths, ForAdmins
  <2>4. ASSUME NEW p \in Projects, OpenProject(t, p) PROVE TypeOK'
    BY <2>4, Asks DEF TypeOK, OpenProject, views, Paths, AskProjects, Ask, Request, Caller
  <2>5. ASSUME NEW v \in Versions, OpenVersion(t, v) PROVE TypeOK'
    BY <2>5, Asks, Requests DEF TypeOK, OpenVersion, views, Paths
  <2>6. ASSUME NEW v \in Versions, DeleteVersion(t, v) PROVE TypeOK'
    BY <2>6, Asks, Requests DEF TypeOK, DeleteVersion, views, Paths, ForAdmins
  <2>7. ASSUME DeleteFile(t) PROVE TypeOK'
    BY <2>7, Asks, Requests DEF TypeOK, DeleteFile, views, Paths, ForAdmins
  <2>8. ASSUME NEW at \in {"enroll", "grant"}, SubmitForm(t, at) PROVE TypeOK'
    BY <2>8, Asks, Requests DEF TypeOK, SubmitForm, views, Paths, ForAdmins
  <2> QED
    BY <1>3, <2>1, <2>2, <2>3, <2>4, <2>5, <2>6, <2>7, <2>8 DEF Click
<1>4. ASSUME NEW t \in Tasks, Respond(t) PROVE TypeOK'
  <2>1. ASSUME LoggedIn(t) PROVE TypeOK'
    BY <2>1, Asks, Known
       DEF TypeOK, LoggedIn, Entered, views, Paths, AskProjects, Ask, Request,
       Caller
  <2>2. ASSUME LoggedOut(t) PROVE TypeOK'
    BY <2>2, Ends DEF TypeOK, LoggedOut, NoSession, views
  <2>3. ASSUME GotProjects(t) PROVE TypeOK'
    <3>1. /\ tasks[t].as \in People /\ tasks[t] \in Request /\ session' \in Session
          /\ session' = [session EXCEPT !.user = tasks[t].as, !.role = RoleOf[tasks[t].as]]
      <4>1. tasks[t].as \in People /\ tasks[t] \in Request
        BY <2>3, Known DEF GotProjects
      <4> QED
        BY <2>3, <4>1, WebAssumption DEF GotProjects, TypeOK, Session
    <3>2. \/ GoOn(t, AskUsers("end"))
          \/ GoOn(t, Ask(session', "versionsOfProject", tasks[t].project, None, "end"))
          \/ Done(t)
      BY <2>3 DEF GotProjects
    <3>3. tasks' \in [Tasks -> Request \cup {Idle}]
      <4>1. AskUsers("end") \in Request
        BY Requests DEF AskUsers, TypeOK, Paths, ForAdmins
      <4>2. Ask(session', "versionsOfProject", tasks[t].project, None, "end") \in Request
        BY <3>1, Requests DEF TypeOK, Session, Paths, Request
      <4> QED
        BY <3>2, <4>1, <4>2, Asks, Ends
    <3> QED
      BY <2>3, <3>1, <3>3 DEF TypeOK, Session, GotProjects, views
  <2>4. ASSUME NEW listed \in SUBSET People, GotUsers(t, listed) PROVE TypeOK'
    BY <2>4, Ends, Asks, Requests DEF TypeOK, GotUsers, AskProjects, Paths
  <2>5. ASSUME GotVersions(t) PROVE TypeOK'
    BY <2>5, Ends, Known DEF TypeOK, GotVersions, IsAdmin, Request, Versioned
  <2>6. ASSUME GotVersionsAgain(t) PROVE TypeOK'
    <3>1. tasks[t].project \in Projects \cup {None} /\ tasks[t].version \in Versions \cup {None}
      BY <2>6, Known DEF GotVersionsAgain, Request
    <3>2. Ask(session, "files", session.project, tasks[t].version, "end") \in Request
      BY <3>1, Requests DEF TypeOK, Paths
    <3> QED
      BY <2>6, <3>1, <3>2, Asks DEF TypeOK, GotVersionsAgain, IsAdmin, Versioned
  <2>7. ASSUME GotFiles(t) PROVE TypeOK'
    BY <2>7, Ends, Known DEF TypeOK, GotFiles, IsAdmin, Request, Filed
  <2>8. ASSUME DeletedFile(t) PROVE TypeOK'
    BY <2>8, Asks, Requests DEF TypeOK, DeletedFile, views, Paths
  <2>9. ASSUME DeletedVersion(t) PROVE TypeOK'
    BY <2>9, Asks DEF TypeOK, DeletedVersion, AskProjects, Ask, Request, Caller, Paths
  <2>10. ASSUME NEW at \in {"deleteUser", "enroll", "grant"}, Posted(t, at) PROVE TypeOK'
    <3>1. tasks[t].then \in {"users", "projects", "versionsOfProject", "end"}
      BY <2>10, Known DEF Posted, Request
    <3>2. AskUsers(tasks[t].then) \in Request /\ AskProjects(session, "end") \in Request
      BY <3>1, Requests DEF TypeOK, Paths, ForAdmins, AskUsers, AskProjects
    <3>3. GoOn(t, AskUsers(tasks[t].then)) \/ Done(t) \/ GoOn(t, AskProjects(session, "end"))
      BY <2>10 DEF Posted
    <3> QED
      BY <2>10, <3>2, <3>3, Asks, Ends DEF TypeOK, Posted, views
  <2>11. ASSUME Rejected(t) PROVE TypeOK'
    BY <2>11, Ends DEF TypeOK, Rejected, NoSession, views
  <2>12. ASSUME Failed(t) PROVE TypeOK'
    BY <2>12, Ends DEF TypeOK, Failed, views
  <2> QED
    BY <1>4, <2>1, <2>2, <2>3, <2>4, <2>5, <2>6, <2>7, <2>8, <2>9, <2>10, <2>11, <2>12
       DEF Respond
<1> QED
  BY <1>1, <1>2, <1>3, <1>4 DEF Next
-----------------------------------------------------------------------------
(* The invariant. *)

\* A patient user's click waits alone, or beside one handler on the other side of the page.
LEMMA ClicksTakeTurns ==
    ASSUME Patient, Sound, NEW t \in Tasks, NEW r \in Request, GoOn(t, r), Waited(t),
           tasks[t] = Idle, IsSignedIn \/ r.at = "login", SignsIn(r) => r.at = "login"
    PROVE  /\ TakeTurns'
           /\ r.at \in {"login", "logout"} => Busy = {}
           /\ ~AtPanel(r) => \A s \in Busy : AtPanel(tasks[s])
           /\ AtPanel(r) => \A s \in Busy : ~AtPanel(tasks[s])
<1>1. /\ tasks'[t] = r /\ t \notin Busy /\ Busy' = Busy \cup {t}
      /\ \A s \in Busy : tasks'[s] = tasks[s] /\ s # t
  BY Asks DEF Sound, Busy
<1>2. \A s \in Busy : /\ {tasks[s].at, r.at} \cap {"login", "logout"} = {}
                      /\ AtPanel(tasks[s]) # AtPanel(r)
  <2> SUFFICES ASSUME NEW s \in Busy
               PROVE  /\ {tasks[s].at, r.at} \cap {"login", "logout"} = {}
                      /\ AtPanel(tasks[s]) # AtPanel(r)
    OBVIOUS
  <2> QED
    BY <1>1 DEF Waited, Busy, AtPanel
<1>3. \A s \in Busy : ~SignsIn(tasks[s]) /\ tasks[s].at # "logout"
  BY <1>2 DEF Sound, NotYetSignedIn, IsSignedIn, SignsIn
<1>4. \A s, u \in Busy : s = u
  BY <1>2 DEF Sound, TakeTurns, AtPanel
<1>5. \A s \in Busy' : SignsIn(tasks'[s]) \/ tasks'[s].at = "logout" => Busy' = {s}
  BY <1>1, <1>2, <1>3
<1>6. \A s, u \in Busy' : s # u => AtPanel(tasks'[s]) # AtPanel(tasks'[u])
  BY <1>1, <1>2, <1>4
<1> QED
  BY <1>2, <1>5, <1>6 DEF TakeTurns, SignsIn, AtPanel

\* The invariant without the types.
Rest == /\ TakeTurns /\ CookieIsCaller /\ NotYetSignedIn
        /\ HandlersKnow /\ PageKnows /\ ButtonsKnow

\* Every click of a patient user keeps the invariant.
LEMMA ClicksKeepRest ==
    ASSUME Patient, Sound, NEW t \in Tasks, Click(t), Waited(t)
    PROVE  Rest'
<1> USE DEF Sound
<1>0. ASSUME NEW r \in Request, tasks[t] = Idle, GoOn(t, r)
      PROVE  /\ tasks'[t] = r /\ t \notin Busy /\ Busy' = Busy \cup {t}
             /\ \A s \in Busy : tasks'[s] = tasks[s] /\ s # t
  BY <1>0, Asks DEF Busy
<1>1. Caller(session) = cookie
  BY DEF CookieIsCaller, Caller
<1>2. ASSUME NEW at \in {"logout", "deleteFile", "deleteVersion", "deleteUser", "enroll", "grant"},
             NEW p \in Projects \cup {None}, NEW v \in Versions \cup {None},
             NEW then \in {"projects", "end"},
             IsSignedIn, tasks[t] = Idle, GoOn(t, Ask(session, at, p, v, then)),
             UNCHANGED <<session, cookie, views, lost>>
      PROVE  Rest'
  <2> DEFINE r == Ask(session, at, p, v, then)
  <2>1. r \in Request /\ r.at = at /\ r.as = cookie
    BY <1>1, Requests DEF Ask, TypeOK, Paths, ForAdmins
  <2> HIDE DEF r
  <2>2. /\ tasks'[t] = r /\ t \notin Busy /\ Busy' = Busy \cup {t}
        /\ \A s \in Busy : tasks'[s] = tasks[s] /\ s # t
    BY <2>1, <1>0, <1>2 DEF r
  <2>3. ~SignsIn(r) /\ ~Opens(r) /\ ~Shows(r)
    BY <2>1 DEF SignsIn, Opens, Shows
  <2>4. TakeTurns'
    BY <2>1, <2>3, <1>2, ClicksTakeTurns DEF r
  <2>5. CookieIsCaller'
    BY <2>1, <2>2, <1>2 DEF CookieIsCaller
  <2>6. NotYetSignedIn'
    BY <2>1, <2>2, <2>3, <1>2 DEF NotYetSignedIn, SignsIn, views, IsSignedIn
  <2>7. HandlersKnow'
    BY <2>1, <2>2, <2>3, <1>2 DEF HandlersKnow, SignsIn, Opens, Shows, IsSignedIn
  <2>8. PageKnows' /\ ButtonsKnow'
    BY <2>1, <2>2, <2>3, <1>2 DEF PageKnows, ButtonsKnow, FilesMatch, Opens, Shows, views
  <2> QED
    BY <2>4, <2>5, <2>6, <2>7, <2>8 DEF Rest
<1>3. CASE SignOut(t)
  BY <1>2, <1>3 DEF SignOut, TypeOK
<1>4. CASE DeleteFile(t)
  BY <1>2, <1>4 DEF DeleteFile, ShowsDetail, TypeOK
<1>5. ASSUME NEW v \in Versions, DeleteVersion(t, v) PROVE Rest'
  BY <1>2, <1>5 DEF DeleteVersion, ShowsDetail, TypeOK
<1>6. ASSUME NEW u \in People, DeleteUser(t, u) PROVE Rest'
  BY <1>2, <1>6 DEF DeleteUser, TypeOK
<1>7. ASSUME NEW at \in {"enroll", "grant"}, SubmitForm(t, at) PROVE Rest'
  BY <1>2, <1>7 DEF SubmitForm, TypeOK
<1>8. ASSUME NEW u \in People, SubmitLogin(t, u) PROVE Rest'
  <2> DEFINE r == [Ask(session, "login", None, None, "users") EXCEPT !.as = u]
  <2>1. r \in Request /\ r.at = "login" /\ GoOn(t, r)
    BY <1>8 DEF Ask, Request, Paths, SubmitLogin
  <2> HIDE DEF r
  <2>2. /\ tasks'[t] = r /\ t \notin Busy /\ Busy' = Busy \cup {t}
        /\ \A s \in Busy : tasks'[s] = tasks[s] /\ s # t
    BY <2>1, <1>0, <1>8 DEF SubmitLogin
  <2>3. TakeTurns' /\ Busy = {}
    BY <2>1, <1>8, ClicksTakeTurns DEF SubmitLogin
  <2>4. CookieIsCaller'
    BY <2>1, <2>2, <2>3, <1>8 DEF CookieIsCaller, SubmitLogin
  <2>5. NotYetSignedIn'
    BY <2>1, <2>2, <2>3, <1>8
       DEF NotYetSignedIn, SignsIn, views, IsSignedIn, SubmitLogin
  <2>6. HandlersKnow' /\ PageKnows' /\ ButtonsKnow'
    BY <2>1, <2>2, <2>3, <1>8
       DEF HandlersKnow, PageKnows, ButtonsKnow, SignsIn, Opens, Shows, IsSignedIn, SubmitLogin
  <2> QED
    BY <2>3, <2>4, <2>5, <2>6 DEF Rest
<1>9. ASSUME NEW p \in Projects, OpenProject(t, p) PROVE Rest'
  <2> DEFINE r == AskProjects(session', "versionsOfProject")
  <2>1. /\ r \in Request /\ r.at = "projects" /\ r.then = "versionsOfProject" /\ r.as = cookie
        /\ r.project = session'.project
    BY <1>1, <1>9 DEF AskProjects, Ask, Request, Paths, OpenProject, TypeOK, Caller
  <2>2. /\ session'.token = session.token /\ session'.user = session.user
        /\ session'.role = session.role /\ session'.version = None /\ GoOn(t, r)
    BY <1>9 DEF OpenProject, TypeOK
  <2> HIDE DEF r
  <2>3. /\ tasks'[t] = r /\ t \notin Busy /\ Busy' = Busy \cup {t}
        /\ \A s \in Busy : tasks'[s] = tasks[s] /\ s # t
    BY <2>1, <2>2, <1>0, <1>9 DEF OpenProject
  <2>4. ~SignsIn(r) /\ Opens(r) /\ ~Shows(r) /\ ~AtPanel(r)
    BY <2>1 DEF SignsIn, Opens, Shows, AtPanel
  <2>5. TakeTurns' /\ \A s \in Busy : ~Opens(tasks[s]) /\ ~Shows(tasks[s])
    <3>1. TakeTurns' /\ \A s \in Busy : AtPanel(tasks[s])
      BY <2>1, <2>2, <2>4, <1>9, ClicksTakeTurns DEF OpenProject
    <3> QED
      BY <3>1 DEF AtPanel, Opens, Shows
  <2>6. CookieIsCaller'
    BY <2>1, <2>2, <2>3, <1>9 DEF CookieIsCaller, OpenProject
  <2>7. NotYetSignedIn'
    BY <2>1, <2>2, <2>3, <2>4, <1>9
       DEF NotYetSignedIn, SignsIn, IsSignedIn, OpenProject
  <2>8. HandlersKnow'
    BY <2>1, <2>2, <2>3, <2>4, <2>5, <1>9
       DEF HandlersKnow, SignsIn, Opens, Shows, IsSignedIn, OpenProject
  <2>9. PageKnows' /\ ButtonsKnow'
    BY <2>1, <2>2, <2>3, <2>4, <1>9 DEF PageKnows, ButtonsKnow, Opens, OpenProject
  <2> QED
    BY <2>5, <2>6, <2>7, <2>8, <2>9 DEF Rest
<1>10. ASSUME NEW v \in Versions, OpenVersion(t, v) PROVE Rest'
  <2> DEFINE r == Ask(session, "versionsOfVersion", session.project, v, "end")
  <2>1. /\ r \in Request /\ r.at = "versionsOfVersion" /\ r.as = cookie
        /\ r.project = session.project /\ r.version = v
    BY <1>1, Requests DEF Ask, TypeOK, Paths
  <2>2. /\ session'.token = session.token /\ session'.user = session.user
        /\ session'.role = session.role /\ session'.project = session.project
        /\ session'.version = v /\ GoOn(t, r)
    BY <1>10 DEF OpenVersion, TypeOK
  <2> HIDE DEF r
  <2>3. /\ tasks'[t] = r /\ t \notin Busy /\ Busy' = Busy \cup {t}
        /\ \A s \in Busy : tasks'[s] = tasks[s] /\ s # t
    BY <2>1, <2>2, <1>0, <1>10 DEF OpenVersion
  <2>4. ~SignsIn(r) /\ ~Opens(r) /\ Shows(r) /\ ~AtPanel(r) /\ IsSignedIn
    BY <2>1, <1>10 DEF SignsIn, Opens, Shows, AtPanel, OpenVersion, ShowsDetail
  <2>5. TakeTurns' /\ \A s \in Busy : ~Opens(tasks[s]) /\ ~Shows(tasks[s])
    <3>1. TakeTurns' /\ \A s \in Busy : AtPanel(tasks[s])
      BY <2>1, <2>2, <2>4, <1>10, ClicksTakeTurns DEF OpenVersion
    <3> QED
      BY <3>1 DEF AtPanel, Opens, Shows
  <2>6. CookieIsCaller'
    BY <2>1, <2>2, <2>3, <1>10 DEF CookieIsCaller, OpenVersion
  <2>7. NotYetSignedIn'
    BY <2>1, <2>2, <2>3, <2>4, <1>10
       DEF NotYetSignedIn, SignsIn, IsSignedIn, OpenVersion, views
  <2>8. HandlersKnow'
    BY <2>1, <2>2, <2>3, <2>4, <2>5, <1>10
       DEF HandlersKnow, SignsIn, Opens, Shows, IsSignedIn, OpenVersion
  <2>9. PageKnows' /\ ButtonsKnow'
    BY <2>1, <2>2, <2>3, <2>4, <2>5, <1>10
       DEF PageKnows, ButtonsKnow, Opens, Shows, OpenVersion, views
  <2> QED
    BY <2>5, <2>6, <2>7, <2>8, <2>9 DEF Rest
<1> QED
  BY <1>3, <1>4, <1>5, <1>6, <1>7, <1>8, <1>9, <1>10 DEF Click

\* A handler that goes on keeps its turn if it stays on its side of the page, and so does one
\* that ends.
LEMMA AnswersTakeTurns ==
    ASSUME Sound, NEW t \in Busy,
           \/ Done(t)
           \/ \E r \in Request :
                 /\ GoOn(t, r) /\ r.at # "logout"
                 /\ \/ Busy = {t}
                    \/ ~SignsIn(r) /\ AtPanel(r) = AtPanel(tasks[t])
    PROVE  TakeTurns'
<1>1. t \in Tasks /\ TypeOK
  BY DEF Busy, Sound
<1>2. CASE Done(t)
  <2>1. Busy' = Busy \ {t} /\ \A s \in Busy' : tasks'[s] = tasks[s]
    BY <1>1, <1>2, Ends DEF Busy
  <2> QED
    BY <2>1 DEF Sound, TakeTurns, SignsIn, AtPanel
<1>3. ASSUME NEW r \in Request, GoOn(t, r), r.at # "logout",
             Busy = {t} \/ (~SignsIn(r) /\ AtPanel(r) = AtPanel(tasks[t]))
      PROVE  TakeTurns'
  <2>1. Busy' = Busy /\ tasks'[t] = r /\ \A s \in Busy' \ {t} : tasks'[s] = tasks[s]
    BY <1>1, <1>3, Asks DEF Busy
  <2>2. \A s \in Busy' : SignsIn(tasks'[s]) \/ tasks'[s].at = "logout" => Busy' = {s}
    BY <2>1, <1>3 DEF Sound, TakeTurns
  <2>3. \A s, u \in Busy' : s # u => AtPanel(tasks'[s]) # AtPanel(tasks'[u])
    BY <2>1, <1>3 DEF Sound, TakeTurns
  <2> QED
    BY <2>2, <2>3 DEF TakeTurns, SignsIn, AtPanel
<1> QED
  BY <1>2, <1>3

\* Signing in and out: the handler is alone.
LEMMA SigningKeepsRest ==
    ASSUME Sound, NEW t \in Tasks, LoggedIn(t) \/ LoggedOut(t) PROVE Rest'
<1> USE DEF Sound
<1>1. CASE LoggedIn(t)
  <2> DEFINE r == AskProjects(session', "users")
  <2>1. /\ t \in Busy /\ Busy = {t} /\ session.user = Nobody /\ tasks[t].as \in People
    BY <1>1, Known DEF LoggedIn, TakeTurns, SignsIn, NotYetSignedIn
  <2>2. /\ session'.token = cookie' /\ session'.user = Nobody /\ session'.role = session.role
        /\ cookie' \in People
    BY <1>1, <2>1 DEF LoggedIn, Entered, TypeOK
  <2>3. /\ r \in Request /\ r.at = "projects" /\ r.then = "users" /\ r.as = cookie'
        /\ GoOn(t, r)
    <3>1. /\ session' \in Session /\ session'.project = None
      BY <1>1, <2>1 DEF LoggedIn, Entered, TypeOK, Session
    <3> QED
      BY <1>1, <2>2, <3>1, WebAssumption
         DEF LoggedIn, AskProjects, Ask, Caller, Request, Paths, Session
  <2> HIDE DEF r
  <2>4. Busy' = {t} /\ tasks'[t] = r
    BY <2>1, <2>3, Asks
  <2>5. TakeTurns'
    BY <2>1, <2>3, AnswersTakeTurns
  <2>6. CookieIsCaller'
    BY <2>1, <2>2, <2>3, <2>4 DEF CookieIsCaller
  <2>7. NotYetSignedIn' /\ HandlersKnow' /\ PageKnows' /\ ButtonsKnow'
    BY <1>1, <2>1, <2>2, <2>3, <2>4
       DEF NotYetSignedIn, HandlersKnow, PageKnows, ButtonsKnow, SignsIn, Opens, Shows,
           LoggedIn
  <2> QED
    BY <2>5, <2>6, <2>7 DEF Rest
<1>2. CASE LoggedOut(t)
  <2>1. Busy = {t}
    BY <1>2 DEF LoggedOut, Waits, Busy, TakeTurns
  <2>2. Busy' = {}
    BY <1>2, <2>1, Ends DEF LoggedOut
  <2>3. session'.token = Nobody /\ session'.user = Nobody /\ session'.role = None
    BY <1>2 DEF LoggedOut, NoSession
  <2> QED
    BY <2>2, <2>3
       DEF Rest, TakeTurns, CookieIsCaller, NotYetSignedIn, HandlersKnow,
       PageKnows, ButtonsKnow
<1> QED
  BY <1>1, <1>2

\* The handler of an answer knows who its user is, and whether it signs that user in.
LEMMA AnsweredUser ==
    ASSUME Sound, NEW t \in Tasks, NEW at, Answered(t, at), at # "login"
    PROVE  /\ t \in Busy /\ tasks[t].at = at /\ tasks[t].as = cookie /\ cookie \in People
           /\ ~lost /\ ~SignsIn(tasks[t]) => session.user = cookie
           /\ at \in ForAdmins => RoleOf[cookie] = "Admin"
<1>1. /\ t \in Busy /\ tasks[t].at = at /\ tasks[t].as \in People
      /\ at \in ForAdmins => RoleOf[tasks[t].as] = "Admin"
  BY Known DEF Sound
<1> QED
  BY <1>1 DEF Sound, CookieIsCaller, HandlersKnow

\* The lists of projects and of users.
LEMMA PanelKeepsRest ==
    ASSUME Sound, NEW t \in Tasks,
           GotProjects(t) \/ \E listed \in SUBSET People : GotUsers(t, listed)
    PROVE  Rest'
<1> USE DEF Sound
<1>1. CASE GotProjects(t)
  <2>1. /\ t \in Busy /\ tasks[t].at = "projects" /\ tasks[t].as = cookie /\ cookie \in People
        /\ tasks[t] \in Request
    BY <1>1, Known, AnsweredUser DEF GotProjects
  <2>2. /\ session'.token = session.token /\ session'.user = cookie
        /\ session'.role = RoleOf[cookie] /\ session'.project = session.project
        /\ session'.version = session.version /\ cookie # Nobody
    BY <1>1, <2>1, WebAssumption DEF GotProjects, TypeOK
  <2>3. Caller(session) = cookie /\ Caller(session') = cookie
    BY <2>2 DEF Caller, CookieIsCaller
  <2>4. UNCHANGED <<cookie, buttons, detail, versionList, fileList, lost>>
    BY <1>1 DEF GotProjects, views
  <2>5. CASE tasks[t].then = "users"
    <3>1. Busy = {t} /\ ~detail
      BY <2>1, <2>5 DEF TakeTurns, SignsIn, NotYetSignedIn
    <3>2. CASE RoleOf[cookie] = "Admin"
      <4> DEFINE r == AskUsers("end")
      <4>1. /\ r \in Request /\ r.at = "users" /\ r.as = cookie
            /\ GoOn(t, r)
        BY <1>1, <2>1, <2>2, <2>3, <2>5, <3>2, WebAssumption
           DEF GotProjects, AskUsers, Ask, Request, Paths, ForAdmins, IsAdmin, TypeOK
      <4> HIDE DEF r
      <4>2. Busy' = {t} /\ tasks'[t] = r
        BY <3>1, <4>1, Asks
      <4>3. TakeTurns'
        BY <2>1, <3>1, <4>1, AnswersTakeTurns
      <4>4. CookieIsCaller' /\ NotYetSignedIn'
        BY <2>1, <2>2, <2>4, <4>1, <4>2
           DEF CookieIsCaller, NotYetSignedIn, SignsIn
      <4>5. HandlersKnow' /\ PageKnows' /\ ButtonsKnow'
        BY <2>1, <2>2, <2>4, <3>1, <4>1, <4>2
           DEF HandlersKnow, PageKnows, ButtonsKnow, Opens, Shows
      <4> QED
        BY <4>3, <4>4, <4>5 DEF Rest
    <3>3. CASE RoleOf[cookie] # "Admin"
      <4>1. Done(t)
        BY <1>1, <2>1, <2>5, <3>3, WebAssumption DEF GotProjects, IsAdmin, TypeOK
      <4>2. Busy' = {}
        BY <3>1, <4>1, Ends
      <4>3. TakeTurns'
        BY <2>1, <4>1, AnswersTakeTurns
      <4> QED
        BY <2>1, <2>2, <2>4, <3>1, <3>3, <4>2, <4>3
           DEF CookieIsCaller, NotYetSignedIn, HandlersKnow, PageKnows, ButtonsKnow, Rest
    <3> QED
      BY <3>2, <3>3
  <2>6. CASE tasks[t].then = "versionsOfProject"
    <3> DEFINE r == Ask(session', "versionsOfProject", tasks[t].project, None, "end")
    <3>1. GoOn(t, r)
      BY <1>1, <2>1, <2>6 DEF GotProjects
    <3>2. r \in Request /\ r.at = "versionsOfProject" /\ r.as = cookie
          /\ r.project = tasks[t].project
      BY <2>1, <2>3 DEF Ask, Request, Paths
    <3> HIDE DEF r
    <3>3. Busy' = Busy /\ tasks'[t] = r /\ \A s \in Busy \ {t} : tasks'[s] = tasks[s]
      BY <2>1, <3>1, <3>2, Asks DEF Busy
    <3>4. TakeTurns'
      BY <2>1, <2>6, <3>1, <3>2, AnswersTakeTurns DEF AtPanel, SignsIn
    <3>5. CookieIsCaller' /\ NotYetSignedIn'
      <4>1. \A s \in Busy : ~SignsIn(tasks[s])
        BY <2>1, <2>6 DEF TakeTurns, SignsIn
      <4> QED
        BY <2>1, <2>2, <2>4, <3>2, <3>3, <4>1
           DEF CookieIsCaller, NotYetSignedIn, SignsIn
    <3>6. HandlersKnow' /\ PageKnows' /\ ButtonsKnow'
      <4>1. ~lost => session.user = cookie /\ session.role = RoleOf[cookie]
        BY <2>1, <2>2, <2>6 DEF HandlersKnow, CookieIsCaller, SignsIn
      <4>2. HandlersKnow'
        BY <2>1, <2>2, <2>4, <2>6, <3>2, <3>3 DEF HandlersKnow, SignsIn, Opens, Shows
      <4>3. PageKnows' /\ ButtonsKnow'
        BY <2>1, <2>2, <2>4, <2>6, <3>2, <3>3, <4>1 DEF PageKnows, ButtonsKnow, Opens
      <4> QED
        BY <4>2, <4>3
    <3> QED
      BY <3>4, <3>5, <3>6 DEF Rest
  <2>7. CASE tasks[t].then \notin {"users", "versionsOfProject"}
    <3>1. Done(t)
      BY <1>1, <2>1, <2>7 DEF GotProjects
    <3>2. Busy' = Busy \ {t} /\ \A s \in Busy' : tasks'[s] = tasks[s]
      BY <2>1, <3>1, Ends DEF Busy
    <3>3. TakeTurns'
      BY <2>1, <3>1, AnswersTakeTurns
    <3>4. CookieIsCaller' /\ NotYetSignedIn'
      <4>1. \A s \in Busy' : ~SignsIn(tasks[s])
        BY <2>1, <2>7, <3>2 DEF TakeTurns, SignsIn
      <4> QED
        BY <2>1, <2>2, <2>4, <3>2, <4>1
           DEF CookieIsCaller, NotYetSignedIn, SignsIn
    <3>5. HandlersKnow' /\ PageKnows' /\ ButtonsKnow'
      <4>1. ~lost => session.user = cookie /\ session.role = RoleOf[cookie]
        BY <2>1, <2>2, <2>7 DEF HandlersKnow, CookieIsCaller, SignsIn
      <4>2. HandlersKnow'
        BY <2>1, <2>2, <2>4, <2>7, <3>2 DEF HandlersKnow, SignsIn, Opens, Shows
      <4>3. PageKnows' /\ ButtonsKnow'
        BY <2>1, <2>2, <2>4, <2>7, <3>2, <4>1
           DEF PageKnows, ButtonsKnow, Opens, Shows, FilesMatch
      <4> QED
        BY <4>2, <4>3
    <3> QED
      BY <3>3, <3>4, <3>5 DEF Rest
  <2> QED
    BY <2>5, <2>6, <2>7
<1>2. ASSUME NEW listed \in SUBSET People, GotUsers(t, listed) PROVE Rest'
  <2>1. /\ t \in Busy /\ tasks[t].at = "users" /\ tasks[t].as = cookie /\ cookie \in People
        /\ ~SignsIn(tasks[t])
    BY <1>2, AnsweredUser DEF GotUsers, SignsIn
  <2>2. /\ UNCHANGED <<session, cookie, detail, versionList, fileList, lost>>
        /\ session.user \notin buttons'
    BY <1>2 DEF GotUsers
  <2>3. \A s \in Busy : s # t => ~SignsIn(tasks[s])
    BY <2>1 DEF TakeTurns
  <2>4. CASE Done(t)
    <3>2. Busy' = Busy \ {t} /\ \A s \in Busy' : tasks'[s] = tasks[s]
      BY <2>1, <2>4, Ends DEF Busy
    <3>3. TakeTurns'
      BY <2>1, <2>4, AnswersTakeTurns
    <3>4. CookieIsCaller' /\ NotYetSignedIn' /\ HandlersKnow'
      BY <2>1, <2>2, <3>2
         DEF CookieIsCaller, NotYetSignedIn, HandlersKnow, SignsIn, Opens, Shows
    <3>5. PageKnows' /\ ButtonsKnow'
      BY <2>1, <2>2, <3>2 DEF PageKnows, ButtonsKnow, Opens, Shows, FilesMatch
    <3> QED
      BY <3>3, <3>4, <3>5 DEF Rest
  <2>5. CASE GoOn(t, AskProjects(session, "end"))
    <3> DEFINE r == AskProjects(session, "end")
    <3>1. /\ r \in Request /\ r.at = "projects" /\ r.then = "end" /\ r.as = cookie
          /\ GoOn(t, r)
      BY <2>5 DEF AskProjects, Ask, Request, Paths, TypeOK, Caller, CookieIsCaller
    <3> HIDE DEF r
    <3>2. Busy' = Busy /\ tasks'[t] = r /\ \A s \in Busy \ {t} : tasks'[s] = tasks[s]
      BY <2>1, <3>1, Asks DEF Busy
    <3>3. TakeTurns'
      BY <2>1, <3>1, AnswersTakeTurns DEF AtPanel, SignsIn
    <3>4. CookieIsCaller' /\ NotYetSignedIn' /\ HandlersKnow'
      BY <2>1, <2>2, <2>3, <3>1, <3>2
         DEF CookieIsCaller, NotYetSignedIn, HandlersKnow, SignsIn, Opens, Shows
    <3>5. PageKnows' /\ ButtonsKnow'
      BY <2>1, <2>2, <3>1, <3>2 DEF PageKnows, ButtonsKnow, Opens, Shows, FilesMatch
    <3> QED
      BY <3>3, <3>4, <3>5 DEF Rest
  <2> QED
    BY <1>2, <2>4, <2>5 DEF GotUsers
<1> QED
  BY <1>1, <1>2

\* The lists of versions and of files.
LEMMA ListsKeepRest ==
    ASSUME Sound, NEW t \in Tasks, GotVersions(t) \/ GotVersionsAgain(t) \/ GotFiles(t)
    PROVE  Rest'
<1> USE DEF Sound
<1>1. ASSUME NEW at \in {"versionsOfProject", "versionsOfVersion", "files"}, Answered(t, at),
             UNCHANGED <<session, cookie, buttons, detail, lost>>
      PROVE  /\ t \in Busy /\ tasks[t].at = at /\ tasks[t] \in Request
             /\ tasks[t].as = cookie /\ cookie \in People
             /\ ~SignsIn(tasks[t]) /\ ~AtPanel(tasks[t])
             /\ \A s \in Busy : ~SignsIn(tasks[s])
             /\ \A s \in Busy : s # t => ~Opens(tasks[s]) /\ ~Shows(tasks[s])
             /\ IsAdmin(session) <=> session.role = "Admin"
  <2>1. /\ t \in Busy /\ tasks[t].at = at /\ tasks[t] \in Request
        /\ tasks[t].as = cookie /\ cookie \in People
    BY <1>1, AnsweredUser, Known
  <2>2. ~SignsIn(tasks[t]) /\ ~AtPanel(tasks[t])
    BY <2>1 DEF SignsIn, AtPanel
  <2>3. \A s \in Busy : s # t => AtPanel(tasks[s])
    BY <2>1, <2>2 DEF TakeTurns, AtPanel
  <2>4. \A s \in Busy : ~SignsIn(tasks[s])
    BY <2>1, <2>2 DEF TakeTurns
  <2>5. \A s \in Busy : s # t => ~Opens(tasks[s]) /\ ~Shows(tasks[s])
    BY <2>3 DEF AtPanel, Opens, Shows
  <2> QED
    BY <2>1, <2>2, <2>4, <2>5 DEF IsAdmin
<1>2. ASSUME NEW at \in {"versionsOfProject", "versionsOfVersion", "files"}, Answered(t, at),
             UNCHANGED <<session, cookie, buttons, detail, lost>>, Done(t)
      PROVE  /\ TakeTurns' /\ CookieIsCaller' /\ NotYetSignedIn' /\ HandlersKnow'
             /\ ButtonsKnow'
             /\ Busy' = Busy \ {t} /\ \A s \in Busy' : tasks'[s] = tasks[s]
  <2>1. t \in Busy /\ tasks[t].at = at
    BY <1>1, <1>2
  <2>2. Busy' = Busy \ {t} /\ \A s \in Busy' : tasks'[s] = tasks[s]
    BY <2>1, <1>2, Ends DEF Busy
  <2>3. TakeTurns'
    BY <1>2, <2>1, AnswersTakeTurns
  <2> QED
    BY <1>2, <2>1, <2>2, <2>3
       DEF CookieIsCaller, NotYetSignedIn, HandlersKnow, ButtonsKnow, SignsIn, Opens, Shows
<1>3. CASE GotVersions(t)
  <2>1. PageKnows'
    <3>1. /\ versionList' = [project |-> tasks[t].project, admin |-> IsAdmin(session)]
          /\ fileList' = None /\ tasks[t].at = "versionsOfProject"
          /\ t \in Busy /\ (IsAdmin(session) <=> session.role = "Admin")
      BY <1>1, <1>3 DEF GotVersions
    <3>2. ~lost => tasks[t].project = session.project /\ session.version = None
      BY <3>1 DEF HandlersKnow, Opens
    <3> QED
      BY <1>3, <3>1, <3>2 DEF PageKnows, GotVersions
  <2> QED
    BY <1>2, <1>3, <2>1 DEF GotVersions, Rest
<1>4. CASE GotFiles(t)
  <2>1. PageKnows'
    <3>1. /\ fileList' = IF session.version = None THEN None
                         ELSE [project |-> tasks[t].project, version |-> tasks[t].version,
                               admin |-> IsAdmin(session)]
          /\ tasks[t].at = "files" /\ tasks[t] \in Request
          /\ t \in Busy /\ (IsAdmin(session) <=> session.role = "Admin")
          /\ UNCHANGED <<session, detail, versionList, lost>>
      BY <1>1, <1>4 DEF GotFiles
    <3>2. ~lost => tasks[t].project = session.project /\ tasks[t].version = session.version
      BY <3>1 DEF HandlersKnow, Shows
    <3>3. fileList' # None <=> session.version # None
      <4>1. /\ IsAdmin(session) \in BOOLEAN /\ tasks[t].project \in Projects \cup {None}
            /\ tasks[t].version \in Versions \cup {None}
        BY <3>1 DEF Request, IsAdmin
      <4>2. [project |-> tasks[t].project, version |-> tasks[t].version,
             admin |-> IsAdmin(session)] \in Filed
        BY <4>1 DEF Filed
      <4> QED
        BY <3>1, <4>2, WebAssumption
    <3>4. ~Opens(tasks[t])
      BY <3>1 DEF Opens
    <3>5. Busy' = Busy \ {t} /\ \A s \in Busy' : tasks'[s] = tasks[s]
      BY <1>2, <1>4 DEF GotFiles
    <3> QED
      BY <3>1, <3>2, <3>3, <3>4, <3>5 DEF PageKnows, FilesMatch, Opens
  <2> QED
    BY <1>2, <1>4, <2>1 DEF GotFiles, Rest
<1>5. CASE GotVersionsAgain(t)
  <2> DEFINE r == Ask(session, "files", session.project, tasks[t].version, "end")
  <2>1. /\ t \in Busy /\ tasks[t].at = "versionsOfVersion" /\ tasks[t] \in Request
        /\ tasks[t].as = cookie /\ cookie \in People
        /\ ~SignsIn(tasks[t]) /\ ~AtPanel(tasks[t])
        /\ \A s \in Busy : ~SignsIn(tasks[s])
        /\ \A s \in Busy : s # t => ~Opens(tasks[s]) /\ ~Shows(tasks[s])
        /\ IsAdmin(session) <=> session.role = "Admin"
    BY <1>1, <1>5 DEF GotVersionsAgain
  <2>2. /\ r \in Request /\ r.at = "files" /\ r.as = cookie /\ r.project = session.project
        /\ r.version = tasks[t].version
    BY <2>1 DEF Ask, Request, Paths, TypeOK, CookieIsCaller, Caller
  <2>3. GoOn(t, r)
    BY <1>5 DEF GotVersionsAgain
  <2> HIDE DEF r
  <2>4. Busy' = Busy /\ tasks'[t] = r /\ \A s \in Busy \ {t} : tasks'[s] = tasks[s]
    BY <2>1, <2>2, <2>3, Asks DEF Busy
  <2>5. ~SignsIn(r) /\ ~Opens(r) /\ Shows(r) /\ ~AtPanel(r)
    BY <2>2 DEF SignsIn, Opens, Shows, AtPanel
  <2>6. TakeTurns'
    BY <2>1, <2>2, <2>3, <2>5, AnswersTakeTurns DEF AtPanel
  <2>7. CookieIsCaller' /\ NotYetSignedIn' /\ ButtonsKnow'
    BY <1>5, <2>1, <2>2, <2>4, <2>5
       DEF CookieIsCaller, NotYetSignedIn, ButtonsKnow, SignsIn, GotVersionsAgain
  <2>8. ~lost => /\ tasks[t].project = session.project /\ tasks[t].version = session.version
                 /\ session.user # Nobody
    BY <2>1 DEF HandlersKnow, Shows
  <2>9. HandlersKnow'
    BY <1>5, <2>1, <2>2, <2>4, <2>5, <2>8
       DEF HandlersKnow, SignsIn, Opens, Shows, GotVersionsAgain
  <2>10. PageKnows'
    <3>1. /\ versionList' = [project |-> tasks[t].project, admin |-> IsAdmin(session)]
          /\ UNCHANGED <<session, cookie, detail, fileList, lost>>
      BY <1>5 DEF GotVersionsAgain
    <3>2. ~Opens(tasks[t])
      BY <2>1 DEF Opens
    <3> QED
      BY <2>1, <2>4, <2>5, <2>8, <3>1, <3>2 DEF PageKnows, Opens, Shows
  <2> QED
    BY <2>6, <2>7, <2>9, <2>10 DEF Rest
<1> QED
  BY <1>3, <1>4, <1>5

\* What the deletions and the forms of admins go on with.
LEMMA AdminsKeepRest ==
    ASSUME Sound, NEW t \in Tasks,
           \/ DeletedFile(t) \/ DeletedVersion(t)
           \/ \E at \in {"deleteUser", "enroll", "grant"} : Posted(t, at)
    PROVE  Rest'
<1> USE DEF Sound
<1>0. ASSUME NEW at \in ForAdmins \ {"users"}, Answered(t, at)
      PROVE  /\ t \in Busy /\ tasks[t].at = at /\ tasks[t] \in Request
             /\ tasks[t].as = cookie /\ cookie \in People
             /\ RoleOf[cookie] = "Admin" /\ Caller(session) = cookie
             /\ ~lost => session.user = cookie /\ session.role = "Admin"
             /\ \A s \in Busy : ~SignsIn(tasks[s])
  <2>1. ~SignsIn(tasks[t]) /\ t \in Busy /\ tasks[t] \in Request
    BY <1>0, Known DEF SignsIn, ForAdmins
  <2>2. Caller(session) = cookie
    BY DEF Caller, CookieIsCaller
  <2> QED
    BY <1>0, <2>1, <2>2, AnsweredUser, WebAssumption
       DEF TakeTurns, ForAdmins, CookieIsCaller
<1>1. CASE DeletedFile(t)
  <2> DEFINE r == Ask(session, "versionsOfVersion", session.project, session.version, "end")
  <2>1. /\ t \in Busy /\ tasks[t].at = "deleteFile" /\ Caller(session) = cookie
        /\ ~lost => session.user = cookie /\ cookie \in People
        /\ \A s \in Busy : ~SignsIn(tasks[s])
        /\ UNCHANGED <<session, cookie, views, lost>> /\ GoOn(t, r)
    BY <1>0, <1>1 DEF DeletedFile, ForAdmins
  <2>2. /\ r \in Request /\ r.at = "versionsOfVersion" /\ r.as = cookie
        /\ r.project = session.project /\ r.version = session.version
    BY <2>1, Requests DEF Ask, TypeOK, Paths
  <2> HIDE DEF r
  <2>3. /\ Busy' = Busy /\ tasks'[t] = r /\ \A s \in Busy \ {t} : tasks'[s] = tasks[s]
    BY <2>1, <2>2, Asks DEF Busy
  <2>4. ~SignsIn(r) /\ ~Opens(r) /\ Shows(r) /\ ~AtPanel(r) /\ ~AtPanel(tasks[t])
        /\ ~Opens(tasks[t])
    BY <2>1, <2>2 DEF SignsIn, Opens, Shows, AtPanel
  <2>5. TakeTurns'
    BY <2>1, <2>2, <2>4, AnswersTakeTurns DEF AtPanel
  <2>6. CookieIsCaller' /\ NotYetSignedIn'
    BY <2>1, <2>2, <2>3, <2>4 DEF CookieIsCaller, NotYetSignedIn, SignsIn
  <2>7. HandlersKnow'
    BY <2>1, <2>2, <2>3, <2>4, WebAssumption DEF HandlersKnow, SignsIn, Opens, Shows
  <2>8. PageKnows' /\ ButtonsKnow'
    BY <2>1, <2>2, <2>3, <2>4 DEF PageKnows, ButtonsKnow, Opens, Shows, views
  <2> QED
    BY <2>5, <2>6, <2>7, <2>8 DEF Rest
<1>2. CASE DeletedVersion(t)
  <2> DEFINE r == AskProjects(session', "versionsOfProject")
  <2>1. /\ t \in Busy /\ tasks[t].at = "deleteVersion" /\ Caller(session) = cookie
        /\ ~lost => session.user = cookie /\ cookie \in People
        /\ \A s \in Busy : ~SignsIn(tasks[s])
        /\ UNCHANGED <<cookie, buttons, lost>> /\ GoOn(t, r)
    BY <1>0, <1>2 DEF DeletedVersion, ForAdmins
  <2>2. /\ session'.token = session.token /\ session'.user = session.user
        /\ session'.role = session.role /\ session'.project = session.project
        /\ session'.version = None
    BY <1>2 DEF DeletedVersion, TypeOK
  <2>3. /\ r \in Request /\ r.at = "projects" /\ r.then = "versionsOfProject" /\ r.as = cookie
        /\ r.project = session.project
    BY <2>1, <2>2 DEF AskProjects, Ask, Request, TypeOK, Paths, Caller
  <2> HIDE DEF r
  <2>4. /\ Busy' = Busy /\ tasks'[t] = r /\ \A s \in Busy \ {t} : tasks'[s] = tasks[s]
    BY <2>1, <2>3, Asks DEF Busy
  <2>5. ~SignsIn(r) /\ Opens(r) /\ ~Shows(r) /\ ~AtPanel(r) /\ ~AtPanel(tasks[t])
    BY <2>1, <2>3 DEF SignsIn, Opens, Shows, AtPanel
  <2>6. TakeTurns'
    BY <2>1, <2>3, <2>5, AnswersTakeTurns DEF AtPanel
  <2>7. \A s \in Busy : s # t => ~Opens(tasks[s]) /\ ~Shows(tasks[s])
    BY <2>1, <2>5 DEF TakeTurns, AtPanel, Opens, Shows
  <2>8. CookieIsCaller' /\ NotYetSignedIn'
    BY <2>1, <2>2, <2>3, <2>4, <2>5 DEF CookieIsCaller, NotYetSignedIn, SignsIn
  <2>9. HandlersKnow'
    BY <2>1, <2>2, <2>3, <2>4, <2>5, <2>7, WebAssumption
       DEF HandlersKnow, SignsIn, Opens, Shows
  <2>10. PageKnows' /\ ButtonsKnow'
    BY <2>1, <2>2, <2>3, <2>4, <2>5 DEF PageKnows, ButtonsKnow, Opens
  <2> QED
    BY <2>6, <2>8, <2>9, <2>10 DEF Rest
<1>3. ASSUME NEW at \in {"deleteUser", "enroll", "grant"}, Posted(t, at) PROVE Rest'
  <2>1. /\ t \in Busy /\ tasks[t].at = at /\ tasks[t] \in Request
        /\ Caller(session) = cookie /\ AtPanel(tasks[t]) /\ ~Opens(tasks[t]) /\ ~Shows(tasks[t])
        /\ ~lost => session.user = cookie /\ cookie \in People
        /\ \A s \in Busy : ~SignsIn(tasks[s])
        /\ UNCHANGED <<session, cookie, views, lost>>
    BY <1>0, <1>3 DEF Posted, ForAdmins, AtPanel, Opens, Shows
  <2>2. CASE Done(t)
    <3>1. Busy' = Busy \ {t} /\ \A s \in Busy' : tasks'[s] = tasks[s]
      BY <2>1, <2>2, Ends DEF Busy
    <3>2. TakeTurns'
      BY <2>1, <2>2, AnswersTakeTurns
    <3>3. CookieIsCaller' /\ NotYetSignedIn' /\ HandlersKnow'
      BY <2>1, <3>1
         DEF CookieIsCaller, NotYetSignedIn, HandlersKnow, SignsIn, Opens, Shows, views
    <3>4. PageKnows' /\ ButtonsKnow'
      BY <2>1, <3>1 DEF PageKnows, ButtonsKnow, Opens, Shows, FilesMatch, views
    <3> QED
      BY <3>2, <3>3, <3>4 DEF Rest
  <2>3. ASSUME NEW r \in Request, GoOn(t, r), r.as = cookie, r.at # "logout",
               AtPanel(r), ~SignsIn(r), ~Opens(r), ~Shows(r)
        PROVE  Rest'
    <3>1. /\ Busy' = Busy /\ tasks'[t] = r /\ \A s \in Busy \ {t} : tasks'[s] = tasks[s]
      BY <2>1, <2>3, Asks DEF Busy
    <3>2. TakeTurns'
      BY <2>1, <2>3, AnswersTakeTurns
    <3>3. CookieIsCaller' /\ NotYetSignedIn' /\ HandlersKnow'
      BY <2>1, <2>3, <3>1, WebAssumption
         DEF CookieIsCaller, NotYetSignedIn, HandlersKnow, SignsIn, Opens, Shows, views
    <3>4. PageKnows' /\ ButtonsKnow'
      <4>1. \A s \in Busy : tasks[s].at = "users" => s # t
        BY <2>1
      <4> QED
        BY <2>1, <2>3, <3>1, <4>1
           DEF PageKnows, ButtonsKnow, Opens, Shows, FilesMatch, views
    <3> QED
      BY <3>2, <3>3, <3>4 DEF Rest
  <2>4. CASE GoOn(t, AskUsers(tasks[t].then))
    <3> DEFINE r == AskUsers(tasks[t].then)
    <3>1. r \in Request /\ r.as = cookie /\ r.at = "users" /\ GoOn(t, r)
      BY <2>1, <2>4 DEF AskUsers, Ask, Request, Paths, ForAdmins, CookieIsCaller, TypeOK
    <3> HIDE DEF r
    <3> QED
      BY <2>3, <3>1 DEF AtPanel, SignsIn, Opens, Shows
  <2>5. CASE GoOn(t, AskProjects(session, "end"))
    <3> DEFINE r == AskProjects(session, "end")
    <3>1. r \in Request /\ r.as = cookie /\ r.at = "projects" /\ r.then = "end" /\ GoOn(t, r)
      BY <2>1, <2>5 DEF AskProjects, Ask, Request, Paths, CookieIsCaller, TypeOK
    <3> HIDE DEF r
    <3> QED
      BY <2>3, <3>1 DEF AtPanel, SignsIn, Opens, Shows
  <2> QED
    BY <1>3, <2>2, <2>4, <2>5 DEF Posted
<1> QED
  BY <1>1, <1>2, <1>3

\* A refused or a failed request.
LEMMA FailuresKeepRest ==
    ASSUME Sound, NEW t \in Tasks, Rejected(t) \/ Failed(t) PROVE Rest'
<1> USE DEF Sound
<1>1. t \in Busy /\ Done(t) /\ (lost => lost') /\ UNCHANGED <<cookie, views>>
  BY DEF Rejected, Failed, Busy, TypeOK
<1>2. Busy' = Busy \ {t} /\ \A s \in Busy' : tasks'[s] = tasks[s]
  BY <1>1, Ends DEF Busy
<1>3. TakeTurns'
  BY <1>1, AnswersTakeTurns
<1>4. CASE Rejected(t)
  <2>1. session'.token = Nobody /\ session'.user = Nobody /\ session'.role = None
    BY <1>4 DEF Rejected, NoSession
  <2>2. CookieIsCaller' /\ NotYetSignedIn'
    BY <1>1, <1>2, <2>1 DEF CookieIsCaller, NotYetSignedIn, SignsIn, views
  <2>3. ~lost' => Busy' = {}
    <3>1. SUFFICES ASSUME ~lost' PROVE Busy = {t}
      BY <1>2
    <3>2. ~lost /\ tasks[t].as = Nobody /\ tasks[t].at \notin {"login", "logout"}
      BY <1>4, <3>1 DEF Rejected, TypeOK
    <3>3. cookie = Nobody /\ session.user = Nobody
      BY <1>1, <3>2 DEF CookieIsCaller
    <3> QED
      BY <1>1, <3>2, <3>3 DEF HandlersKnow, TakeTurns
  <2> QED
    BY <1>3, <2>1, <2>2, <2>3 DEF Rest, HandlersKnow, PageKnows, ButtonsKnow
<1>5. CASE Failed(t)
  <2>1. UNCHANGED session
    BY <1>5 DEF Failed
  <2>2. CookieIsCaller' /\ NotYetSignedIn' /\ HandlersKnow'
    BY <1>1, <1>2, <2>1
       DEF CookieIsCaller, NotYetSignedIn, HandlersKnow, SignsIn, Opens, Shows, views
  <2>3. ~lost' /\ session.user # Nobody /\ session.role = "Admin"
           => tasks[t].at # "users"
    <3> SUFFICES ASSUME ~lost', session.user # Nobody, session.role = "Admin",
                        tasks[t].at = "users"
                 PROVE  FALSE
      OBVIOUS
    <3>1. tasks[t].as # Nobody /\ ~Answered(t, "users")
      BY <1>5 DEF Failed
    <3> QED
      BY <1>1, <3>1 DEF Answered, Waits, Busy, CookieIsCaller
  <2>4. ~lost' => ~Opens(tasks[t]) /\ ~Shows(tasks[t])
    <3> SUFFICES ASSUME ~lost', Opens(tasks[t]) \/ Shows(tasks[t]) PROVE FALSE
      OBVIOUS
    <3>1. tasks[t].as # Nobody /\ ~Answered(t, tasks[t].at) /\ tasks[t].at \notin ForAdmins
      BY <1>5 DEF Failed, Opens, Shows, ForAdmins
    <3> QED
      BY <1>1, <3>1 DEF Answered, Waits, Busy
  <2>5. PageKnows' /\ ButtonsKnow'
    BY <1>1, <1>2, <2>1, <2>3, <2>4
       DEF PageKnows, ButtonsKnow, Opens, Shows, FilesMatch, views
  <2> QED
    BY <1>3, <2>2, <2>5 DEF Rest
<1> QED
  BY <1>4, <1>5

\* A page that is loaded anew asks who its cookie belongs to, and forgets all else.
LEMMA ReloadKeepsRest ==
    ASSUME Sound, NEW t \in Tasks, Reload(t) PROVE Rest'
<1> DEFINE r == AskProjects(NoSession, "users")
<1>1. /\ r \in Request /\ r.at = "projects" /\ r.then = "users" /\ r.as = cookie
      /\ tasks' = [s \in Tasks |-> IF s = t THEN r ELSE Idle]
      /\ session'.token = Nobody /\ session'.user = Nobody /\ session'.role = None
       /\ ~detail' /\ cookie' = cookie
  BY DEF Reload, AskProjects, Ask, NoSession, Caller, Request, Paths, Sound, TypeOK
<1> HIDE DEF r
<1>2. Busy' = {t} /\ tasks'[t] = r
  BY <1>1, WebAssumption DEF Busy
<1> QED
  BY <1>1, <1>2
     DEF Rest, TakeTurns, CookieIsCaller, NotYetSignedIn, HandlersKnow,
     PageKnows, ButtonsKnow, SignsIn, Opens, Shows

\* Before the page is used.
LEMMA SoundAtFirst == Init => Sound
<1> SUFFICES ASSUME Init PROVE Sound
  OBVIOUS
<1>1. TypeOK /\ Busy = {}
  BY WebAssumption DEF Init, TypeOK, NoSession, Busy
<1> QED
  BY <1>1 DEF Init, Sound, NoSession, TakeTurns, CookieIsCaller, NotYetSignedIn,
     HandlersKnow, PageKnows, ButtonsKnow

\* Every step of a patient user and of the server keeps the invariant.
LEMMA SoundStays == ASSUME Patient PROVE Sound /\ [Next]_vars => Sound'
<1> SUFFICES ASSUME Sound, [Next]_vars PROVE Sound'
  OBVIOUS
<1>1. TypeOK'
  BY TypesStay DEF Sound
<1>2. CASE UNCHANGED vars
  BY <1>1, <1>2
     DEF Sound, vars, views, TakeTurns, CookieIsCaller, NotYetSignedIn,
     HandlersKnow, PageKnows, ButtonsKnow, Busy, SignsIn, Opens, Shows, AtPanel, FilesMatch
<1>3. ASSUME NEW t \in Tasks, Reload(t) PROVE Rest'
  BY <1>3, ReloadKeepsRest
<1>4. ASSUME NEW t \in Tasks, Respond(t) PROVE Rest'
  BY <1>4, SigningKeepsRest, PanelKeepsRest, ListsKeepRest, AdminsKeepRest, FailuresKeepRest
     DEF Respond
<1>5. ASSUME NEW t \in Tasks, Click(t), Patient => Waited(t) PROVE Rest'
  BY <1>5, ClicksKeepRest
<1> QED
  BY <1>1, <1>2, <1>3, <1>4, <1>5 DEF Next, Sound, Rest

\* The invariant holds at every moment.
LEMMA AlwaysSound == ASSUME Patient PROVE Spec => []Sound
BY SoundAtFirst, SoundStays, PTL DEF Spec
-----------------------------------------------------------------------------
\* The token is never another than the cookie's, even of a user who does not wait: LoggedIn
\* sets both, and LoggedOut drops both or, without an answer, the token.
TokenIsCookie == session.token \in {Nobody, cookie}

\* What a handler newly waits for, it asks as the token or the cookie says.
AsksAsCaller ==
    \A t \in Tasks : tasks'[t] \notin {tasks[t], Idle} =>
        tasks'[t].at = "login" \/ tasks'[t].as \in {session.token, session'.token, cookie}

\* A handler that goes on or begins, or one that ends, asks as the caller.
LEMMA GoesOn ==
    ASSUME TypeOK, NEW t \in Tasks, NEW r, GoOn(t, r),
           r.at = "login" \/ r.as \in {session.token, session'.token, cookie}
    PROVE  AsksAsCaller
BY DEF GoOn, AsksAsCaller, TypeOK

LEMMA IsDone ==
    ASSUME TypeOK, NEW t \in Tasks, Done(t)
    PROVE  AsksAsCaller
BY DEF Done, AsksAsCaller, TypeOK

LEMMA AskedAsCaller ==
    ASSUME NEW state, NEW at, NEW p, NEW v, NEW then
    PROVE  /\ Ask(state, at, p, v, then).as \in {state.token, cookie}
           /\ Ask(state, at, p, v, then).at = at
BY DEF Ask, Caller

\* Every step asks as the caller, and keeps the token the cookie's.
LEMMA StepAsksAsCaller ==
    TypeOK /\ TokenIsCookie /\ [Next]_vars => TokenIsCookie' /\ (cookie' = Nobody => AsksAsCaller)
<1> SUFFICES ASSUME TypeOK, TokenIsCookie, [Next]_vars
             PROVE  TokenIsCookie' /\ (cookie' = Nobody => AsksAsCaller)
  OBVIOUS
<1>1. CASE UNCHANGED vars
  BY <1>1 DEF TokenIsCookie, AsksAsCaller, vars
<1>2. ASSUME NEW t \in Tasks, Reload(t)
      PROVE  TokenIsCookie' /\ AsksAsCaller
  <2>1. \A s \in Tasks : tasks'[s] # Idle => tasks'[s].as = cookie
    BY <1>2 DEF Reload, AskProjects, Ask, Caller, NoSession
  <2> QED
    BY <1>2, <2>1 DEF Reload, NoSession, TokenIsCookie, AsksAsCaller
<1>3. ASSUME NEW t \in Tasks, Click(t)
      PROVE  TokenIsCookie' /\ AsksAsCaller
  <2>1. TokenIsCookie'
    BY <1>3 DEF Click, SignOut, DeleteFile, SubmitLogin, DeleteUser, OpenProject, OpenVersion,
                DeleteVersion, SubmitForm, TokenIsCookie, TypeOK
  <2> SUFFICES AsksAsCaller
    BY <2>1
  <2>2. CASE SignOut(t) \/ DeleteFile(t)
    BY <2>2, GoesOn, AskedAsCaller DEF SignOut, DeleteFile
  <2>3. ASSUME NEW u \in People, SubmitLogin(t, u) PROVE AsksAsCaller
    <3> DEFINE r == [Ask(session, "login", None, None, "users") EXCEPT !.as = u]
    <3>1. r.at = "login"
      BY DEF Ask
    <3> QED
      BY <2>3, <3>1, GoesOn DEF SubmitLogin
  <2>4. ASSUME NEW u \in People, DeleteUser(t, u) PROVE AsksAsCaller
    BY <2>4, GoesOn, AskedAsCaller DEF DeleteUser
  <2>5. ASSUME NEW p \in Projects, OpenProject(t, p) PROVE AsksAsCaller
    <3> DEFINE r == Ask(session', "projects", session'.project, None, "versionsOfProject")
    <3>1. GoOn(t, r)
      BY <2>5 DEF OpenProject, AskProjects
    <3>2. r.as \in {session'.token, cookie}
      BY AskedAsCaller
    <3> HIDE DEF r
    <3> QED
      BY <3>1, <3>2, GoesOn
  <2>6. ASSUME NEW v \in Versions, OpenVersion(t, v) \/ DeleteVersion(t, v) PROVE AsksAsCaller
    BY <2>6, GoesOn, AskedAsCaller DEF OpenVersion, DeleteVersion
  <2>7. ASSUME NEW at \in {"enroll", "grant"}, SubmitForm(t, at) PROVE AsksAsCaller
    BY <2>7, GoesOn, AskedAsCaller DEF SubmitForm
  <2> QED
    BY <1>3, <2>1, <2>2, <2>3, <2>4, <2>5, <2>6, <2>7 DEF Click
<1>4. ASSUME NEW t \in Tasks, Respond(t)
      PROVE  TokenIsCookie' /\ (cookie' = Nobody => AsksAsCaller)
  <2>1. CASE LoggedIn(t)
    <3>1. cookie' = tasks[t].as /\ session'.token = cookie' /\ cookie' # Nobody
      BY <2>1 DEF LoggedIn, Entered, Answered, TypeOK
    <3> QED
      BY <3>1 DEF TokenIsCookie
  <2>2. CASE LoggedOut(t)
    BY <2>2, IsDone DEF LoggedOut, NoSession, TokenIsCookie
  <2>3. CASE GotProjects(t)
    <3>1. session'.token = session.token /\ cookie' = cookie
      BY <2>3 DEF GotProjects, TypeOK
    <3>2. \/ GoOn(t, AskUsers("end"))
          \/ GoOn(t, Ask(session', "versionsOfProject", tasks[t].project, None, "end"))
          \/ Done(t)
      BY <2>3 DEF GotProjects
    <3> QED
      BY <3>1, <3>2, GoesOn, IsDone, AskedAsCaller DEF AskUsers, TokenIsCookie
  <2>4. ASSUME NEW listed \in SUBSET People, GotUsers(t, listed)
        PROVE  TokenIsCookie' /\ AsksAsCaller
    BY <2>4, GoesOn, IsDone, AskedAsCaller DEF GotUsers, AskProjects, TokenIsCookie
  <2>5. CASE GotVersions(t) \/ GotFiles(t)
    BY <2>5, IsDone DEF GotVersions, GotFiles, TokenIsCookie
  <2>6. CASE GotVersionsAgain(t) \/ DeletedFile(t)
    BY <2>6, GoesOn, AskedAsCaller DEF GotVersionsAgain, DeletedFile, TokenIsCookie
  <2>7. CASE DeletedVersion(t)
    <3> DEFINE r == Ask(session', "projects", session'.project, None, "versionsOfProject")
    <3>1. session'.token = session.token /\ cookie' = cookie
      BY <2>7 DEF DeletedVersion, TypeOK
    <3>2. GoOn(t, r)
      BY <2>7 DEF DeletedVersion, AskProjects
    <3>3. r.as \in {session'.token, cookie}
      BY AskedAsCaller
    <3> HIDE DEF r
    <3> QED
      BY <3>1, <3>2, <3>3, GoesOn DEF TokenIsCookie
  <2>8. ASSUME NEW at \in {"deleteUser", "enroll", "grant"}, Posted(t, at)
        PROVE  TokenIsCookie' /\ AsksAsCaller
    <3>1. GoOn(t, AskUsers(tasks[t].then)) \/ Done(t) \/ GoOn(t, AskProjects(session, "end"))
      BY <2>8 DEF Posted
    <3> QED
      BY <2>8, <3>1, GoesOn, IsDone, AskedAsCaller DEF Posted, AskUsers, AskProjects, TokenIsCookie
  <2>9. CASE Rejected(t) \/ Failed(t)
    BY <2>9, IsDone DEF Rejected, Failed, NoSession, TokenIsCookie
  <2> QED
    BY <1>4, <2>1, <2>2, <2>3, <2>4, <2>5, <2>6, <2>7, <2>8, <2>9 DEF Respond
<1> QED
  BY <1>1, <1>2, <1>3, <1>4 DEF Next

\* After an answered sign-out nothing is asked in anybody's name, whatever was under way at
\* the sign-out and whatever is lost, also of a user who does not wait (api, the sign-out
\* button and refreshProjects in app.js).
THEOREM SignedOutAsksNothing == Spec => NothingDoneSignedOut
<1>1. Init => TypeOK /\ TokenIsCookie
  BY SoundAtFirst DEF Sound, Init, NoSession, TokenIsCookie
<1>2. TypeOK /\ TokenIsCookie /\ [Next]_vars =>
        [\A t \in Tasks : cookie' = Nobody /\ tasks'[t] \notin {tasks[t], Idle} =>
            tasks'[t].at = "login" \/ tasks'[t].as = Nobody]_vars
  <2> SUFFICES ASSUME TypeOK, TokenIsCookie, Next, cookie' = Nobody
               PROVE  \A t \in Tasks : tasks'[t] \notin {tasks[t], Idle} =>
                         tasks'[t].at = "login" \/ tasks'[t].as = Nobody
    OBVIOUS
  <2>1. TokenIsCookie' /\ AsksAsCaller
    BY StepAsksAsCaller
  <2>2. CASE cookie = Nobody
    BY <2>1, <2>2 DEF TokenIsCookie, AsksAsCaller
  <2>3. CASE cookie # Nobody
    <3>1. PICK t \in Tasks : LoggedOut(t) \/ LoggedIn(t)
      BY <2>3 DEF Next, Reload, Click, Respond, SignOut, DeleteFile, SubmitLogin, DeleteUser,
         OpenProject, OpenVersion, DeleteVersion, SubmitForm, GotProjects, GotUsers, GotVersions,
         GotVersionsAgain, GotFiles, DeletedFile, DeletedVersion, Posted, Rejected, Failed
    <3>2. Done(t)
      BY <3>1 DEF LoggedOut, LoggedIn, Answered
    <3> QED
      BY <3>2 DEF Done, TypeOK
  <2> QED
    BY <2>2, <2>3
<1> QED
  BY <1>1, <1>2, TypesStay, StepAsksAsCaller, PTL DEF Spec, NothingDoneSignedOut

\* The user the page shows as signed in is the one the next request is made as, whatever is
\* lost, also when the token is gone and the cookie is not (api, refreshProjects).
THEOREM ShownUserCalls == ASSUME Patient PROVE Spec => []ShownUserIsCaller
<1>1. Sound => ShownUserIsCaller
  BY WebAssumption DEF Sound, CookieIsCaller, ShownUserIsCaller, IsSignedIn, Caller
<1> QED
  BY <1>1, AlwaysSound, PTL

\* Once every answer is in, and none was lost, the page agrees with itself: the files are
\* those of the selected version, clients see no control of admins, and admins none to
\* delete themselves (openVersion, openProject, renderFiles, refreshUsers).
THEOREM SettledPageAgrees == ASSUME Patient PROVE Spec => []PageAgreesWhenSettled
<1>1. Sound /\ Settled => Busy = {}
  BY DEF Settled, Busy
<1>2. Sound => FilesMatchWhenSettled
  BY <1>1
     DEF Sound, PageKnows, FilesMatch, FilesMatchWhenSettled, Settled, ShowsDetail, IsSignedIn
<1>3. Sound => ClientsSeeNoControlsWhenSettled
  BY <1>1 DEF Sound, PageKnows, ClientsSeeNoControlsWhenSettled, Settled, ShowsDetail,
     IsSignedIn, IsAdmin
<1>4. Sound => NoOwnDeleteWhenSettled
  BY <1>1 DEF Sound, ButtonsKnow, NoOwnDeleteWhenSettled, Settled, IsSignedIn, IsAdmin
<1>5. Sound => PageAgreesWhenSettled
  BY <1>2, <1>3, <1>4 DEF PageAgreesWhenSettled, Sound
<1> QED
  BY <1>5, AlwaysSound, PTL

\* Before anything is lost, a patient user's Delete button deletes a file of the version
\* listed, or a version of the project listed, though it acts on what is selected
\* (renderFiles, renderVersions).
THEOREM ButtonsDeleteWhatTheyShow == ASSUME Patient PROVE Spec => DeletesWhatItShows
<1> DEFINE Shown ==
      \A t \in Tasks : ~lost /\ tasks[t] = Idle /\ tasks'[t] # Idle =>
          /\ tasks'[t].at = "deleteFile" =>
                /\ tasks'[t].project = fileList.project
                /\ tasks'[t].version = fileList.version
          /\ tasks'[t].at = "deleteVersion" => tasks'[t].project = versionList.project
<1>1. ASSUME Sound, [Next]_vars, NEW t \in Tasks, ~lost, tasks[t] = Idle, tasks'[t] # Idle
      PROVE  /\ tasks'[t].at = "deleteFile" =>
                   /\ tasks'[t].project = fileList.project
                   /\ tasks'[t].version = fileList.version
             /\ tasks'[t].at = "deleteVersion" => tasks'[t].project = versionList.project
  <2>1. TypeOK
    BY <1>1 DEF Sound
  <2>2. CASE UNCHANGED vars
    BY <1>1, <2>2 DEF vars
  <2>3. ASSUME NEW s \in Tasks, Reload(s) PROVE tasks'[t].at = "projects"
    BY <1>1, <2>3 DEF Reload, AskProjects, Ask
  <2>4. ASSUME NEW s \in Tasks, Respond(s) PROVE FALSE
    <3>1. tasks[s] # Idle
      BY <2>4 DEF Respond, LoggedIn, LoggedOut, GotProjects, GotVersions, GotVersionsAgain,
         GotFiles, DeletedFile, DeletedVersion, GotUsers, Posted, Rejected, Failed, Answered, Waits
    <3>2. tasks'[t] = tasks[t]
      BY <1>1, <2>1, <2>4, <3>1
         DEF TypeOK, GoOn, Done, Respond, LoggedIn, LoggedOut, GotProjects, GotVersions,
             GotVersionsAgain, GotFiles, DeletedFile, DeletedVersion, GotUsers, Posted, Rejected,
             Failed
    <3> QED
      BY <1>1, <3>2
  <2>5. ASSUME NEW s \in Tasks, Click(s), Waited(s)
        PROVE  /\ tasks'[t].at = "deleteFile" =>
                     /\ tasks'[t].project = fileList.project
                     /\ tasks'[t].version = fileList.version
               /\ tasks'[t].at = "deleteVersion" => tasks'[t].project = versionList.project
    <3>1. s = t
      BY <1>1, <2>1, <2>5
         DEF TypeOK, GoOn, Click, SignOut, DeleteFile, SubmitLogin, DeleteUser,
         OpenProject, OpenVersion, DeleteVersion, SubmitForm
    <3>2. \/ tasks'[t].at \notin {"deleteFile", "deleteVersion"}
          \/ ShowsDetail /\ DeleteFile(t)
          \/ ShowsDetail /\ \E v \in Versions : DeleteVersion(t, v)
      <4>1. ASSUME NEW u \in People, SubmitLogin(t, u) PROVE tasks'[t].at = "login"
        BY <2>1, <4>1 DEF TypeOK, SubmitLogin, GoOn, Ask
      <4>2. ASSUME NEW p \in Projects, OpenProject(t, p) PROVE tasks'[t].at = "projects"
        BY <2>1, <4>2 DEF TypeOK, OpenProject, GoOn, Ask, AskProjects
      <4>3. ASSUME NEW v \in Versions, OpenVersion(t, v)
            PROVE  tasks'[t].at = "versionsOfVersion"
        BY <2>1, <4>3 DEF TypeOK, OpenVersion, GoOn, Ask
      <4>4. ASSUME SignOut(t) PROVE tasks'[t].at = "logout"
        BY <2>1, <4>4 DEF TypeOK, SignOut, GoOn, Ask
      <4>5. ASSUME NEW u \in People, DeleteUser(t, u) PROVE tasks'[t].at = "deleteUser"
        BY <2>1, <4>5 DEF TypeOK, DeleteUser, GoOn, Ask
      <4>6. ASSUME NEW at \in {"enroll", "grant"}, SubmitForm(t, at) PROVE tasks'[t].at = at
        BY <2>1, <4>6 DEF TypeOK, SubmitForm, GoOn, Ask
      <4> QED
        BY <2>5, <3>1, <4>1, <4>2, <4>3, <4>4, <4>5, <4>6
           DEF Click, DeleteFile, DeleteVersion
    <3>3. tasks'[t].at \in {"deleteFile", "deleteVersion"}
             => \A u \in Busy : ~Opens(tasks[u]) /\ ~Shows(tasks[u])
      BY <1>1, <2>5, <3>1 DEF Waited, Busy, AtPanel, Opens, Shows
    <3>4. CASE DeleteFile(t) /\ ShowsDetail
      <4>1. /\ tasks'[t].at = "deleteFile" /\ tasks'[t].project = session.project
            /\ tasks'[t].version = session.version /\ fileList # None
        BY <2>1, <3>4 DEF DeleteFile, GoOn, Ask, TypeOK
      <4>2. FilesMatch
        BY <1>1, <3>3, <3>4, <4>1 DEF Sound, PageKnows, ShowsDetail, IsSignedIn
      <4> QED
        BY <4>1, <4>2 DEF FilesMatch
    <3>5. ASSUME NEW v \in Versions, DeleteVersion(t, v), ShowsDetail
          PROVE  tasks'[t].at = "deleteVersion" /\ tasks'[t].project = versionList.project
      <4>1. /\ tasks'[t].at = "deleteVersion" /\ tasks'[t].project = session.project
            /\ versionList # None
        BY <2>1, <3>5 DEF DeleteVersion, GoOn, Ask, TypeOK
      <4> QED
        BY <1>1, <3>3, <3>5, <4>1 DEF Sound, PageKnows, ShowsDetail, IsSignedIn
    <3> QED
      BY <3>2, <3>4, <3>5
  <2> QED
    BY <1>1, <2>2, <2>3, <2>4, <2>5 DEF Next
<1>2. Sound /\ [Next]_vars => [Shown]_vars
  BY <1>1
<1>3. [][Shown]_vars <=> DeletesWhatItShows
  BY DEF DeletesWhatItShows
<1> QED
  BY <1>2, <1>3, AlwaysSound, PTL DEF Spec
-----------------------------------------------------------------------------
(* The upload queue of the same page.  The page's project and its handlers are those of *)
(* UploadQueue here, any number of files may be queued, and uploads may fail.           *)

CONSTANT Files
VARIABLES project, field, pending, uploads, stored

Queue == INSTANCE UploadQueue WITH tasks <- uploads

\* The files that an upload under way has brought to the server.
Brought(t) == uploads[t].batch \ (uploads[t].rest \cup {uploads[t].file})

\* They are stored, in a project each.
BatchSent(t) ==
    \A f \in Brought(t) :
        \E p \in Projects \cup {None} : <<p, uploads[t].version, f>> \in stored

\* Nobody changed the project or queued a file while an upload was left alone, so that its
\* files are where they were queued.
LeftAlone(t) ==
    uploads[t].alone =>
        /\ project = uploads[t].home /\ uploads[t].to = uploads[t].home
        /\ pending \subseteq uploads[t].batch
        /\ \A f \in Brought(t) : <<uploads[t].home, uploads[t].version, f>> \in stored

QueueKnown(t) == Queue!Sends(t) => BatchSent(t) /\ LeftAlone(t)
QueueSound == Queue!TypeOK /\ \A t \in Tasks : QueueKnown(t)

Sending == [at : {"send"}, home : Projects, version : Versions, batch : SUBSET Files,
            rest : SUBSET Files, file : Files, to : Projects \cup {None}, alone : BOOLEAN]

\* The handlers that send, and their records.
LEMMA Senders ==
    ASSUME Queue!QueueAssumption, Queue!TypeOK, NEW t \in Tasks
    PROVE  /\ Queue!Sends(t) => uploads[t] \in Sending
           /\ uploads[t] \in Sending => Queue!Sends(t)
BY DEF Queue!TypeOK, Queue!Sends, Queue!Upload, Sending

\* Disturbing the handlers changes nothing but whether they are alone.
LEMMA DisturbedSenders ==
    ASSUME Queue!QueueAssumption, Queue!TypeOK
    PROVE  /\ Queue!Disturbed \in [Tasks -> Queue!Upload \cup {Idle}]
           /\ \A t \in Tasks : IF Queue!Sends(t)
                 THEN LET d == Queue!Disturbed[t]
                          u == uploads[t]
                      IN  /\ d \in Sending /\ ~d.alone
                          /\ d.home = u.home /\ d.version = u.version /\ d.batch = u.batch
                          /\ d.rest = u.rest /\ d.file = u.file /\ d.to = u.to
                 ELSE Queue!Disturbed[t] = uploads[t]
<1>1. ASSUME NEW t \in Tasks, Queue!Sends(t)
      PROVE  LET d == Queue!Disturbed[t]
                 u == uploads[t]
             IN  /\ d \in Sending /\ ~d.alone
                 /\ d.home = u.home /\ d.version = u.version /\ d.batch = u.batch
                 /\ d.rest = u.rest /\ d.file = u.file /\ d.to = u.to
  <2>1. uploads[t] \in Sending
    BY <1>1, Senders
  <2>2. Queue!Disturbed[t] = [uploads[t] EXCEPT !.alone = FALSE]
    BY <1>1 DEF Queue!Disturbed
  <2> QED
    BY <2>1, <2>2 DEF Sending
<1>2. \A t \in Tasks : ~Queue!Sends(t) => Queue!Disturbed[t] = uploads[t]
  BY DEF Queue!Disturbed
<1>3. \A t \in Tasks : Queue!Disturbed[t] \in Queue!Upload \cup {Idle}
  BY <1>1, <1>2 DEF Queue!TypeOK, Queue!Upload, Sending
<1>4. Queue!Disturbed \in [Tasks -> Queue!Upload \cup {Idle}]
  BY <1>3 DEF Queue!Disturbed
<1> QED
  BY <1>1, <1>2, <1>4

\* The page is used while uploads are under way.
LEMMA UseKeeps ==
    ASSUME Queue!QueueAssumption,
           QueueSound, uploads' = Queue!Disturbed, stored' = stored,
           project' \in Projects \cup {None}, field' \in Versions \cup {None},
           pending' \subseteq Files
    PROVE  QueueSound'
<1> USE DEF QueueSound
<1>1. Queue!TypeOK'
  BY DisturbedSenders DEF Queue!TypeOK
<1>2. \A t \in Tasks : /\ Queue!Sends(t)' <=> Queue!Sends(t)
                       /\ Queue!Sends(t) => /\ ~uploads'[t].alone
                                            /\ uploads'[t].version = uploads[t].version
                                      /\ uploads'[t].batch = uploads[t].batch
                                      /\ uploads'[t].rest = uploads[t].rest
                                      /\ uploads'[t].file = uploads[t].file
  <2> SUFFICES ASSUME NEW t \in Tasks
               PROVE  /\ Queue!Sends(t)' <=> Queue!Sends(t)
                      /\ Queue!Sends(t) => /\ ~uploads'[t].alone
                                           /\ uploads'[t].version = uploads[t].version
                                     /\ uploads'[t].batch = uploads[t].batch
                                     /\ uploads'[t].rest = uploads[t].rest
                                     /\ uploads'[t].file = uploads[t].file
    OBVIOUS
  <2>1. CASE Queue!Sends(t)
    <3>1. uploads'[t] \in Sending
      BY <2>1, DisturbedSenders
    <3>2. uploads'[t] # Idle /\ uploads'[t].at = "send"
      BY <3>1, Queue!QueueAssumption DEF Queue!Upload, Sending
    <3> QED
      BY <2>1, <3>2, DisturbedSenders DEF Queue!Sends
  <2>2. CASE ~Queue!Sends(t)
    BY <2>2, DisturbedSenders DEF Queue!Sends
  <2> QED
    BY <2>1, <2>2
<1>3. \A t \in Tasks : QueueKnown(t)'
  BY <1>2 DEF QueueKnown, Brought, BatchSent, LeftAlone
<1> QED
  BY <1>1, <1>3 DEF QueueSound

\* An upload that a step leaves alone is known as well after it, when the project is the
\* same, no file was queued and the server has lost none.
LEMMA OthersKeep ==
    ASSUME Queue!QueueAssumption,
           QueueSound, NEW t \in Tasks, uploads'[t] = uploads[t], project' = project,
           pending' \subseteq pending, stored \subseteq stored'
    PROVE  QueueKnown(t)'
BY DEF QueueKnown, Brought, BatchSent, LeftAlone, Queue!Sends, QueueSound

\* What the server takes of an upload.
LEMMA TakenIsStored ==
    ASSUME Queue!QueueAssumption,
           Queue!TypeOK, NEW t \in Tasks, Queue!Sends(t), Queue!TakeUpload(t)
    PROVE  /\ stored \subseteq stored'
           /\ stored' \subseteq (Projects \cup {None}) \X Versions \X Files
           /\ <<uploads[t].to, uploads[t].version, uploads[t].file>> \in stored'
<1>1. uploads[t] \in Sending
  BY Senders
<1> QED
  BY <1>1 DEF Queue!TakeUpload, Queue!TypeOK, Sending

\* A new upload starts with nothing brought and disturbs the others.
LEMMA SubmitKeeps ==
    ASSUME Queue!QueueAssumption, QueueSound, NEW t \in Tasks, Queue!Submit(t)
    PROVE  QueueSound'
<1> PICK f \in pending :
        uploads' = [Queue!Disturbed EXCEPT ![t] =
                    [at |-> "send", home |-> project, version |-> field, batch |-> pending,
                     rest |-> pending \ {f}, file |-> f, to |-> project, alone |-> TRUE]]
  BY DEF Queue!Submit
<1> DEFINE new == [at |-> "send", home |-> project, version |-> field, batch |-> pending,
                   rest |-> pending \ {f}, file |-> f, to |-> project, alone |-> TRUE]
<1>1. Queue!TypeOK
  BY DEF QueueSound
<1>2. new \in Sending
  BY <1>1 DEF Queue!Submit, Queue!TypeOK, Sending
<1>3. Queue!Disturbed \in [Tasks -> Queue!Upload \cup {Idle}]
  BY <1>1, DisturbedSenders
<1>4. /\ uploads' \in [Tasks -> Queue!Upload \cup {Idle}]
      /\ uploads'[t] = new
      /\ \A s \in Tasks \ {t} : uploads'[s] = Queue!Disturbed[s]
  BY <1>2, <1>3 DEF Queue!Upload, Sending
<1>5. Queue!TypeOK'
  BY <1>1, <1>4 DEF Queue!Submit, Queue!TypeOK
<1>6. QueueKnown(t)'
  BY <1>4 DEF QueueKnown, Brought, BatchSent, LeftAlone, Queue!Submit
<1>7. ASSUME NEW s \in Tasks \ {t}
      PROVE  QueueKnown(s)'
  <2>1. CASE Queue!Sends(s)
    <3>1. /\ ~uploads'[s].alone
          /\ uploads'[s].version = uploads[s].version /\ uploads'[s].batch = uploads[s].batch
          /\ uploads'[s].rest = uploads[s].rest /\ uploads'[s].file = uploads[s].file
      BY <1>1, <1>4, <2>1, DisturbedSenders
    <3> QED
      BY <2>1, <3>1 DEF QueueKnown, Brought, BatchSent, LeftAlone, Queue!Submit, QueueSound
  <2>2. CASE ~Queue!Sends(s)
    <3>1. ~Queue!Sends(s)'
      BY <1>1, <1>4, <2>2, DisturbedSenders DEF Queue!Sends
    <3> QED
      BY <3>1 DEF QueueKnown, Brought, BatchSent, LeftAlone
  <2> QED
    BY <2>1, <2>2
<1> QED
  BY <1>5, <1>6, <1>7 DEF QueueSound

\* An upload that is answered has brought one file more, to where it was sent.
LEMMA SendNextKeeps ==
    ASSUME Queue!QueueAssumption, QueueSound, NEW t \in Tasks, Queue!SendNext(t)
    PROVE  QueueSound'
<1> PICK f \in uploads[t].rest :
        uploads' = [uploads EXCEPT ![t].file = f, ![t].rest = @ \ {f}, ![t].to = project]
  BY DEF Queue!SendNext
<1>1. Queue!TypeOK /\ Queue!Sends(t) /\ Queue!TakeUpload(t)
  BY DEF QueueSound, Queue!SendNext
<1>2. uploads[t] \in Sending
  BY <1>1, Senders
<1> DEFINE next == [uploads[t] EXCEPT !.file = f, !.rest = @ \ {f}, !.to = project]
<1>3. /\ uploads' = [uploads EXCEPT ![t] = next]
      /\ uploads'[t] = next
      /\ \A s \in Tasks \ {t} : uploads'[s] = uploads[s]
  BY <1>1 DEF Queue!TypeOK
<1>4. /\ next \in Sending
      /\ next.file = f /\ next.rest = uploads[t].rest \ {f} /\ next.to = project
      /\ next.batch = uploads[t].batch /\ next.version = uploads[t].version
      /\ next.home = uploads[t].home /\ next.alone = uploads[t].alone
  BY <1>1, <1>2 DEF Queue!TypeOK, Sending
<1> HIDE DEF next
<1>5. stored \subseteq stored' /\ <<uploads[t].to, uploads[t].version, uploads[t].file>> \in stored'
      /\ stored' \subseteq (Projects \cup {None}) \X Versions \X Files
  BY <1>1, TakenIsStored
<1>6. Queue!TypeOK'
  <2>1. uploads' \in [Tasks -> Queue!Upload \cup {Idle}]
    BY <1>1, <1>3, <1>4 DEF Queue!TypeOK, Queue!Upload, Sending
  <2> QED
    BY <1>1, <1>5, <2>1 DEF Queue!TypeOK, Queue!SendNext
<1>7. QueueKnown(t)'
  <2>1. QueueKnown(t)
    BY DEF QueueSound
  <2>2. uploads[t].to \in Projects \cup {None}
    BY <1>2 DEF Sending
  <2>3. next.batch \ (next.rest \cup {next.file}) \subseteq Brought(t) \cup {uploads[t].file}
    BY <1>4 DEF Brought
  <2>4. \A g \in next.batch \ (next.rest \cup {next.file}) :
          \E p \in Projects \cup {None} : <<p, next.version, g>> \in stored'
    BY <1>1, <1>4, <1>5, <2>1, <2>2, <2>3 DEF QueueKnown, Brought, BatchSent, LeftAlone
  <2>5. next.alone =>
          /\ project = next.home /\ next.to = next.home
          /\ pending \subseteq next.batch
          /\ \A g \in next.batch \ (next.rest \cup {next.file}) :
                <<next.home, next.version, g>> \in stored'
    BY <1>1, <1>4, <1>5, <2>1, <2>3 DEF QueueKnown, Brought, BatchSent, LeftAlone
  <2> QED
    BY <1>3, <2>4, <2>5 DEF QueueKnown, Brought, BatchSent, LeftAlone, Queue!SendNext
<1>8. \A s \in Tasks \ {t} : QueueKnown(s)'
  BY <1>3, <1>5, OthersKeep DEF Queue!SendNext
<1> QED
  BY <1>6, <1>7, <1>8 DEF QueueSound

\* An upload stops sending: it opens its project again, is done or has failed.
LEMMA StopsKeeps ==
    ASSUME Queue!QueueAssumption,
           QueueSound, NEW t \in Tasks,
           NEW u \in Queue!Upload \cup {Idle}, u # Idle => u.at # "send",
           uploads' = [uploads EXCEPT ![t] = u], project' = project,
           field' \in Versions \cup {None}, pending' \subseteq pending,
           (Queue!Sends(t) /\ Queue!TakeUpload(t)) \/ stored' = stored
    PROVE  QueueSound'
<1>1. Queue!TypeOK
  BY DEF QueueSound
<1>2. /\ uploads'[t] = u
      /\ \A s \in Tasks \ {t} : uploads'[s] = uploads[s]
  BY <1>1 DEF Queue!TypeOK
<1>3. stored \subseteq stored' /\ stored' \subseteq (Projects \cup {None}) \X Versions \X Files
  BY <1>1, TakenIsStored DEF Queue!TypeOK
<1>4. Queue!TypeOK'
  BY <1>1, <1>3 DEF Queue!TypeOK
<1>5. QueueKnown(t)'
  BY <1>2 DEF QueueKnown, Brought, BatchSent, LeftAlone, Queue!Sends
<1>6. \A s \in Tasks \ {t} : QueueKnown(s)'
  BY <1>2, <1>3, OthersKeep
<1> QED
  BY <1>4, <1>5, <1>6 DEF QueueSound

\* The invariant of the queue holds at the start.
LEMMA QueueSoundInit == Queue!Init => QueueSound
BY DEF Queue!Init, QueueSound, Queue!TypeOK, QueueKnown, Brought, BatchSent, LeftAlone, Queue!Sends

\* Every step keeps the invariant.
LEMMA QueueSoundStep ==
    ASSUME Queue!QueueAssumption, QueueSound, [Queue!Next]_(Queue!vars)
    PROVE  QueueSound'
<1>0. Queue!TypeOK
  BY DEF QueueSound
<1>1. ASSUME NEW entries \in SUBSET Files, Queue!QueueFiles(entries)
      PROVE  QueueSound'
  BY <1>0, <1>1, UseKeeps DEF Queue!QueueFiles, Queue!TypeOK
<1>2. ASSUME NEW p \in Projects, Queue!OpenProject(p)
      PROVE  QueueSound'
  BY <1>0, <1>2, UseKeeps DEF Queue!OpenProject, Queue!TypeOK
<1>3. ASSUME NEW v \in Versions, Queue!SetVersion(v)
      PROVE  QueueSound'
  BY <1>0, <1>3, UseKeeps DEF Queue!SetVersion, Queue!TypeOK
<1>4. CASE Queue!Leave
  BY <1>0, <1>4, UseKeeps DEF Queue!Leave, Queue!TypeOK
<1>5. ASSUME NEW t \in Tasks, Queue!Submit(t) \/ Queue!SendNext(t)
      PROVE  QueueSound'
  BY <1>5, SubmitKeeps, SendNextKeeps
<1>6. ASSUME NEW t \in Tasks, Queue!SentAll(t)
      PROVE  QueueSound'
  <2> DEFINE u == [at |-> "reopen", version |-> uploads[t].version]
  <2>1. uploads[t] \in Sending
    BY <1>0, <1>6, Senders DEF Queue!SentAll
  <2>2. u \in Queue!Upload \cup {Idle} /\ u.at = "reopen"
    BY <2>1 DEF Sending, Queue!Upload
  <2>3. uploads' = [uploads EXCEPT ![t] = u]
    BY <1>6 DEF Queue!SentAll
  <2> HIDE DEF u
  <2> QED
    BY <1>6, <2>2, <2>3, StopsKeeps DEF Queue!SentAll
<1>7. ASSUME NEW t \in Tasks, Queue!Reopened(t)
      PROVE  QueueSound'
  <2>1. uploads[t].version \in Versions
    BY <1>0, <1>7 DEF Queue!Reopened, Queue!TypeOK, Queue!Upload
  <2> QED
    BY <1>7, <2>1, StopsKeeps DEF Queue!Reopened
<1>8. ASSUME NEW t \in Tasks, Queue!Failed(t)
      PROVE  QueueSound'
  BY <1>0, <1>8, StopsKeeps DEF Queue!Failed, Queue!TypeOK
<1>9. CASE UNCHANGED Queue!vars
  BY <1>9
     DEF Queue!vars, QueueSound, Queue!TypeOK, QueueKnown, Brought, BatchSent, LeftAlone,
         Queue!Sends
<1> QED
  BY <1>1, <1>2, <1>3, <1>4, <1>5, <1>6, <1>7, <1>8, <1>9 DEF Queue!Next

\* The invariant always holds.
LEMMA QueueAlwaysSound ==
    ASSUME Queue!QueueAssumption
    PROVE  Queue!Spec => []QueueSound
<1>1. QueueSound /\ [Queue!Next]_(Queue!vars) => QueueSound'
  BY QueueSoundStep
<1> QED
  BY QueueSoundInit, <1>1, PTL DEF Queue!Spec

\* Only the last answer ends an upload.
LEMMA LastAnswerEnds ==
    ASSUME Queue!QueueAssumption,
           Queue!TypeOK, Queue!Next, NEW t \in Tasks, Queue!Ends(t)
    PROVE  Queue!SentAll(t)
<1>1. Queue!Sends(t) /\ uploads'[t] # Idle /\ uploads'[t].at = "reopen"
  BY DEF Queue!Ends
<1>2. uploads'[t] # uploads[t] /\ uploads'[t] # Queue!Disturbed[t]
  <2>1. uploads[t] \in Sending /\ Queue!Disturbed[t] \in Sending
    BY <1>1, Senders, DisturbedSenders
  <2> QED
    BY <1>1, <2>1 DEF Sending
<1>3. PICK s \in Tasks : \/ Queue!Submit(s) \/ Queue!SendNext(s)
                         \/ Queue!SentAll(s) \/ Queue!Reopened(s) \/ Queue!Failed(s)
  BY <1>2 DEF Queue!Next, Queue!QueueFiles, Queue!OpenProject, Queue!SetVersion, Queue!Leave
<1>4. s = t
  <2>1. /\ Queue!Disturbed \in [Tasks -> Queue!Upload \cup {Idle}]
        /\ uploads \in [Tasks -> Queue!Upload \cup {Idle}]
    BY DisturbedSenders DEF Queue!TypeOK
  <2> QED
    BY <1>2, <1>3, <2>1
       DEF Queue!Submit, Queue!SendNext, Queue!SentAll, Queue!Reopened, Queue!Failed
<1>5. ~Queue!Submit(t) /\ ~Queue!Reopened(t)
  BY <1>1 DEF Queue!Sends, Queue!Submit, Queue!Reopened
<1>6. ~Queue!SendNext(t)
  <2>1. SUFFICES ASSUME Queue!SendNext(t) PROVE FALSE
    OBVIOUS
  <2>2. PICK f \in uploads[t].rest :
          uploads' = [uploads EXCEPT ![t].file = f, ![t].rest = @ \ {f}, ![t].to = project]
    BY <2>1 DEF Queue!SendNext
  <2>3. uploads[t] \in Sending
    BY <1>1, Senders
  <2>4. uploads'[t].at = uploads[t].at
    BY <2>2, <2>3 DEF Queue!TypeOK, Sending
  <2> QED
    BY <1>1, <2>3, <2>4 DEF Sending
<1>7. ~Queue!Failed(t)
  BY <1>1 DEF Queue!Failed, Queue!TypeOK
<1> QED
  BY <1>3, <1>4, <1>5, <1>6, <1>7

\* An upload that ends has all its files with the server, and if it was left alone they are
\* where they were queued and are all that is queued.
LEMMA EndIsComplete ==
    ASSUME Queue!QueueAssumption, QueueSound, Queue!Next, NEW t \in Tasks, Queue!Ends(t)
    PROVE  /\ \A f \in uploads[t].batch : \E p \in Projects \cup {None} :
                 <<p, uploads[t].version, f>> \in stored'
           /\ uploads[t].alone => \A f \in pending :
                 <<uploads[t].home, uploads[t].version, f>> \in stored'
<1>1. Queue!TypeOK /\ Queue!SentAll(t) /\ QueueKnown(t)
  BY LastAnswerEnds DEF QueueSound
<1>2. Queue!Sends(t) /\ uploads[t].rest = {} /\ Queue!TakeUpload(t)
  BY <1>1 DEF Queue!SentAll
<1>3. uploads[t] \in Sending
  BY <1>1, <1>2, Senders
<1>4. stored \subseteq stored' /\ <<uploads[t].to, uploads[t].version, uploads[t].file>> \in stored'
  BY <1>1, <1>2, TakenIsStored
<1>5. uploads[t].to \in Projects \cup {None}
  BY <1>3 DEF Sending
<1> QED
  BY <1>1, <1>2, <1>4, <1>5 DEF QueueKnown, Brought, BatchSent, LeftAlone

\* An upload that ends without a failure has uploaded every file of its batch (uploadPending
\* in app.js), however the page is used meanwhile.
THEOREM WholeBatchArrives ==
    ASSUME Queue!QueueAssumption
    PROVE  Queue!Spec => Queue!BatchUploaded
<1>1. QueueSound => Queue!TypeOK
  BY DEF QueueSound
<1>2. QueueSound /\ [Queue!Next]_(Queue!vars) =>
        [\A t \in Tasks : Queue!Ends(t) =>
           \A f \in uploads[t].batch : \E p \in Projects \cup {None} :
               <<p, uploads[t].version, f>> \in stored']_(Queue!vars)
  BY EndIsComplete
<1> QED
  BY QueueAlwaysSound, <1>1, <1>2, PTL DEF Queue!Spec, Queue!BatchUploaded

\* An upload that the user leaves alone clears only files that it has uploaded where they
\* were queued (the loop reads state.project anew, app.js's uploadPending).
THEOREM QueueLosesNothing ==
    ASSUME Queue!QueueAssumption
    PROVE  Queue!Spec => Queue!ClearsOnlyUploaded
<1>1. QueueSound /\ [Queue!Next]_(Queue!vars) =>
        [\A t \in Tasks : Queue!Ends(t) /\ uploads[t].alone =>
           \A f \in pending : <<uploads[t].home, uploads[t].version, f>> \in stored']_(Queue!vars)
  BY EndIsComplete
<1> QED
  BY QueueAlwaysSound, <1>1, PTL DEF Queue!Spec, Queue!ClearsOnlyUploaded
=============================================================================
