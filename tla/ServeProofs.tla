---------------------------- MODULE ServeProofs -----------------------------
(***************************************************************************)
(* Theorems about the server process of Serve, for every environment, every *)
(* content of the files it names and any number of signals and requests.   *)
(***************************************************************************)
EXTENDS Serve, TLAPS

http == server["http"]
https == server["https"]

\* How many signals each has caught.
HttpHolds == Len(http.captured)
HttpsHolds == Len(https.captured)

\* The phases between the start of serve and its return.
Active == {"starting", "listening", "draining"}

\* What is in the variables, but for the number of signals that a server holds.
Types ==
    /\ process \in {"configuring", "serving", "ended"}
    /\ server \in [Names ->
           [phase : Phases, should_exit : BOOLEAN, force_exit : BOOLEAN,
            captured : Seq(Signals), original : Names \cup {"default"}, busy : 0 .. MaxBusy]]
    /\ handler \in Names \cup {"default"}
    /\ watching \in BOOLEAN /\ early \in BOOLEAN
    /\ sent \in 0 .. MaxSignals

\* No server is started before the process is configured.
Untouched ==
    process = "configuring" =>
        server = [s \in Names |-> NewServer] /\ handler = "default" /\ sent = 0 /\ ~early

\* HTTPS starts after HTTP and returns before it, and the last started of those that have not
\* returned has the signal handlers.
Ladder ==
    /\ http.original = "default"
    /\ https.phase # "off" => https.original = "http"
    /\ http.phase = "off" => https.phase = "off"
    /\ Running =>
          /\ http.phase \in Active \cup {"off"}
          /\ handler = (IF https.phase \in Active THEN "https"
                        ELSE IF http.phase = "off" THEN "default" ELSE "http")

\* A signal is with the server that caught it until that returns, and then with HTTP.
Kept ==
    /\ HttpHolds \in Nat /\ HttpsHolds \in Nat
    /\ HttpsHolds <= sent
    /\ HttpHolds + (IF https.phase \in {"stopped", "adrift"} THEN 0 ELSE HttpsHolds) <= sent

\* Only a signal tells a server to stop, only a second one forces it, and one that stops was
\* told.
Told ==
    /\ http.should_exit => HttpHolds > 0
    /\ https.should_exit => HttpsHolds + HttpHolds > 0
    /\ http.force_exit \/ https.force_exit => sent >= 2
    /\ http.phase = "draining" => http.should_exit
    /\ https.phase = "draining" => https.should_exit

\* As long as no signal came too early.
InTime ==
    Running /\ ~early =>
        /\ sent > 0 => \A s \in Started : server[s].phase \notin {"off", "starting"}
        /\ \A s \in Names : server[s].phase # "adrift"
        /\ http.should_exit => https.phase = "stopped" \/ "https" \notin Started
        /\ sent < 2 => \A s \in Names :
              server[s].busy > 0 => server[s].phase \in {"listening", "draining"}

\* https is only started if there is a certificate.
OnlyStarted == Running => \A s \in Names \ Started : server[s].phase = "off"

Sound == /\ Types /\ Untouched /\ Ladder /\ Kept /\ Told /\ InTime /\ OnlyStarted
         /\ OneSignalCutsNothing
-----------------------------------------------------------------------------
(* The servers and the signals they hold. *)

Server == [phase : Phases, should_exit : BOOLEAN, force_exit : BOOLEAN,
           captured : Seq(Signals), original : Names \cup {"default"}, busy : 0 .. MaxBusy]

\* Reverse keeps the signals and how many there are.
LEMMA ReverseKeeps ==
    ASSUME NEW c \in Seq(Signals)
    PROVE  Reverse(c) \in Seq(Signals) /\ Len(Reverse(c)) = Len(c)
BY DEF Reverse

\* What a server that is sent signals holds, and when they force it to stop.
LEMMA Heard ==
    ASSUME NEW srv \in Server, NEW signals \in Seq(Signals)
    PROVE  LET told == HandleExits(srv, signals)
           IN  /\ told \in Server
               /\ told.phase = srv.phase /\ told.original = srv.original /\ told.busy = srv.busy
               /\ Len(told.captured) = Len(srv.captured) + Len(signals)
               /\ told.should_exit => srv.should_exit \/ Len(signals) > 0
               /\ told.force_exit => \/ srv.force_exit
                                     \/ Len(signals) > 1
                                     \/ srv.should_exit /\ Len(signals) > 0
<1> DEFINE told == HandleExits(srv, signals)
<1>1. srv.captured \o signals \in Seq(Signals)
      /\ Len(srv.captured \o signals) = Len(srv.captured) + Len(signals)
  BY DEF Server
<1>2. /\ told.captured = srv.captured \o signals
      /\ told.phase = srv.phase /\ told.original = srv.original /\ told.busy = srv.busy
      /\ told.should_exit = (srv.should_exit \/ signals # <<>>)
      /\ told.force_exit = (srv.force_exit \/ \E i \in DOMAIN signals :
                               signals[i] = "SIGINT" /\ (srv.should_exit \/ i > 1))
  BY DEF HandleExits, Server
<1>3. told \in Server
  BY <1>1 DEF HandleExits, Server
<1>4. signals # <<>> => Len(signals) > 0
  OBVIOUS
<1>5. (\E i \in DOMAIN signals : signals[i] = "SIGINT" /\ (srv.should_exit \/ i > 1))
        => Len(signals) > 1 \/ (srv.should_exit /\ Len(signals) > 0)
  OBVIOUS
<1> QED
  BY <1>1, <1>2, <1>3, <1>4, <1>5

\* A change of one server leaves the other as it is.
LEMMA OneServer ==
    ASSUME Types, NEW s \in Names, NEW to \in Server, server' = [server EXCEPT ![s] = to]
    PROVE  /\ server' \in [Names -> Server]
           /\ server'[s] = to
           /\ \A o \in Names \ {s} : server'[o] = server[o]
BY DEF Types, Server

\* HTTP returns for the last time; HTTPS hands its signals to HTTP.
LEMMA Returns ==
    ASSUME Types, Ladder, NEW s \in Names, NEW phase \in Phases, server[s].phase # "off",
           Return(s, phase)
    PROVE  /\ s = "http" => /\ process' = "ended" /\ handler' = "default" /\ https' = https
                            /\ http' = [http EXCEPT !.phase = phase]
           /\ s = "https" => /\ process' = process /\ handler' = "http"
                             /\ https' = [https EXCEPT !.phase = phase]
                             /\ http' = HandleExits(http, Reverse(https.captured))
           /\ server' \in [Names -> Server]
<1>1. server \in [Names -> Server]
  BY DEF Types, Server
<1>2. CASE s = "http"
  <2>1. /\ process' = "ended" /\ handler' = "default"
        /\ server' = [server EXCEPT !["http"].phase = phase]
    BY <1>2 DEF Return, Ladder, http
  <2> QED
    BY <1>1, <1>2, <2>1 DEF http, https, Names, Server
<1>3. CASE s = "https"
  <2> DEFINE caught == Reverse(https.captured)
             told == HandleExits(http, caught)
  <2>1. caught \in Seq(Signals) /\ http \in Server /\ https \in Server
    BY <1>1, ReverseKeeps DEF http, https, Names, Server
  <2>2. told \in Server
    BY <2>1, Heard
  <2>3. /\ handler' = "http" /\ UNCHANGED process
        /\ server' = [server EXCEPT !["https"].phase = phase, !["http"] = HandleExits(@, caught)]
    BY <1>3 DEF Return, Ladder, https, Names
  <2> HIDE DEF caught
  <2>4. /\ server' = [server EXCEPT !["https"] = [https EXCEPT !.phase = phase], !["http"] = told]
    BY <1>1, <2>3 DEF Names, http, https
  <2>5. [https EXCEPT !.phase = phase] \in Server
    BY <2>1 DEF Server
  <2> QED
    BY <1>1, <1>3, <2>2, <2>3, <2>4, <2>5 DEF http, https, Names, caught
<1> QED
  BY <1>2, <1>3 DEF Names

\* Before anything runs.
LEMMA SoundAtFirst == Init => Sound
<1> SUFFICES ASSUME Init PROVE Sound
  OBVIOUS
<1>1. /\ NewServer \in Server /\ sent = 0 /\ 0 \in 0 .. MaxSignals
      /\ server["http"] = NewServer /\ server["https"] = NewServer
  BY ServeAssumption DEF Init, NewServer, Server, Phases, Names
<1>2. Types
  BY <1>1 DEF Init, Types, Server, Names
<1>3. /\ http.phase = "off" /\ http.original = "default" /\ http.captured = <<>>
      /\ ~http.should_exit /\ ~http.force_exit
      /\ https.phase = "off" /\ https.captured = <<>> /\ ~https.should_exit /\ ~https.force_exit
      /\ process = "configuring"
  BY <1>1 DEF NewServer, http, https, Init
<1>4. Untouched /\ Ladder /\ InTime /\ OnlyStarted /\ OneSignalCutsNothing
  BY <1>1, <1>3 DEF Init, Untouched, Ladder, InTime, OnlyStarted, OneSignalCutsNothing, Running
<1>5. Kept /\ Told
  BY <1>1, <1>3 DEF Kept, Told, HttpHolds, HttpsHolds
<1> QED
  BY <1>2, <1>4, <1>5 DEF Sound

\* The process reads its environment.
LEMMA ConfigureKeeps == Sound /\ Configure => Sound'
<1> SUFFICES ASSUME Sound, Configure PROVE Sound'
  OBVIOUS
<1>1. /\ server = [s \in Names |-> NewServer] /\ handler = "default" /\ sent = 0 /\ ~early
      /\ UNCHANGED <<server, handler, sent, early, watching>>
      /\ process' \in {"serving", "ended"}
  BY DEF Sound, Untouched, Configure
<1>2. http = NewServer /\ https = NewServer /\ \A s \in Names : server[s] = NewServer
  BY <1>1 DEF http, https, Names
<1>3. Types'
  BY <1>1 DEF Sound, Types
<1>4. Untouched' /\ Ladder' /\ OneSignalCutsNothing'
  BY <1>1, <1>2 DEF Untouched, Ladder, OneSignalCutsNothing, Running, NewServer, Active,
     http, https
<1>6. Kept' /\ Told'
  <2>1. Kept /\ Told /\ http' = http /\ https' = https /\ sent' = sent
        /\ HttpHolds' = HttpHolds /\ HttpsHolds' = HttpsHolds
    BY <1>1 DEF Sound, http, https, HttpHolds, HttpsHolds
  <2> QED
    BY <2>1 DEF Kept, Told
<1>5. InTime' /\ OnlyStarted'
  BY <1>1, <1>2 DEF InTime, OnlyStarted, NewServer, http, https, Started, Names
<1> QED
  BY <1>3, <1>4, <1>5, <1>6 DEF Sound

\* A server is started; one whose certificate is refused ends the process.
LEMMA EnterKeeps == ASSUME Sound, NEW s \in Names, Enter(s) PROVE Sound'
<1> USE DEF Sound
<1> DEFINE to == [server[s] EXCEPT !.phase = "starting", !.original = handler]
<1>1. /\ Running /\ server[s].phase = "off" /\ s \in Started /\ handler' = s
      /\ s = "https" => http.phase # "off"
      /\ UNCHANGED <<tls, watching, sent, early>>
      /\ process' \in {"serving", "ended"}
  BY DEF Enter, Running, http
<1>2. /\ to \in Server /\ to.phase = "starting" /\ to.original = handler
      /\ to.should_exit = server[s].should_exit /\ to.force_exit = server[s].force_exit
      /\ to.captured = server[s].captured /\ to.busy = server[s].busy
      /\ server' = [server EXCEPT ![s] = to]
  BY DEF Types, Server, Enter, Phases
<1> HIDE DEF to
<1>3. /\ server' \in [Names -> Server] /\ server'[s] = to
      /\ \A o \in Names \ {s} : server'[o] = server[o]
  BY <1>2, OneServer
<1>4. Types'
  BY <1>1, <1>3 DEF Types, Server
<1>5. early \/ sent = 0
  BY <1>1, ServeAssumption DEF InTime, Types
<1>6. Untouched' /\ OneSignalCutsNothing'
  BY <1>1, <1>5 DEF Untouched, OneSignalCutsNothing, Running, Types
<1>7. CASE s = "http"
  <2>1. http' = to /\ https' = https /\ https.phase = "off" /\ handler = "default"
    BY <1>1, <1>3, <1>7 DEF http, https, Names, Ladder, Active
  <2>2. Ladder'
    BY <1>1, <1>2, <1>7, <2>1 DEF Ladder, Running, Active, http, https
  <2>4. HttpHolds' = HttpHolds /\ HttpsHolds' = HttpsHolds
    BY <1>2, <1>7, <2>1 DEF HttpHolds, HttpsHolds, http
  <2>5. Kept' /\ Told'
    BY <1>1, <1>2, <1>7, <2>1, <2>4 DEF Kept, Told, http
  <2>3. InTime' /\ OnlyStarted'
    BY <1>1, <1>2, <1>3, <1>5, <1>7, <2>1
       DEF InTime, OnlyStarted, Started, Running, Names, http, https, Types, Told, Kept
  <2> QED
    BY <1>4, <1>6, <2>2, <2>3, <2>5
<1>8. CASE s = "https"
  <2>1. http' = http /\ https' = to /\ https.phase = "off" /\ handler = "http"
    BY <1>1, <1>3, <1>8 DEF http, https, Names, Ladder, Active
  <2>2. Ladder'
    BY <1>1, <1>2, <1>8, <2>1 DEF Ladder, Running, Active, http, https
  <2>4. HttpHolds' = HttpHolds /\ HttpsHolds' = HttpsHolds
    BY <1>2, <1>8, <2>1 DEF HttpHolds, HttpsHolds, https
  <2>5. Kept' /\ Told'
    BY <1>1, <1>2, <1>8, <2>1, <2>4 DEF Kept, Told, https
  <2>3. InTime' /\ OnlyStarted'
    BY <1>1, <1>2, <1>3, <1>5, <1>8, <2>1
       DEF InTime, OnlyStarted, Started, Running, Names, http, https, Types
  <2> QED
    BY <1>4, <1>6, <2>2, <2>3, <2>5
<1> QED
  BY <1>7, <1>8 DEF Names

\* serve returns: HTTPS hands its signals to HTTP, and HTTP ends the process.  A server that
\* was told to stop before it listened is the only one to return without closing.
LEMMA ReturnKeeps ==
    ASSUME Sound, Running, NEW s \in Names, NEW phase \in {"adrift", "stopped"}, Return(s, phase),
           server[s].phase \in Active, server[s].should_exit,
           UNCHANGED <<tls, watching, sent, early>>,
           phase = "adrift" => early,
           phase = "stopped" => server[s].busy = 0 \/ server[s].force_exit
    PROVE  Sound'
<1> USE DEF Sound
<1>0. /\ server[s].phase # "off" /\ phase \in Phases /\ http \in Server /\ https \in Server
      /\ server \in [Names -> Server] /\ sent \in Nat
  BY ServeAssumption DEF Active, Phases, Types, Server, http, https, Names
<1>1. CASE s = "http"
  <2>1. /\ process' = "ended" /\ handler' = "default" /\ https' = https
        /\ http' = [http EXCEPT !.phase = phase] /\ server' \in [Names -> Server]
    BY <1>0, <1>1, Returns
  <2>2. /\ http'.phase = phase /\ http'.original = http.original
        /\ http'.captured = http.captured /\ http'.busy = http.busy
        /\ http'.should_exit = http.should_exit /\ http'.force_exit = http.force_exit
    BY <1>0, <2>1 DEF Server
  <2>3. Types'
    BY <2>1 DEF Types, Server
  <2>4. Untouched' /\ Ladder' /\ InTime' /\ OnlyStarted'
    BY <1>0, <1>1, <2>1, <2>2
       DEF Untouched, Ladder, InTime, OnlyStarted, Running, http
  <2>5. Kept' /\ Told'
    <3>1. HttpHolds' = HttpHolds /\ HttpsHolds' = HttpsHolds
      BY <2>1, <2>2 DEF HttpHolds, HttpsHolds
    <3>2. http.should_exit
      BY <1>1 DEF http
    <3> QED
      BY <2>1, <2>2, <3>1, <3>2 DEF Kept, Told
  <2>6. OneSignalCutsNothing'
    <3> SUFFICES ASSUME sent = 1, ~early PROVE http'.busy = 0 /\ https'.busy = 0
      BY DEF OneSignalCutsNothing, Names, http, https
    <3>0. http.should_exit
      BY <1>1 DEF http
    <3>1. phase = "stopped" /\ ~http.force_exit
      BY DEF Told
    <3>2. http.busy = 0
      BY <1>1, <3>1 DEF http
    <3>3. https.phase \notin {"listening", "draining"}
      BY <1>1, <3>0 DEF InTime, OnlyStarted, Names, http, https
    <3>4. ~(https.busy > 0)
      BY <3>3 DEF InTime, Names, https
    <3> QED
      BY <1>0, <2>1, <2>2, <3>2, <3>4, ServeAssumption DEF Server
  <2> QED
    BY <2>3, <2>4, <2>5, <2>6
<1>2. CASE s = "https"
  <2> DEFINE caught == Reverse(https.captured)
  <2>1. /\ process' = process /\ handler' = "http" /\ https' = [https EXCEPT !.phase = phase]
        /\ http' = HandleExits(http, caught) /\ server' \in [Names -> Server]
    BY <1>0, <1>2, Returns
  <2>2. caught \in Seq(Signals) /\ Len(caught) = HttpsHolds
    BY <1>0, ReverseKeeps DEF Server, HttpsHolds
  <2> HIDE DEF caught
  <2>3. /\ https'.phase = phase /\ https'.original = https.original
        /\ HttpsHolds' = HttpsHolds /\ https'.busy = https.busy
        /\ https'.should_exit = https.should_exit /\ https'.force_exit = https.force_exit
    BY <1>0, <2>1 DEF Server, HttpsHolds
  <2>4. /\ http'.phase = http.phase /\ http'.original = http.original /\ http'.busy = http.busy
        /\ HttpHolds' = HttpHolds + HttpsHolds
        /\ http'.should_exit => http.should_exit \/ HttpsHolds > 0
        /\ http'.force_exit => \/ http.force_exit
                               \/ HttpsHolds > 1
                               \/ http.should_exit /\ HttpsHolds > 0
    BY <1>0, <2>1, <2>2, Heard DEF HttpHolds
  <2>5. Types'
    BY <2>1 DEF Types, Server, Names
  <2>6. Untouched' /\ Ladder' /\ OnlyStarted' /\ OneSignalCutsNothing'
    BY <1>0, <1>2, <2>1, <2>3, <2>4
       DEF Untouched, Ladder, OnlyStarted, OneSignalCutsNothing, Running, Started, Active,
           Names, http, https
  <2>7. HttpHolds + HttpsHolds <= sent
    BY <1>2 DEF Kept, Active, https
  <2>8. Kept' /\ Told'
    <3>1. http.phase = "draining" => http'.should_exit
      BY <1>0, <2>1 DEF Told, http, HandleExits, Server
    <3>2. Kept'
      BY <2>3, <2>4, <2>7, <1>0 DEF Kept
    <3>3. Told'
      BY <1>0, <2>3, <2>4, <2>7, <3>1 DEF Told, Kept
    <3> QED
      BY <3>2, <3>3
  <2>9. InTime'
    <3> SUFFICES ASSUME ~early
                 PROVE  /\ sent > 0 => \A o \in Started : server'[o].phase \notin {"off", "starting"}
                        /\ \A o \in Names : server'[o].phase # "adrift"
                        /\ https'.phase = "stopped"
                        /\ sent < 2 => \A o \in Names :
                              server'[o].busy > 0 => server'[o].phase \in {"listening", "draining"}
      BY DEF InTime, Started
    <3>1. phase = "stopped"
      OBVIOUS
    <3>2. sent < 2 => https.busy = 0
      BY <1>0, <1>2, <3>1 DEF Told, https
    <3> QED
      BY <1>0, <2>3, <2>4, <3>1, <3>2 DEF InTime, Started, Names, http, https
  <2> QED
    BY <2>5, <2>6, <2>7, <2>8, <2>9
<1> QED
  BY <1>1, <1>2 DEF Names

\* A server goes on, or its clients do.
LEMMA MovesKeep ==
    ASSUME Sound, Running, NEW s \in Names, NEW to \in Server, server' = [server EXCEPT ![s] = to],
           UNCHANGED <<process, handler, tls, watching, sent, early>>,
           to.original = server[s].original, to.captured = server[s].captured,
           to.should_exit = server[s].should_exit, to.force_exit = server[s].force_exit,
           \/ to.phase = server[s].phase
           \/ server[s].phase \in Active /\ to.phase \in {"listening", "draining"},
           to.phase = "draining" => to.should_exit,
           ~early /\ sent < 2 /\ to.busy > 0 => to.phase \in {"listening", "draining"}
    PROVE  Sound'
<1> USE DEF Sound
<1>1. /\ server' \in [Names -> Server] /\ server'[s] = to
      /\ \A o \in Names \ {s} : server'[o] = server[o]
  BY OneServer
<1>2. Types'
  BY <1>1 DEF Types, Server, Names
<1>3. \A o \in Names : /\ server'[o].original = server[o].original
                       /\ server'[o].captured = server[o].captured
                       /\ server'[o].should_exit = server[o].should_exit
                       /\ server'[o].force_exit = server[o].force_exit
                       /\ \/ server'[o].phase = server[o].phase
                          \/ /\ server[o].phase \in Active
                             /\ server'[o].phase \in {"listening", "draining"}
                       /\ o # s => server'[o] = server[o]
  BY <1>1
<1>4. HttpHolds' = HttpHolds /\ HttpsHolds' = HttpsHolds
  BY <1>3 DEF HttpHolds, HttpsHolds, http, https, Names
<1>5. Untouched' /\ OneSignalCutsNothing'
  BY DEF Untouched, OneSignalCutsNothing, Running
<1>6. Ladder' /\ OnlyStarted'
  BY <1>3 DEF Ladder, OnlyStarted, Running, Started, Active, http, https, Names
<1>7. Kept'
  BY <1>3, <1>4 DEF Kept, Active, https, Names
<1>8. Told'
  BY <1>1, <1>3, <1>4 DEF Told, http, https, Names
<1>9. InTime'
  <2> SUFFICES ASSUME ~early
               PROVE  /\ sent > 0 => \A o \in Started : server'[o].phase \notin {"off", "starting"}
                      /\ \A o \in Names : server'[o].phase # "adrift"
                      /\ http'.should_exit => https'.phase = "stopped" \/ "https" \notin Started
                      /\ sent < 2 => \A o \in Names :
                            server'[o].busy > 0 => server'[o].phase \in {"listening", "draining"}
    BY DEF InTime, Started
  <2>1. sent > 0 => \A o \in Started : server'[o].phase \notin {"off", "starting"}
    BY <1>3 DEF InTime, Started, Names
  <2>2. \A o \in Names : server'[o].phase # "adrift"
    BY <1>3 DEF InTime, Active
  <2>3. http'.should_exit => https'.phase = "stopped" \/ "https" \notin Started
    BY <1>3 DEF InTime, Active, http, https, Names
  <2>4. sent < 2 => \A o \in Names :
           server'[o].busy > 0 => server'[o].phase \in {"listening", "draining"}
    BY <1>1 DEF InTime
  <2> QED
    BY <2>1, <2>2, <2>3, <2>4
<1> QED
  BY <1>2, <1>5, <1>6, <1>7, <1>8, <1>9

\* Binding the port, the main loop, and the requests.
LEMMA LoopKeeps ==
    ASSUME Sound, NEW s \in Names,
           Bind(s) \/ BindFails(s) \/ Tick(s) \/ Drained(s) \/ Accept(s) \/ Answer(s)
    PROVE  Sound'
<1> USE DEF Sound
<1>0. /\ server[s] \in Server /\ sent \in Nat /\ early \in BOOLEAN
      /\ server[s].phase = "draining" => server[s].should_exit
  BY ServeAssumption DEF Types, Server, Told, Names, http, https
<1>1. CASE Bind(s)
  <2>1. CASE server[s].should_exit
    <3>1. early
      <4> SUFFICES ASSUME ~early PROVE FALSE
        BY <1>0
      <4>1. sent > 0
        BY <1>0, <2>1 DEF Told, Kept, Names, http, https
      <4>2. s \in Started
        BY <1>1 DEF Bind, OnlyStarted
      <4> QED
        BY <1>1, <4>1, <4>2 DEF Bind, InTime
    <3> QED
      BY <1>1, <2>1, <3>1, ReturnKeeps DEF Bind, Active
  <2>2. CASE ~server[s].should_exit
    <3> DEFINE to == [server[s] EXCEPT !.phase = "listening"]
    <3>1. /\ to \in Server /\ to.phase = "listening" /\ to.original = server[s].original
          /\ to.captured = server[s].captured /\ to.should_exit = server[s].should_exit
          /\ to.force_exit = server[s].force_exit
      BY <1>0 DEF Server, Phases
    <3>2. /\ server' = [server EXCEPT ![s] = to] /\ Running /\ server[s].phase \in Active
          /\ UNCHANGED <<process, handler, tls, watching, sent, early>>
      BY <1>1, <2>2 DEF Bind, Active
    <3> HIDE DEF to
    <3> QED
      BY <3>1, <3>2, MovesKeep
  <2> QED
    BY <2>1, <2>2
<1>2. CASE BindFails(s)
  <2>1. /\ process' = "ended" /\ Running /\ server[s].phase = "starting"
        /\ UNCHANGED <<server, handler, tls, watching, sent, early>>
        /\ http' = http /\ https' = https /\ HttpHolds' = HttpHolds /\ HttpsHolds' = HttpsHolds
    BY <1>2 DEF BindFails, http, https, HttpHolds, HttpsHolds
  <2>2. early \/ sent = 0
    BY <1>0, <2>1 DEF InTime, OnlyStarted
  <2>3. Types' /\ Untouched' /\ Ladder' /\ OnlyStarted' /\ OneSignalCutsNothing'
    BY <2>1, <2>2 DEF Types, Untouched, Ladder, OnlyStarted, OneSignalCutsNothing, Running
  <2>4. Kept' /\ Told' /\ InTime'
    BY <2>1 DEF Kept, Told, InTime, Running
  <2> QED
    BY <2>3, <2>4
<1>3. CASE Tick(s)
  <2> DEFINE to == [server[s] EXCEPT !.phase = "draining"]
  <2>1. /\ to \in Server /\ to.phase = "draining" /\ to.original = server[s].original
        /\ to.captured = server[s].captured /\ to.should_exit = server[s].should_exit
        /\ to.force_exit = server[s].force_exit
    BY <1>0 DEF Server, Phases
  <2>2. /\ server' = [server EXCEPT ![s] = to] /\ Running /\ server[s].phase \in Active
        /\ server[s].should_exit
        /\ UNCHANGED <<process, handler, tls, watching, sent, early>>
    BY <1>3 DEF Tick, Active
  <2> HIDE DEF to
  <2> QED
    BY <2>1, <2>2, MovesKeep
<1>4. CASE Drained(s)
  BY <1>0, <1>4, ReturnKeeps DEF Drained, Active
<1>5. CASE Accept(s)
  <2> DEFINE to == [server[s] EXCEPT !.busy = @ + 1]
  <2>1. /\ to \in Server /\ to.phase = server[s].phase /\ to.original = server[s].original
        /\ to.captured = server[s].captured /\ to.should_exit = server[s].should_exit
        /\ to.force_exit = server[s].force_exit
    BY <1>0, <1>5, ServeAssumption DEF Server, Accept
  <2>2. /\ server' = [server EXCEPT ![s] = to] /\ Running
        /\ server[s].phase \in {"listening", "adrift"}
        /\ UNCHANGED <<process, handler, tls, watching, sent, early>>
    BY <1>0, <1>5 DEF Accept, Listens, Types, Server
  <2>3. ~early => server[s].phase = "listening"
    BY <2>2 DEF InTime
  <2> HIDE DEF to
  <2> QED
    BY <1>0, <2>1, <2>2, <2>3, MovesKeep
<1>6. CASE Answer(s)
  <2> DEFINE to == [server[s] EXCEPT !.busy = @ - 1]
  <2>1. /\ to \in Server /\ to.phase = server[s].phase /\ to.original = server[s].original
        /\ to.captured = server[s].captured /\ to.should_exit = server[s].should_exit
        /\ to.force_exit = server[s].force_exit
    BY <1>0, <1>6, ServeAssumption DEF Server, Answer
  <2>2. /\ server' = [server EXCEPT ![s] = to] /\ Running /\ server[s].busy > 0
        /\ UNCHANGED <<process, handler, tls, watching, sent, early>>
    BY <1>6 DEF Answer, Types, Server
  <2>3. ~early /\ sent < 2 => server[s].phase \in {"listening", "draining"}
    BY <2>2 DEF InTime
  <2> HIDE DEF to
  <2> QED
    BY <1>0, <2>1, <2>2, <2>3, MovesKeep
<1> QED
  BY <1>1, <1>2, <1>3, <1>4, <1>5, <1>6

\* HTTPS is told to stop when HTTP was.
LEMMA WatchKeeps == Sound /\ Watch => Sound'
<1> SUFFICES ASSUME Sound, Watch PROVE Sound'
  OBVIOUS
<1> USE DEF Sound
<1> DEFINE to == [https EXCEPT !.should_exit = TRUE]
<1>0. /\ Running /\ http.should_exit /\ UNCHANGED <<process, handler, tls, sent, early>>
      /\ watching' = FALSE /\ https \in Server /\ server \in [Names -> Server]
  BY DEF Watch, http, https, Types, Server, Names
<1>1. server' \in {server, [server EXCEPT !["https"] = to]}
  BY <1>0 DEF Watch, https
<1>2. /\ to \in Server /\ to.phase = https.phase /\ to.original = https.original
      /\ to.captured = https.captured /\ to.busy = https.busy
      /\ to.force_exit = https.force_exit /\ to.should_exit
  BY <1>0 DEF Server
<1> HIDE DEF to
<1>3. /\ server' \in [Names -> Server] /\ http' = http /\ https' \in {https, to}
  BY <1>0, <1>1, <1>2 DEF http, https, Names
<1>4. \A o \in Names : /\ server'[o].phase = server[o].phase /\ server'[o].busy = server[o].busy
                       /\ server'[o].original = server[o].original
  BY <1>2, <1>3 DEF http, https, Names
<1>5. HttpHolds' = HttpHolds /\ HttpsHolds' = HttpsHolds
  BY <1>2, <1>3 DEF HttpHolds, HttpsHolds
<1>6. Types' /\ Untouched' /\ OneSignalCutsNothing'
  BY <1>0, <1>3 DEF Types, Server, Untouched, OneSignalCutsNothing, Running
<1>7. Ladder' /\ OnlyStarted' /\ InTime'
  BY <1>0, <1>3, <1>4 DEF Ladder, OnlyStarted, InTime, Running, Started, http, https, Names
<1>8. Kept' /\ Told'
  BY <1>0, <1>2, <1>3, <1>5 DEF Kept, Told
<1> QED
  BY <1>6, <1>7, <1>8

\* A signal reaches the server that has the handlers, or ends the process.
LEMMA SignalKeeps == ASSUME Sound, NEW signal \in Signals, Signal(signal) PROVE Sound'
<1> USE DEF Sound
<1>0. /\ process # "ended" /\ sent' = sent + 1 /\ sent \in Nat /\ sent < MaxSignals
      /\ UNCHANGED <<tls, handler, watching>> /\ early' \in BOOLEAN /\ early \in BOOLEAN
      /\ server \in [Names -> Server]
      /\ early => early'
  BY ServeAssumption DEF Signal, Types, Server
<1>1. ~early' => /\ ~early /\ Running
                 /\ \A s \in Started : server[s].phase \notin {"off", "starting"}
  BY <1>0 DEF Signal, Running, Types
<1>2. CASE handler = "default"
  <2>1. process' = "ended" /\ server' = server
    BY <1>2 DEF Signal
  <2>2. early'
    <3>1. SUFFICES ASSUME ~early' PROVE FALSE
      BY <1>0
    <3>2. http.phase = "off"
      BY <1>1, <1>2, <3>1 DEF Ladder
    <3>4. "http" \in Started
      BY DEF Started, Names
    <3> QED
      BY <1>1, <3>1, <3>2, <3>4 DEF http
  <2>3. /\ http' = http /\ https' = https /\ HttpHolds' = HttpHolds /\ HttpsHolds' = HttpsHolds
    BY <2>1 DEF http, https, HttpHolds, HttpsHolds
  <2>4. Types'
    BY <1>0, <2>1, ServeAssumption DEF Types
  <2>5. Untouched' /\ Ladder' /\ OnlyStarted' /\ OneSignalCutsNothing' /\ InTime'
    BY <2>1, <2>2, <2>3 DEF Untouched, Ladder, OnlyStarted, OneSignalCutsNothing, InTime, Running
  <2>6. Kept' /\ Told'
    BY <1>0, <2>3 DEF Kept, Told
  <2> QED
    BY <2>4, <2>5, <2>6
<1>3. CASE handler # "default"
  <2> DEFINE one == <<signal>>
             to == HandleExits(server[handler], one)
  <2>1. handler \in Names /\ Running /\ process' = process
    BY <1>0, <1>3 DEF Types, Untouched, Running, Signal
  <2>2. one \in Seq(Signals) /\ Len(one) = 1 /\ server[handler] \in Server
    <3>1. one \in Seq(Signals) /\ Len(one) = 1
      OBVIOUS
    <3>2. server[handler] \in Server
      BY <1>0, <2>1
    <3> QED
      BY <3>1, <3>2
  <2> HIDE DEF one
  <2>3. /\ to \in Server /\ to.phase = server[handler].phase
        /\ to.original = server[handler].original /\ to.busy = server[handler].busy
        /\ Len(to.captured) = Len(server[handler].captured) + 1
        /\ to.force_exit => server[handler].force_exit \/ server[handler].should_exit
    <3>1. /\ to \in Server /\ to.phase = server[handler].phase
          /\ to.original = server[handler].original /\ to.busy = server[handler].busy
          /\ Len(to.captured) = Len(server[handler].captured) + Len(one)
          /\ to.force_exit => \/ server[handler].force_exit
                              \/ Len(one) > 1
                              \/ server[handler].should_exit /\ Len(one) > 0
      BY <2>2, Heard
    <3> QED
      BY <2>2, <3>1
  <2>4. to.phase = "draining" => to.should_exit
    BY <2>1, <2>2 DEF Told, Names, http, https, HandleExits, Server
  <2>5. server' = [server EXCEPT ![handler] = to]
    BY <1>3 DEF Signal, one
  <2> HIDE DEF to
  <2>6. /\ server' \in [Names -> Server] /\ server'[handler] = to
        /\ \A o \in Names \ {handler} : server'[o] = server[o]
    BY <2>1, <2>3, <2>5, OneServer
  <2>7. \A o \in Names : /\ server'[o].phase = server[o].phase
                         /\ server'[o].busy = server[o].busy
                         /\ server'[o].original = server[o].original
    BY <2>3, <2>6
  <2>8. /\ handler = "http" => HttpHolds' = HttpHolds + 1 /\ HttpsHolds' = HttpsHolds
        /\ handler = "https" => HttpHolds' = HttpHolds /\ HttpsHolds' = HttpsHolds + 1
    BY <2>3, <2>6 DEF HttpHolds, HttpsHolds, http, https, Names
  <2>9. Types'
    BY <1>0, <2>1, <2>6, ServeAssumption DEF Types, Server
  <2>10. Untouched' /\ Ladder' /\ OnlyStarted' /\ OneSignalCutsNothing'
    BY <1>0, <2>1, <2>7
       DEF Untouched, Ladder, OnlyStarted, OneSignalCutsNothing, Running, Started, Names,
           http, https
  <2>11. Kept'
    BY <1>0, <2>1, <2>7, <2>8 DEF Kept, Ladder, Active, http, https, Names
  <2>12. Told'
    <3>1. CASE handler = "http"
      <4>1. http' = to /\ https' = https
        BY <2>6, <3>1 DEF http, https, Names
      <4> QED
        BY <1>0, <2>3, <2>4, <2>8, <3>1, <4>1 DEF Told, Kept, http
    <3>2. CASE handler = "https"
      <4>1. https' = to /\ http' = http /\ https.phase \in Active
        BY <2>1, <2>6, <3>2 DEF http, https, Names, Ladder
      <4>2. HttpHolds + HttpsHolds <= sent
        BY <4>1 DEF Kept, Active
      <4> QED
        BY <1>0, <2>3, <2>4, <2>8, <3>2, <4>1, <4>2 DEF Told, Kept, https
    <3> QED
      BY <2>1, <3>1, <3>2 DEF Names
  <2>13. InTime'
    <3> SUFFICES ASSUME ~early'
                 PROVE  /\ \A o \in Started : server'[o].phase \notin {"off", "starting"}
                        /\ \A o \in Names : server'[o].phase # "adrift"
                        /\ http'.should_exit => https'.phase = "stopped" \/ "https" \notin Started
                        /\ sent' < 2 => \A o \in Names :
                              server'[o].busy > 0 => server'[o].phase \in {"listening", "draining"}
      BY <1>0 DEF InTime, Started
    <3>1. /\ \A o \in Started : server'[o].phase \notin {"off", "starting"}
          /\ \A o \in Names : server'[o].phase # "adrift"
          /\ sent' < 2 => \A o \in Names :
                server'[o].busy > 0 => server'[o].phase \in {"listening", "draining"}
      BY <1>0, <1>1, <2>7 DEF InTime, Started, Names
    <3>2. CASE handler = "http"
      <4>1. https.phase \notin Active
        BY <2>1, <3>2 DEF Ladder
      <4>2. https.phase = "stopped" \/ "https" \notin Started
        BY <1>0, <1>1, <4>1 DEF InTime, Active, Types, Phases, https, Names
      <4> QED
        BY <2>7, <3>1, <4>2 DEF https, Names
    <3>3. CASE handler = "https"
      <4>1. http' = http /\ (http.should_exit => https.phase = "stopped" \/ "https" \notin Started)
        BY <1>1, <2>6, <3>3 DEF InTime, http, Names
      <4> QED
        BY <2>7, <3>1, <4>1 DEF https, Names
    <3> QED
      BY <2>1, <3>2, <3>3 DEF Names
  <2> QED
    BY <2>9, <2>10, <2>11, <2>12, <2>13
<1> QED
  BY <1>2, <1>3

\* Every step keeps the invariant.
LEMMA SoundStays == Sound /\ [Next]_vars => Sound'
<1> SUFFICES ASSUME Sound, [Next]_vars PROVE Sound'
  OBVIOUS
<1>1. CASE UNCHANGED vars
  <2>1. /\ http' = http /\ https' = https /\ HttpHolds' = HttpHolds /\ HttpsHolds' = HttpsHolds
        /\ UNCHANGED <<process, tls, server, handler, watching, sent, early>>
    BY <1>1 DEF vars, http, https, HttpHolds, HttpsHolds
  <2> QED
    BY <2>1 DEF Sound, Types, Untouched, Ladder, Kept, Told, InTime, OnlyStarted,
       OneSignalCutsNothing, Running, Started
<1>2. CASE Next
  BY <1>2, ConfigureKeeps, WatchKeeps, EnterKeeps, LoopKeeps, SignalKeeps DEF Next
<1> QED
  BY <1>1, <1>2

\* The invariant holds at every moment.
LEMMA AlwaysSound == Spec => []Sound
BY SoundAtFirst, SoundStays, PTL DEF Spec
-----------------------------------------------------------------------------
\* One signal to a process whose servers all listen cuts no request off: the signal goes
\* through the servers one after another, and each waits for its requests (_serve).
THEOREM NothingIsCutOff == Spec => []OneSignalCutsNothing
<1>1. Sound => OneSignalCutsNothing
  BY DEF Sound
<1> QED
  BY <1>1, AlwaysSound, PTL

\* The variables have their types, a server holds no more signals than were sent, and while a
\* server listens a signal reaches one that has not returned (_serve).
THEOREM SignalsAreAlwaysHeard == Spec => []SignalsAreHeard
<1>1. ASSUME Sound PROVE TypeOK
  <2>1. \A c \in Seq(Signals) : Len(c) <= MaxSignals => c \in SeqOf(Signals, MaxSignals)
    <3> SUFFICES ASSUME NEW c \in Seq(Signals), Len(c) <= MaxSignals
                 PROVE  c \in SeqOf(Signals, MaxSignals)
      OBVIOUS
    <3>1. c \in [1 .. Len(c) -> Signals] /\ Len(c) \in 0 .. MaxSignals
      BY ServeAssumption
    <3> QED
      BY <3>1 DEF SeqOf
  <2>2. \A s \in Names : Len(server[s].captured) <= MaxSignals
    <3>1. HttpHolds <= MaxSignals /\ HttpsHolds <= MaxSignals
      BY <1>1, ServeAssumption DEF Sound, Kept, Types
    <3> QED
      BY <3>1 DEF HttpHolds, HttpsHolds, http, https, Names
  <2> QED
    BY <1>1, <2>1, <2>2 DEF Sound, Types, TypeOK
<1>2. ASSUME Sound, Running, NEW s \in Names, server[s].phase = "listening"
      PROVE  /\ handler # "default"
             /\ server[handler].phase \in {"starting", "listening", "draining"}
  BY <1>2 DEF Sound, Ladder, Active, http, https, Names
<1>3. Sound => SignalsAreHeard
  BY <1>1, <1>2 DEF SignalsAreHeard
<1> QED
  BY <1>3, AlwaysSound, PTL
-----------------------------------------------------------------------------
\* What the configuration is made of while the process serves.
Configured == Running => config = AppConfig(LoadJwtSigning(env)) /\ LoadJwtSigning(env) # Invalid

\* An environment that names no half of a key pair for the tokens leaves the HMAC secret; one
\* that names a half is refused, or names an RSA key and the certificate of that key.
LEMMA SigningLoaded ==
    ASSUME NEW e, LoadJwtSigning(e) # Invalid
    PROVE  LET cert == EnvValue(e.jwt_cert)
               key == EnvValue(e.jwt_key)
               loaded == LoadJwtSigning(e)
           IN  \/ {cert, key} = {Unset} /\ loaded.kind = "hmac"
               \/ /\ {cert, key} # {Unset} /\ loaded.kind = "certificate"
                  /\ loaded.certificate = LoadCertificates(ReadMaterial(cert))[1]
                  /\ loaded.key = loaded.certificate /\ loaded.key \in RsaKeys
<1> DEFINE cert == EnvValue(e.jwt_cert)
           key == EnvValue(e.jwt_key)
           loaded == LoadJwtSigning(e)
           first == LoadCertificates(ReadMaterial(cert))[1]
           private == LoadPrivateKey(ReadMaterial(key), EnvValue(e.jwt_password))
<1>1. CASE cert = Unset /\ key = Unset
  <2>1. loaded = Hmac
    BY <1>1 DEF LoadJwtSigning
  <2> QED
    BY <1>1, <2>1 DEF Hmac
<1>2. CASE ~(cert = Unset /\ key = Unset)
  <2>1. /\ loaded = [kind |-> "certificate", certificate |-> first, key |-> private]
        /\ private \in RsaKeys /\ first = private
    BY <1>2 DEF LoadJwtSigning, PrivateKeyMatches
  <2> QED
    BY <1>2, <2>1
<1> QED
  BY <1>1, <1>2

\* While the process serves, it signs and verifies tokens with the RSA key that its environment
\* names, or with the HMAC secret if it names none (load_jwt_signing, AppConfig).
THEOREM TokensAreAsConfigured == Spec => []TokensAsConfigured
<1>1. Init => Configured
  BY DEF Init, Configured, Running
<1>2. Configured /\ [Next]_vars => Configured'
  <2> SUFFICES ASSUME Configured, [Next]_vars PROVE Configured'
    OBVIOUS
  <2>1. CASE Configure
    BY <2>1 DEF Configure, Configured, Running
  <2>2. CASE UNCHANGED vars
    BY <2>2 DEF vars, Configured, Running
  <2>3. ASSUME UNCHANGED <<env, config>>, process' = process \/ process' = "ended"
        PROVE  Configured'
    BY <2>3 DEF Configured, Running
  <2>4. ASSUME NEW s \in Names,
               Enter(s) \/ Bind(s) \/ BindFails(s) \/ Tick(s) \/ Drained(s) \/ Accept(s) \/ Answer(s)
        PROVE  UNCHANGED <<env, config>> /\ (process' = process \/ process' = "ended")
    BY <2>4 DEF Enter, Bind, BindFails, Tick, Drained, Accept, Answer, Return
  <2>5. ASSUME NEW signal \in Signals, Signal(signal)
        PROVE  UNCHANGED <<env, config>> /\ (process' = process \/ process' = "ended")
    BY <2>5 DEF Signal
  <2>6. Watch => UNCHANGED <<env, config, process>>
    BY DEF Watch
  <2> QED
    BY <2>1, <2>2, <2>3, <2>4, <2>5, <2>6 DEF Next
<1>3. Configured => TokensAsConfigured
  <2> SUFFICES ASSUME Configured, Running PROVE TokensAsConfigured
    BY DEF TokensAsConfigured
  <2> DEFINE loaded == LoadJwtSigning(env)
             named == {EnvValue(env.jwt_cert), EnvValue(env.jwt_key)} # {Unset}
             first == LoadCertificates(ReadMaterial(EnvValue(env.jwt_cert)))[1]
             signs == SigningKey(config)
             verifies == VerifyKey(config)
  <2>1. \/ ~named /\ loaded.kind = "hmac"
        \/ /\ named /\ loaded.kind = "certificate" /\ loaded.certificate = first
           /\ loaded.key = first /\ first \in RsaKeys
    BY SigningLoaded DEF Configured
  <2>2. config = AppConfig(loaded)
    BY DEF Configured
  <2> HIDE DEF loaded, named, first
  <2>3. CASE ~named /\ loaded.kind = "hmac"
    <3>1. signs = <<"HS256", Secret>>
      BY <2>2, <2>3 DEF AppConfig, Half, SigningKey
    <3>2. verifies = signs /\ signs[1] = "HS256"
      BY <3>1 DEF VerifyKey
    <3> QED
      BY <2>3, <3>2 DEF TokensAsConfigured, named
  <2>4. CASE /\ named /\ loaded.kind = "certificate" /\ loaded.certificate = first
             /\ loaded.key = first /\ first \in RsaKeys
    <3>1. config.jwt_certificate = first /\ config.jwt_private_key = first /\ first # None
      BY <2>2, <2>4, KeyMaterialAssumption DEF AppConfig, Half
    <3>2. signs = <<"RS256", first>>
      BY <2>4, <3>1 DEF SigningKey, IsRsaPair, PrivateKeyMatches
    <3>3. verifies = signs
      BY <3>1, <3>2 DEF VerifyKey
    <3> QED
      BY <2>4, <3>2, <3>3 DEF TokensAsConfigured, named, first
  <2> QED
    BY <2>1, <2>3, <2>4
<1> QED
  BY <1>1, <1>2, <1>3, PTL DEF Spec
-----------------------------------------------------------------------------
\* What the servers of a process that serves are made of: HTTPS starts with the certificate
\* and the key that the environment names, and does not survive a pair that does not fit.
CertificateChecked ==
    Running => /\ tls = LoadServerTls(env) /\ tls # Invalid
               /\ https.phase # "off" => PrivateKeyMatches(tls.certificates[1], tls.key)

\* While the process serves: an environment that names a certificate, a key or a keystore has
\* HTTPS started, and HTTPS only goes on with a certificate that fits its key.
NamedTlsIsStarted ==
    Running /\ NamesTls =>
        /\ Started = Names
        /\ Listens("https") => PrivateKeyMatches(tls.certificates[1], tls.key)

\* An environment that names one of the three is refused or has a certificate.
LEMMA TlsLoaded ==
    ASSUME NEW e, LoadServerTls(e) # Invalid,
           {EnvValue(e.tls_cert), EnvValue(e.tls_key), EnvValue(e.tls_keystore)} # {Unset}
    PROVE  LoadServerTls(e).kind = "ready"
<1>1. ASSUME NEW value, NEW port, LoadKeystoreTls(value, e, port) # Invalid
      PROVE  LoadKeystoreTls(value, e, port).kind = "ready"
  BY <1>1 DEF LoadKeystoreTls, ReadyTls
<1>2. ASSUME NEW cert, NEW key, NEW port, LoadPemTls(cert, key, e, port) # Invalid
      PROVE  LoadPemTls(cert, key, e, port).kind = "ready"
  BY <1>2 DEF LoadPemTls, ReadyTls
<1>3. \/ \E value, port : LoadServerTls(e) = LoadKeystoreTls(value, e, port)
      \/ \E cert, key, port : LoadServerTls(e) = LoadPemTls(cert, key, e, port)
  BY DEF LoadServerTls
<1> QED
  BY <1>1, <1>2, <1>3

\* HTTPS is off until it is entered.
LEMMA OffUntilEntered ==
    ASSUME Sound, Running, https.phase = "off", ~Enter("https"), [Next]_vars
    PROVE  https'.phase = "off"
<1>1. /\ Types /\ Ladder
      /\ server \in [Names -> Server] /\ https \in Server /\ handler \in Names \cup {"default"}
  BY DEF Sound, Types, Server, https, Names
<1>2. ASSUME NEW s \in Names, NEW phase \in Phases, server[s].phase # "off", Return(s, phase)
      PROVE  https'.phase = "off"
  <2>1. s = "http"
    BY <1>2 DEF https, Names
  <2> QED
    BY <1>1, <1>2, <2>1, Returns
<1>3. ASSUME NEW s \in Names,
             Enter(s) \/ Bind(s) \/ BindFails(s) \/ Tick(s) \/ Drained(s) \/ Accept(s) \/ Answer(s)
      PROVE  https'.phase = "off"
  <2>1. CASE Enter(s)
    <3>1. s = "http" /\ server' = [server EXCEPT !["http"] = server'["http"]]
      BY <1>1, <2>1 DEF Enter, Names
    <3> QED
      BY <1>1, <3>1 DEF https, Names
  <2>2. CASE Bind(s)
    <3>1. CASE server[s].should_exit
      BY <1>2, <2>2, <3>1 DEF Bind, Phases
    <3>2. CASE ~server[s].should_exit
      BY <1>1, <2>2, <3>2 DEF Bind, https, Names, Server
    <3> QED
      BY <3>1, <3>2
  <2>3. CASE BindFails(s)
    BY <2>3 DEF BindFails, https
  <2>4. CASE Tick(s)
    BY <1>1, <2>4 DEF Tick, https, Names, Server
  <2>5. CASE Drained(s)
    BY <1>2, <2>5 DEF Drained, Phases
  <2>6. CASE Accept(s) \/ Answer(s)
    BY <1>1, <2>6 DEF Accept, Answer, https, Names, Server
  <2> QED
    BY <1>3, <2>1, <2>2, <2>3, <2>4, <2>5, <2>6
<1>4. CASE Watch
  BY <1>1, <1>4 DEF Watch, https, Names, Server
<1>5. ASSUME NEW signal \in Signals, Signal(signal) PROVE https'.phase = "off"
  <2>1. CASE handler = "default"
    BY <1>5, <2>1 DEF Signal, https
  <2>2. CASE handler # "default"
    <3> DEFINE told == HandleExits(server[handler], <<signal>>)
    <3>1. handler \in Names /\ server[handler] \in Server /\ <<signal>> \in Seq(Signals)
      BY <1>1, <2>2
    <3>2. told.phase = server[handler].phase
      BY <3>1, Heard
    <3>3. server' = [server EXCEPT ![handler] = told]
      BY <1>5, <2>2 DEF Signal
    <3> HIDE DEF told
    <3> QED
      BY <1>1, <3>1, <3>2, <3>3 DEF https, Names
  <2> QED
    BY <2>1, <2>2
<1>6. CASE UNCHANGED vars
  BY <1>6 DEF vars, https
<1>7. CASE Configure
  BY <1>7 DEF Configure, Running
<1> QED
  BY <1>3, <1>4, <1>5, <1>6, <1>7 DEF Next

\* The safety part of NeverHttpOnly: a process that serves, and whose environment names a
\* certificate, a key or a keystore, has HTTPS among its servers, with a certificate that fits
\* its key once it listens; whatever else it is given ends it (main, load_server_tls, _serve).
THEOREM NamedTlsStarts == Spec => []NamedTlsIsStarted
<1>1. Init => CertificateChecked
  BY DEF Init, CertificateChecked, Running
<1>2. Sound /\ CertificateChecked /\ [Next]_vars => CertificateChecked'
  <2> SUFFICES ASSUME Sound, CertificateChecked, [Next]_vars, Running'
               PROVE  /\ tls' = LoadServerTls(env') /\ tls' # Invalid
                      /\ https'.phase # "off" => PrivateKeyMatches(tls'.certificates[1], tls'.key)
    BY DEF CertificateChecked
  <2>1. CASE Configure
    <3>1. https.phase = "off" /\ server' = server
      BY <2>1 DEF Configure, Sound, Untouched, NewServer, https, Names
    <3> QED
      BY <2>1, <3>1 DEF Configure, Running, https
  <2>2. ASSUME ~Configure PROVE Running /\ UNCHANGED <<env, tls>>
    <3>1. ASSUME NEW s \in Names,
                 \/ Enter(s) \/ Bind(s) \/ BindFails(s)
                 \/ Tick(s) \/ Drained(s) \/ Accept(s) \/ Answer(s)
          PROVE  Running /\ UNCHANGED <<env, tls>>
      BY <3>1 DEF Enter, Bind, BindFails, Tick, Drained, Accept, Answer
    <3>2. ASSUME NEW signal \in Signals, Signal(signal)
          PROVE  Running /\ UNCHANGED <<env, tls>>
      BY <3>2 DEF Signal, Running
    <3>3. Watch \/ UNCHANGED vars => Running /\ UNCHANGED <<env, tls>>
      BY DEF Watch, vars, Running
    <3> QED
      BY <2>2, <3>1, <3>2, <3>3 DEF Next
  <2>3. CASE Enter("https")
    BY <2>2, <2>3 DEF Enter, CertificateChecked, Configure, Running
  <2>4. CASE ~Configure /\ ~Enter("https")
    <3>1. https.phase = "off" => https'.phase = "off"
      BY <2>2, <2>4, OffUntilEntered
    <3> QED
      BY <2>2, <2>4, <3>1 DEF CertificateChecked
  <2> QED
    BY <2>1, <2>3, <2>4
<1>3. CertificateChecked => NamedTlsIsStarted
  <2> SUFFICES ASSUME CertificateChecked, Running, NamesTls
               PROVE  /\ Started = Names
                      /\ Listens("https") => PrivateKeyMatches(tls.certificates[1], tls.key)
    BY DEF NamedTlsIsStarted
  <2>1. tls.kind = "ready"
    BY TlsLoaded DEF CertificateChecked, NamesTls
  <2> QED
    BY <2>1 DEF Started, Listens, CertificateChecked, https
<1> QED
  BY <1>1, <1>2, <1>3, AlwaysSound, PTL DEF Spec
=============================================================================
