------------------------------- MODULE Serve -------------------------------
(***************************************************************************)
(* The server process (main.py): it reads its environment, then runs an    *)
(* HTTP server and, with a certificate, an HTTPS server in one event loop  *)
(* until a signal.  A uvicorn server takes the signal handlers over when   *)
(* it starts; when it returns it puts back the ones it found and raises    *)
(* the signals it caught again, so a signal goes through the servers from  *)
(* the last started to the first and then ends the process.                *)
(***************************************************************************)
EXTENDS TlsMaterial

CONSTANTS
    Environments,  \* the environments a process may be started in
    MaxSignals,    \* bound: signals that are sent to the process
    MaxBusy        \* bound: requests under way in one server

ASSUME ServeAssumption == MaxSignals \in Nat /\ MaxBusy \in Nat

VARIABLES
    env,
    process,   \* "configuring", "serving" or "ended"
    config,    \* the AppConfig
    tls,       \* the ServerTlsLoad
    server,    \* the uvicorn servers
    handler,   \* whose handle_exit a signal calls; "default" ends the process
    watching,  \* stop_https_when_http_stops has not ended
    sent,      \* number of signals so far
    early      \* one of them came before every server listened

vars == <<env, process, config, tls, server, handler, watching, sent, early>>

Signals == {"SIGINT", "SIGTERM"}
Names == {"http", "https"}
Phases == {"off", "starting", "listening", "draining", "stopped", "adrift"}

NewServer == [phase |-> "off", should_exit |-> FALSE, force_exit |-> FALSE,
              captured |-> <<>>, original |-> "default", busy |-> 0]

Init ==
    /\ env \in Environments
    /\ process = "configuring"
    /\ config = None
    /\ tls = None
    /\ server = [s \in Names |-> NewServer]
    /\ handler = "default"
    /\ watching = TRUE
    /\ sent = 0
    /\ early = FALSE

\* The servers of this process.
Running == process = "serving"
Started == IF tls.kind = "ready" THEN Names ELSE {"http"}
Listens(s) == server[s].phase \in {"listening", "adrift"}
-----------------------------------------------------------------------------
(* main, config_from_env *)
Configure ==
    LET signing == LoadJwtSigning(env)
        loaded == LoadServerTls(env)
    IN  /\ process = "configuring"
        /\ config' = AppConfig(signing)
        /\ tls' = loaded
        /\ process' = IF \/ Invalid \in {signing, loaded}
                         \/ SigningKey(AppConfig(signing)) = None
                      THEN "ended" ELSE "serving"
        /\ UNCHANGED <<env, server, handler, watching, sent, early>>
-----------------------------------------------------------------------------
(* Server.serve, twice in _serve. *)

\* A certificate that does not fit its key is refused here, and ends the process.
Enter(s) ==
    /\ Running
    /\ s \in Started /\ server[s].phase = "off"
    /\ s = "https" => server["http"].phase # "off"
    /\ handler' = s
    /\ server' = [server EXCEPT ![s].phase = "starting", ![s].original = handler]
    /\ process' = IF s = "https" /\ ~PrivateKeyMatches(tls.certificates[1], tls.key)
                  THEN "ended" ELSE process
    /\ UNCHANGED <<env, config, tls, watching, sent, early>>

\* handle_exit is called for one signal after another: a SIGINT to a server that was told
\* to stop before makes it stop at once.
HandleExits(srv, signals) ==
    [srv EXCEPT !.captured = @ \o signals,
                !.force_exit = @ \/ \E i \in DOMAIN signals :
                                      signals[i] = "SIGINT" /\ (srv.should_exit \/ i > 1),
                !.should_exit = @ \/ signals # <<>>]

\* Mutant: the signals are not raised again.
ReturnQuietly(s, phase) ==
    /\ handler' = server[s].original
    /\ server' = [server EXCEPT ![s].phase = phase]
    /\ UNCHANGED process

\* Mutant: the handlers that were found are not put back.
ReturnAsHandler(s, phase) ==
    LET first == server[s].original
        caught == Reverse(server[s].captured)
    IN  /\ UNCHANGED handler
        /\ IF first = "default"
           THEN server' = [server EXCEPT ![s].phase = phase] /\ process' = "ended"
           ELSE /\ server' = [server EXCEPT ![s].phase = phase,
                                            ![first] = HandleExits(@, caught)]
                /\ UNCHANGED process

\* serve returns.  The handlers are those of the server that started before, or the
\* default; the latter ends the process, for the first server only returns on a signal.
Return(s, phase) ==
    LET first == server[s].original
        caught == Reverse(server[s].captured)
    IN  /\ handler' = first
        /\ IF first = "default"
           THEN server' = [server EXCEPT ![s].phase = phase] /\ process' = "ended"
           ELSE /\ server' = [server EXCEPT ![s].phase = phase,
                                            ![first] = HandleExits(@, caught)]
                /\ UNCHANGED process

\* The port is bound.  A server that was told to stop before returns without closing it.
Bind(s) ==
    /\ Running
    /\ server[s].phase = "starting"
    /\ IF server[s].should_exit
       THEN Return(s, "adrift")
       ELSE /\ server' = [server EXCEPT ![s].phase = "listening"]
            /\ UNCHANGED <<process, handler>>
    /\ UNCHANGED <<env, config, tls, watching, sent, early>>

\* The port is taken: sys.exit.
BindFails(s) ==
    /\ Running
    /\ server[s].phase = "starting"
    /\ process' = "ended"
    /\ UNCHANGED <<env, config, tls, server, handler, watching, sent, early>>

\* The main loop sees that it has to stop: nothing is accepted any more.
Tick(s) ==
    /\ Running
    /\ server[s].phase = "listening" /\ server[s].should_exit
    /\ server' = [server EXCEPT ![s].phase = "draining"]
    /\ UNCHANGED <<env, process, config, tls, handler, watching, sent, early>>

\* Mutant: requests under way are not waited for.
DrainedAtOnce(s) ==
    /\ Running
    /\ server[s].phase = "draining"
    /\ Return(s, "stopped")
    /\ UNCHANGED <<env, config, tls, watching, sent, early>>

\* The requests under way are answered, however long that takes, or a second SIGINT came.
Drained(s) ==
    /\ Running
    /\ server[s].phase = "draining"
    /\ server[s].busy = 0 \/ server[s].force_exit
    /\ Return(s, "stopped")
    /\ UNCHANGED <<env, config, tls, watching, sent, early>>

Accept(s) ==
    /\ Running
    /\ Listens(s) /\ server[s].busy < MaxBusy
    /\ server' = [server EXCEPT ![s].busy = @ + 1]
    /\ UNCHANGED <<env, process, config, tls, handler, watching, sent, early>>

Answer(s) ==
    /\ Running
    /\ server[s].busy > 0
    /\ server' = [server EXCEPT ![s].busy = @ - 1]
    /\ UNCHANGED <<env, process, config, tls, handler, watching, sent, early>>
-----------------------------------------------------------------------------
(* stop_https_when_http_stops *)
Watch ==
    /\ Running
    /\ watching /\ server["http"].should_exit
    /\ watching' = FALSE
    /\ server' = IF "https" \in Started
                 THEN [server EXCEPT !["https"].should_exit = TRUE] ELSE server
    /\ UNCHANGED <<env, process, config, tls, handler, sent, early>>

\* The operating system.
Signal(signal) ==
    /\ process # "ended" /\ sent < MaxSignals
    /\ sent' = sent + 1
    /\ IF handler = "default"
       THEN process' = "ended" /\ UNCHANGED server
       ELSE /\ server' = [server EXCEPT ![handler] = HandleExits(@, <<signal>>)]
            /\ UNCHANGED process
    /\ early' = (early \/ process = "configuring" \/ \E s \in Started : server[s].phase = "off"
                                                        \/ server[s].phase = "starting")
    /\ UNCHANGED <<env, config, tls, handler, watching>>
-----------------------------------------------------------------------------
Next ==
    \/ Configure \/ Watch
    \/ \E s \in Names :
          Enter(s) \/ Bind(s) \/ BindFails(s) \/ Tick(s) \/ Drained(s) \/ Accept(s) \/ Answer(s)
    \/ \E signal \in Signals : Signal(signal)

\* The event loop comes back to every task of its own; the clients do as they please.
Fairness ==
    /\ WF_vars(Configure) /\ WF_vars(Watch)
    /\ \A s \in Names :
          /\ WF_vars(Enter(s)) /\ WF_vars(Bind(s) \/ BindFails(s))
          /\ WF_vars(Tick(s)) /\ WF_vars(Drained(s))

Spec == Init /\ [][Next]_vars /\ Fairness
-----------------------------------------------------------------------------
TypeOK ==
    /\ process \in {"configuring", "serving", "ended"}
    /\ server \in [Names ->
           [phase : Phases, should_exit : BOOLEAN, force_exit : BOOLEAN,
            captured : SeqOf(Signals, MaxSignals), original : Names \cup {"default"},
            busy : 0 .. MaxBusy]]
    /\ handler \in Names \cup {"default"}
    /\ watching \in BOOLEAN /\ early \in BOOLEAN
    /\ sent \in 0 .. MaxSignals

\* Whoever names a half of a key pair for the tokens gets RSA tokens that the named
\* certificate verifies, or no server: the HMAC secret, which has a well-known default, is
\* only used when neither is named (load_jwt_signing, AppConfig).
TokensAsConfigured ==
    Running =>
        LET named == {EnvValue(env.jwt_cert), EnvValue(env.jwt_key)} # {Unset}
            signs == SigningKey(config)
            verifies == VerifyKey(config)
        IN  /\ signs[1] = (IF named THEN "RS256" ELSE "HS256")
            /\ verifies[1] = signs[1] /\ verifies[2] = signs[2]
            /\ named => verifies[2] = LoadCertificates(ReadMaterial(EnvValue(env.jwt_cert)))[1]

NamesTls ==
    {EnvValue(env.tls_cert), EnvValue(env.tls_key), EnvValue(env.tls_keystore)} # {Unset}

\* A server whose environment names a certificate, a key or a keystore is not started on
\* plain HTTP alone: if it listens at all, HTTPS soon does, or the process ends (main,
\* load_server_tls, _serve).
NeverHttpOnly ==
    /\ NamesTls /\ Listens("http")
    /\ server["https"].phase \in {"off", "starting"}
    ~> Listens("https") \/ process = "ended"

\* One signal to a server that listens cuts no request off (_serve).
OneSignalCutsNothing ==
    process = "ended" /\ sent = 1 /\ ~early => \A s \in Names : server[s].busy = 0

\* The variables have their types, and as long as a server listens, a signal reaches one
\* that has not returned, so that none gets lost and none kills the process in the middle
\* (_serve).
SignalsAreHeard ==
    /\ TypeOK
    /\ Running /\ (\E s \in Names : server[s].phase = "listening") =>
           /\ handler # "default"
           /\ server[handler].phase \in {"starting", "listening", "draining"}

\* Once a signal was sent the process ends, if the clients let each server get idle; both
\* servers stop, although only one of them was told (_serve).
StopsWhenIdle ==
    (\A s \in Names : []<>(server[s].busy = 0)) => (sent > 0 ~> process = "ended")
=============================================================================
