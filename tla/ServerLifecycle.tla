---------------------------- MODULE ServerLifecycle ----------------------------
(***************************************************************************)
(* One installation of comms-server from its first start on: each process  *)
(* loads or generates the server's identity (internal/identity), opens the *)
(* database, starts the services in order, runs until a signal comes,      *)
(* stops them in reverse order and closes the database last                *)
(* (internal/server, cmd/server).  It may be killed between any two steps, *)
(* and what it has written to its key files stays behind.                  *)
(*                                                                         *)
(* A service is what its Start and Stop make of it: an HTTP server with    *)
(* requests at work, or the cleanup loop with its ticker.  A request of    *)
(* signaling may become a WebSocket session, which is no longer the        *)
(* server's; one that does not has no time limit.                          *)
(***************************************************************************)
EXTENDS Naturals, Sequences

CONSTANTS Keypairs,       \* the keypairs Generate can draw; bound: as many as there are
          Missing, Empty, \* a key file that is not there; one that holds no bytes
          SIPEnabled,     \* cfg.SIPEnabled
          Requests        \* bound: HTTP requests per process

ASSUME FilesAreNotKeys == {Missing, Empty} \cap Keypairs = {}
ASSUME SIPSwitch       == SIPEnabled \in BOOLEAN

\* The services, in the order in which runServer registers them.
Services == IF SIPEnabled THEN <<"signaling", "api", "sip", "cleanup">>
                          ELSE <<"signaling", "api", "cleanup">>

HTTP == {"signaling", "api", "sip"}

\* The servers with a ReadTimeout and a WriteTimeout.
Timed == {"api", "sip"}

VARIABLES
  at,        \* where the process is in runServer, New and Run; "down" if there is none
  svc,       \* index of the service that is being started or stopped
  priv, pub, \* the files server.key and server.pub
  id,        \* the identity the process works with
  db,        \* is the database open?
  http,      \* each HTTP server: "off", "started", "listening", "failed" or "shut"
  req,       \* each request: "none", the server it is at work in, "session", or "done"
  loop,      \* the cleanup goroutine: "off", "run", "wait" or "done"
  cancelled, \* is the cleanup's context cancelled?
  drawn,     \* history: keypairs that were generated
  served     \* history: identities that a process got as far as serving under

vars == <<at, svc, priv, pub, id, db, http, req, loop, cancelled, drawn, served>>
files == <<priv, pub, drawn>>
work  == <<http, req, loop, cancelled>>

NoId == [priv |-> Missing, pub |-> Missing]
KeyFile == Keypairs \cup {Missing, Empty}

TypeOK == /\ at \in {"down", "load", "priv", "privBytes", "pub", "pubBytes", "open",
                     "start", "running", "stop", "wait", "close", "exit"}
          /\ svc \in 0..Len(Services)
          /\ priv \in KeyFile /\ pub \in KeyFile
          /\ id \in [priv : KeyFile, pub : KeyFile]
          /\ db \in BOOLEAN
          /\ http \in [HTTP -> {"off", "started", "listening", "failed", "shut"}]
          /\ req \in [Requests -> {"none", "session", "done"} \cup HTTP]
          /\ loop \in {"off", "run", "wait", "done"}
          /\ cancelled \in BOOLEAN
          /\ drawn \subseteq Keypairs
          /\ served \subseteq [priv : KeyFile, pub : KeyFile]

\* Nothing of a process is left when it is gone; its files are.
Fresh == /\ svc' = 0 /\ id' = NoId /\ db' = FALSE
         /\ http' = [s \in HTTP |-> "off"]
         /\ req' = [r \in Requests |-> "none"]
         /\ loop' = "off" /\ cancelled' = FALSE

Init == /\ at = "down" /\ svc = 0 /\ id = NoId /\ db = FALSE
        /\ priv = Missing /\ pub = Missing
        /\ http = [s \in HTTP |-> "off"]
        /\ req = [r \in Requests |-> "none"]
        /\ loop = "off" /\ cancelled = FALSE
        /\ drawn = {} /\ served = {}

Goto(place) == at' = place

(***************************************************************************)
(* server.New: the identity, then the database.                            *)
(***************************************************************************)
Launch == /\ at = "down"
          /\ Goto("load")
          /\ UNCHANGED <<svc, id, db, files, work, served>>

\* Mutant: a Load that does not look at the sizes of the files.
Readable == priv # Missing /\ pub # Missing

\* Load succeeds if both files are there and of the size of a key.
Loadable == {priv, pub} \subseteq Keypairs

\* LoadOrGenerate: any failure of Load is answered with a new keypair.
LoadIdentity == /\ at = "load"
                /\ Loadable
                /\ id' = [priv |-> priv, pub |-> pub]
                /\ Goto("open")
                /\ UNCHANGED <<svc, db, files, work, served>>

GenerateIdentity == /\ at = "load"
                    /\ ~Loadable
                    /\ \E k \in Keypairs \ drawn :
                         /\ id' = [priv |-> k, pub |-> k]
                         /\ drawn' = drawn \cup {k}
                    /\ Goto("priv")
                    /\ UNCHANGED <<svc, db, priv, pub, work, served>>

\* Save: os.WriteFile truncates the file, or creates it, and then writes it.
SavePriv == \/ /\ at = "priv"
               /\ priv' = Empty
               /\ Goto("privBytes")
               /\ UNCHANGED <<svc, pub, drawn, id, db, work, served>>
            \/ /\ at = "privBytes"
               /\ priv' = id.priv
               /\ Goto("pub")
               /\ UNCHANGED <<svc, pub, drawn, id, db, work, served>>

\* Mutant: a Save that forgets the second file.
PubContent == Empty

SavedPub == id.pub

SavePub == \/ /\ at = "pub"
              /\ pub' = Empty
              /\ Goto("pubBytes")
              /\ UNCHANGED <<svc, priv, drawn, id, db, work, served>>
           \/ /\ at = "pubBytes"
              /\ pub' = SavedPub
              /\ Goto("open")
              /\ UNCHANGED <<svc, priv, drawn, id, db, work, served>>

\* store.Open, and New returns.
OpenDatabase == /\ at = "open"
                /\ db' = TRUE
                /\ svc' = 1
                /\ served' = served \cup {id}
                /\ Goto("start")
                /\ UNCHANGED <<files, id, work>>

(***************************************************************************)
(* Run.                                                                    *)
(***************************************************************************)

\* Mutant: a loop that ends one service early.
ButOne == Len(Services) - 1

LastService == Len(Services)

\* Start returns at once and leaves a goroutine behind.
StartService ==
  /\ at = "start"
  /\ IF Services[svc] = "cleanup"
     THEN loop' = "run" /\ UNCHANGED http
     ELSE http' = [http EXCEPT ![Services[svc]] = "started"] /\ UNCHANGED loop
  /\ IF svc = LastService
     THEN Goto("running") /\ UNCHANGED svc
     ELSE svc' = svc + 1 /\ UNCHANGED at
  /\ UNCHANGED <<files, id, db, req, cancelled, served>>

\* ListenAndServe gets its port, or logs an error and is never heard of again;
\* after Shutdown it returns at once.
Listen(s) == /\ http[s] = "started"
             /\ \E outcome \in {"listening", "failed"} : http' = [http EXCEPT ![s] = outcome]
             /\ UNCHANGED <<at, svc, id, db, files, req, loop, cancelled, served>>

\* SIGINT or SIGTERM, once Run listens for them.  (Before that they kill.)
Signal == /\ at = "running"
          /\ Goto("stop")
          /\ UNCHANGED <<svc, id, db, files, work, served>>

\* The next service to stop, or the database.
StopNext == IF svc > 1 THEN svc' = svc - 1 /\ Goto("stop") ELSE svc' = 0 /\ Goto("close")

\* Stop of the service begins: an HTTP server takes no more requests, the
\* context of the cleanup is cancelled.
BeginStop == /\ at = "stop"
             /\ IF Services[svc] = "cleanup"
                THEN cancelled' = TRUE /\ UNCHANGED http
                ELSE http' = [http EXCEPT ![Services[svc]] = "shut"] /\ UNCHANGED cancelled
             /\ Goto("wait")
             /\ UNCHANGED <<svc, id, db, files, req, loop, served>>

\* Mutant: Stop without `<-s.done`.
LoopCancelled == cancelled

LoopDone == loop = "done"

\* Shutdown, with a context that nobody cancels, waits for the server's requests,
\* among them one whose header is still coming in.  Sessions are hijacked.
Drained(s) == \A r \in Requests : req[r] # s

EndStop == /\ at = "wait"
           /\ IF Services[svc] = "cleanup" THEN LoopDone ELSE Drained(Services[svc])
           /\ StopNext
           /\ UNCHANGED <<id, db, files, work, served>>

\* DB.Close.
CloseDatabase == /\ at = "close"
                 /\ db' = FALSE
                 /\ Goto("exit")
                 /\ UNCHANGED <<svc, id, files, work, served>>

\* Run returns to runServer, and the process ends.
Exit == /\ at = "exit"
        /\ Goto("down")
        /\ Fresh
        /\ UNCHANGED <<files, served>>

\* The process is killed.
Kill == /\ at # "down"
        /\ Goto("down")
        /\ Fresh
        /\ UNCHANGED <<files, served>>

(***************************************************************************)
(* The goroutines of the services.                                         *)
(***************************************************************************)
Arrive(r, s) == /\ http[s] = "listening"
                /\ req[r] = "none"
                /\ req' = [req EXCEPT ![r] = s]
                /\ UNCHANGED <<at, svc, id, db, files, http, loop, cancelled, served>>

\* handleWS: websocket.Accept takes the connection over.
Upgrade(r) == /\ req[r] = "signaling"
              /\ req' = [req EXCEPT ![r] = "session"]
              /\ UNCHANGED <<at, svc, id, db, files, http, loop, cancelled, served>>

Finish(r) == /\ req[r] \in HTTP \cup {"session"}
             /\ req' = [req EXCEPT ![r] = "done"]
             /\ UNCHANGED <<at, svc, id, db, files, http, loop, cancelled, served>>

\* Mutant: leave the loop after the run at the start.
NoTicker == "done"

AfterRun == "wait"

\* runAll returns.
EndRun == /\ loop = "run"
          /\ loop' = AfterRun
          /\ UNCHANGED <<at, svc, id, db, files, http, req, cancelled, served>>

\* The select of the loop.  When both channels are ready it takes either.
TickRun == /\ loop = "wait"
           /\ loop' = "run"
           /\ UNCHANGED <<at, svc, id, db, files, http, req, cancelled, served>>

\* Mutant: a loop that only listens to its ticker.
NeverLeaves == FALSE

SeesCancel == cancelled

LeaveLoop == /\ loop = "wait"
             /\ SeesCancel
             /\ loop' = "done"
             /\ UNCHANGED <<at, svc, id, db, files, http, req, cancelled, served>>

(***************************************************************************)
(* The specification.                                                      *)
(***************************************************************************)
New == LoadIdentity \/ GenerateIdentity \/ SavePriv \/ SavePub \/ OpenDatabase
Run == StartService \/ BeginStop \/ EndStop \/ CloseDatabase \/ Exit

CleanupLoop == EndRun \/ TickRun \/ LeaveLoop

Next == \/ Launch \/ New \/ Run \/ Signal \/ Kill
        \/ \E s \in HTTP : Listen(s)
        \/ \E r \in Requests : (\E s \in HTTP : Arrive(r, s)) \/ Upgrade(r) \/ Finish(r)
        \/ CleanupLoop

Spec == Init /\ [][Next]_vars

\* The scheduler runs the main goroutine and the cleanup; a request of a server
\* with timeouts ends (its statements do, and its connection times out), one of
\* signaling may not; a select that finds both channels ready again and again
\* takes each of them sooner or later.
FairMain    == WF_vars(New \/ Run)
FairCleanup == WF_vars(CleanupLoop) /\ SF_vars(LeaveLoop)
FairRequest(r) == WF_vars(req[r] \in Timed /\ Finish(r))

FairSpec == Spec /\ FairMain /\ FairCleanup /\ \A r \in Requests : FairRequest(r)

(***************************************************************************)
(* Properties.                                                             *)
(***************************************************************************)

\* Once Run says that the server has started, every service has been.
TypeInv == /\ TypeOK
           /\ at = "running" => /\ loop # "off"
                                /\ \A i \in DOMAIN Services : Services[i] \in HTTP => http[Services[i]] # "off"

\* The address other nodes know stays the same for ever: no process ever serves
\* under another identity than the first one did, wherever processes have been
\* killed, while key files were being written too (identity.go:56-66, 97-112).
IdentityIsStable == \A i, j \in served : i = j

\* The public key a process shows is the one of the private key it signs with:
\* no crash leaves files of two keypairs, or half of one, for Load to accept.
IdentityIsWhole == \A i \in served : i.priv = i.pub /\ i.priv \in Keypairs

\* While an HTTP request (not a WebSocket session) or a cleanup run is at work
\* the database is open: each Stop waits for what its service has begun, and
\* the database is closed last (server.go:129-142, cleanup.go:43-49).
WorkHasDatabase ==
  (loop = "run" \/ \E r \in Requests : req[r] \in HTTP) => db

\* Stop of signaling waits for a request that is not a session (signaling.go:97, 132).
HeldBySignaling == /\ at = "wait" /\ Services[svc] = "signaling"
                   /\ \E r \in Requests : req[r] = "signaling"

\* A shutdown comes to its end, although Stop waits without a limit and the ticker
\* may win the select of the cleanup loop after it was cancelled, unless a request
\* of signaling that never ends holds it: nothing else can hold it for ever.
ShutdownCompletes == (at = "stop") ~> (at = "down" \/ []HeldBySignaling)

\* As long as the server runs its cleanup runs again and again.
CleanupRecurs == (at = "running" /\ loop # "run") ~> (loop = "run" \/ at # "running")

===============================================================================
