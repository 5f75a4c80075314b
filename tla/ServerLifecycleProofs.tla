------------------------- MODULE ServerLifecycleProofs -------------------------
(***************************************************************************)
(* Proofs about ServerLifecycle, for any number of keypairs and requests,  *)
(* and about the configuration that a process starts with, for any layers. *)
(***************************************************************************)
EXTENDS MCServerLifecycle, TLAPS

(***************************************************************************)
(* The identity.  A full server.pub is the sign that its server.key was    *)
(* written before it, and both belong to one keypair: Save writes them in  *)
(* this order, and only if Load has failed.  So once they are there they   *)
(* stay as they are.                                                       *)
(***************************************************************************)
Saving  == {"priv", "privBytes", "pub", "pubBytes"}
Serving == {"start", "running", "stop", "wait", "close", "exit"}

FilesMatch == pub \in Keypairs => priv = pub

SaveInv == at \in Saving => /\ pub \notin Keypairs
                            /\ id.priv = id.pub /\ id.pub \in Keypairs

PrivBeforePub == at \in {"pub", "pubBytes"} => priv = id.priv

IdIsOnDisk == at \in {"open"} \cup Serving =>
                /\ pub \in Keypairs
                /\ id = [priv |-> priv, pub |-> pub]

ServedIsOnDisk == \A i \in served : pub \in Keypairs /\ i = [priv |-> priv, pub |-> pub]

IdentityInv == /\ id \in [priv : KeyFile, pub : KeyFile]
               /\ FilesMatch
               /\ SaveInv
               /\ PrivBeforePub
               /\ IdIsOnDisk
               /\ ServedIsOnDisk

\* The initial state satisfies the invariant: nothing is on disk.
LEMMA IdentityInit == Init => IdentityInv
BY FilesAreNotKeys DEF Init, IdentityInv, NoId, KeyFile, FilesMatch, SaveInv, PrivBeforePub,
     IdIsOnDisk, ServedIsOnDisk, Saving, Serving

\* A step that leaves the files alone and does not go on with New keeps it.
LEMMA IdentityUntouched ==
  ASSUME IdentityInv, UNCHANGED <<files, served>>,
         \/ /\ UNCHANGED id
            /\ \/ UNCHANGED at
               \/ at \in Serving /\ at' \in Serving
         \/ at' = "down" /\ id' = NoId
         \/ at' = "load" /\ UNCHANGED id
  PROVE  IdentityInv'
BY DEF IdentityInv, files, NoId, KeyFile, FilesMatch, SaveInv, PrivBeforePub,
     IdIsOnDisk, ServedIsOnDisk, Saving, Serving

\* Every step keeps it.
LEMMA IdentityStep == IdentityInv /\ [Next]_vars => IdentityInv'
<1> SUFFICES ASSUME IdentityInv, [Next]_vars
             PROVE  IdentityInv'
  OBVIOUS
<1> USE DEF Goto
<1>1. CASE Launch
  BY <1>1, IdentityUntouched DEF Launch
<1>2. CASE LoadIdentity
  BY <1>2, FilesAreNotKeys DEF LoadIdentity, Loadable, IdentityInv, KeyFile, FilesMatch, SaveInv,
       PrivBeforePub, IdIsOnDisk, ServedIsOnDisk, Saving, Serving, files
<1>3. CASE GenerateIdentity
  <2>1. pub \notin Keypairs
    BY <1>3 DEF GenerateIdentity, Loadable, IdentityInv, FilesMatch
  <2> QED
    BY <1>3, <2>1 DEF GenerateIdentity, IdentityInv, KeyFile, FilesMatch, SaveInv,
         PrivBeforePub, IdIsOnDisk, ServedIsOnDisk, Saving, Serving
<1>4. CASE SavePriv
  BY <1>4, FilesAreNotKeys DEF SavePriv, IdentityInv, FilesMatch, SaveInv,
       PrivBeforePub, IdIsOnDisk, ServedIsOnDisk, Saving, Serving
<1>5. CASE SavePub
  BY <1>5, FilesAreNotKeys DEF SavePub, SavedPub, IdentityInv, KeyFile, FilesMatch, SaveInv,
       PrivBeforePub, IdIsOnDisk, ServedIsOnDisk, Saving, Serving
<1>6. CASE OpenDatabase
  BY <1>6 DEF OpenDatabase, files, IdentityInv, FilesMatch, SaveInv,
       PrivBeforePub, IdIsOnDisk, ServedIsOnDisk, Saving, Serving
<1>7. CASE Run
  <2>1. CASE StartService
    BY <2>1, IdentityUntouched DEF StartService, Serving
  <2>2. CASE BeginStop
    BY <2>2, IdentityUntouched DEF BeginStop, Serving
  <2>3. CASE EndStop
    BY <2>3, IdentityUntouched DEF EndStop, StopNext, Serving
  <2>4. CASE CloseDatabase
    BY <2>4, IdentityUntouched DEF CloseDatabase, Serving
  <2>5. CASE Exit
    BY <2>5, IdentityUntouched DEF Exit, Fresh
  <2> QED
    BY <1>7, <2>1, <2>2, <2>3, <2>4, <2>5 DEF Run
<1>8. CASE Signal
  BY <1>8, IdentityUntouched DEF Signal, Serving
<1>9. CASE Kill
  BY <1>9, IdentityUntouched DEF Kill, Fresh
<1>10. CASE \/ \E s \in HTTP : Listen(s)
            \/ \E r \in Requests : (\E s \in HTTP : Arrive(r, s)) \/ Upgrade(r) \/ Finish(r)
            \/ CleanupLoop
  BY <1>10, IdentityUntouched DEF Listen, Arrive, Upgrade, Finish, CleanupLoop, EndRun, TickRun, LeaveLoop
<1>11. CASE UNCHANGED vars
  BY <1>11, IdentityUntouched DEF vars, files
<1> QED
  BY <1>1, <1>2, <1>3, <1>4, <1>5, <1>6, <1>7, <1>8, <1>9, <1>10, <1>11 DEF Next, New

\* Every process, however many there are and wherever they were killed, serves
\* under one and the same identity (identity.go:97-112).
THEOREM OneIdentity == Spec => []IdentityIsStable
<1>1. IdentityInv => IdentityIsStable
  BY DEF IdentityInv, ServedIsOnDisk, IdentityIsStable
<1> QED
  BY <1>1, IdentityInit, IdentityStep, PTL DEF Spec

\* That identity is a keypair, never the halves of two (identity.go:56-93).
THEOREM WholeIdentity == Spec => []IdentityIsWhole
<1>1. IdentityInv => IdentityIsWhole
  BY DEF IdentityInv, ServedIsOnDisk, FilesMatch, IdentityIsWhole
<1> QED
  BY <1>1, IdentityInit, IdentityStep, PTL DEF Spec

(***************************************************************************)
(* The database.  While services are being stopped, those after the one at *)
(* hand have nothing at work any more, and nothing of theirs starts again. *)
(***************************************************************************)
Indices == 1..Len(Services)

Stopped(s) == IF s = "cleanup"
              THEN loop = "done"
              ELSE http[s] = "shut" /\ Drained(s)

\* Before Run nothing is at work, and without SIP nothing of it ever is.
NothingBeforeRun == at \notin Serving =>
                      /\ loop = "off"
                      /\ \A s \in HTTP : http[s] = "off"
                      /\ \A r \in Requests : req[r] = "none"

NoSIP == ~SIPEnabled => http["sip"] = "off" /\ \A r \in Requests : req[r] # "sip"

DatabaseIsOpen == at \in Serving \ {"exit"} => db

SvcInv == /\ at \in {"start", "running", "stop", "wait"} => svc \in Indices
          /\ at = "running" => svc = Len(Services)

LaterAreStopped ==
  /\ at \in {"stop", "wait"} => \A j \in Indices : j > svc => Stopped(Services[j])
  /\ at \in {"close", "exit"} => \A j \in Indices : Stopped(Services[j])

ShutBeforeWait == at = "wait" /\ Services[svc] # "cleanup" => http[Services[svc]] = "shut"

WorkInv == /\ http \in [HTTP -> {"off", "started", "listening", "failed", "shut"}]
           /\ req \in [Requests -> {"none", "session", "done"} \cup HTTP]
           /\ NothingBeforeRun
           /\ NoSIP
           /\ DatabaseIsOpen
           /\ SvcInv
           /\ LaterAreStopped
           /\ ShutBeforeWait

\* The services by index.
LEMMA ServiceFacts ==
  /\ Len(Services) \in Nat /\ Len(Services) >= 1
  /\ \A j \in Indices : Services[j] \in HTTP \cup {"cleanup"}
  /\ \A j \in Indices : Services[j] = "sip" => SIPEnabled
  /\ 1 \in Indices /\ Services[1] = "signaling"
  /\ \A j \in Indices : Services[j] = "signaling" => j = 1
  /\ \E j \in Indices : Services[j] = "api"
  /\ \E j \in Indices : Services[j] = "cleanup"
  /\ SIPEnabled => \E j \in Indices : Services[j] = "sip"
<1>1. CASE SIPEnabled
  <2>1. /\ Services = <<"signaling", "api", "sip", "cleanup">>
        /\ Len(Services) = 4
    BY <1>1 DEF Services
  <2>2. /\ Services[1] = "signaling" /\ Services[2] = "api"
        /\ Services[3] = "sip" /\ Services[4] = "cleanup"
    BY <2>1
  <2> QED
    BY <1>1, <2>1, <2>2 DEF Indices, HTTP
<1>2. CASE ~SIPEnabled
  <2>1. /\ Services = <<"signaling", "api", "cleanup">>
        /\ Len(Services) = 3
    BY <1>2 DEF Services
  <2>2. Services[1] = "signaling" /\ Services[2] = "api" /\ Services[3] = "cleanup"
    BY <2>1
  <2> QED
    BY <1>2, <2>1, <2>2 DEF Indices, HTTP
<1> QED
  BY <1>1, <1>2

\* The initial state satisfies the invariant.
LEMMA WorkInit == Init => WorkInv
BY DEF Init, WorkInv, NothingBeforeRun, NoSIP, DatabaseIsOpen, SvcInv, LaterAreStopped,
     ShutBeforeWait, Serving, HTTP

\* What has been stopped stays stopped while requests and the cleanup go on.
LEMMA StoppedIsStable ==
  ASSUME WorkInv, at \in Serving,
         \/ \E s \in HTTP : Listen(s)
         \/ \E r \in Requests : (\E s \in HTTP : Arrive(r, s)) \/ Upgrade(r) \/ Finish(r)
         \/ CleanupLoop,
         NEW s \in HTTP \cup {"cleanup"}, Stopped(s)
  PROVE  Stopped(s)'
<1>1. ASSUME NEW t \in HTTP, Listen(t) PROVE Stopped(s)'
  BY <1>1 DEF WorkInv, Listen, Stopped, Drained, HTTP
<1>2. ASSUME NEW r \in Requests, NEW t \in HTTP, Arrive(r, t) PROVE Stopped(s)'
  BY <1>2 DEF WorkInv, Arrive, Stopped, Drained, HTTP
<1>3. ASSUME NEW r \in Requests, Finish(r) PROVE Stopped(s)'
  BY <1>3 DEF WorkInv, Finish, Stopped, Drained, HTTP
<1>4. ASSUME NEW r \in Requests, Upgrade(r) PROVE Stopped(s)'
  BY <1>4 DEF WorkInv, Upgrade, Stopped, Drained, HTTP
<1>5. ASSUME CleanupLoop PROVE Stopped(s)'
  BY <1>5 DEF WorkInv, CleanupLoop, EndRun, TickRun, LeaveLoop, Stopped, Drained, HTTP
<1> QED
  BY <1>1, <1>2, <1>3, <1>4, <1>5

\* Every step keeps the invariant.
LEMMA WorkStep == WorkInv /\ [Next]_vars => WorkInv'
<1> SUFFICES ASSUME WorkInv, [Next]_vars
             PROVE  WorkInv'
  OBVIOUS
<1> USE DEF Goto
<1>1. CASE Launch \/ LoadIdentity \/ GenerateIdentity \/ SavePriv \/ SavePub
  BY <1>1 DEF Launch, LoadIdentity, GenerateIdentity, SavePriv, SavePub, work, WorkInv,
       NothingBeforeRun, NoSIP, DatabaseIsOpen, SvcInv, LaterAreStopped, ShutBeforeWait, Serving
<1>2. CASE OpenDatabase
  BY <1>2, ServiceFacts DEF OpenDatabase, work, WorkInv,
       NothingBeforeRun, NoSIP, DatabaseIsOpen, SvcInv, LaterAreStopped, ShutBeforeWait,
       Serving, Indices
<1>3. CASE StartService
  BY <1>3, ServiceFacts DEF StartService, LastService, WorkInv,
       NothingBeforeRun, NoSIP, DatabaseIsOpen, SvcInv, LaterAreStopped, ShutBeforeWait,
       Serving, Indices, HTTP
<1>4. CASE Signal
  BY <1>4, ServiceFacts DEF Signal, work, WorkInv,
       NothingBeforeRun, NoSIP, DatabaseIsOpen, SvcInv, LaterAreStopped, ShutBeforeWait,
       Serving, Indices
<1>5. CASE BeginStop
  <2>1. \A j \in Indices : j > svc => Stopped(Services[j])'
    BY <1>5, ServiceFacts DEF BeginStop, WorkInv, LaterAreStopped, Stopped, Drained, HTTP
  <2> QED
    BY <1>5, <2>1, ServiceFacts DEF BeginStop, WorkInv, NothingBeforeRun, NoSIP, DatabaseIsOpen,
         SvcInv, LaterAreStopped, ShutBeforeWait, Serving, HTTP
<1>6. CASE EndStop
  <2>1. Stopped(Services[svc])
    BY <1>6, ServiceFacts DEF EndStop, LoopDone, Drained, WorkInv, SvcInv, ShutBeforeWait, Stopped, Drained
  <2>2. \A j \in Indices : j > svc \/ j = svc => Stopped(Services[j])
    BY <1>6, <2>1 DEF EndStop, WorkInv, LaterAreStopped
  <2>3. \A j \in Indices : Stopped(Services[j])' <=> Stopped(Services[j])
    BY <1>6 DEF EndStop, work, Stopped, Drained
  <2>4. CASE svc > 1
    BY <1>6, <2>2, <2>3, <2>4, ServiceFacts DEF EndStop, StopNext, work, WorkInv, NothingBeforeRun,
         NoSIP, DatabaseIsOpen, SvcInv, LaterAreStopped, ShutBeforeWait, Serving, Indices
  <2>5. CASE ~(svc > 1)
    BY <1>6, <2>2, <2>3, <2>5, ServiceFacts DEF EndStop, StopNext, work, WorkInv, NothingBeforeRun,
         NoSIP, DatabaseIsOpen, SvcInv, LaterAreStopped, ShutBeforeWait, Serving, Indices
  <2> QED
    BY <2>4, <2>5
<1>7. CASE CloseDatabase
  <2>1. \A j \in Indices : Stopped(Services[j])'
    BY <1>7 DEF CloseDatabase, work, WorkInv, LaterAreStopped, Stopped, Drained
  <2> QED
    BY <1>7, <2>1 DEF CloseDatabase, work, WorkInv, NothingBeforeRun, NoSIP, DatabaseIsOpen,
         SvcInv, LaterAreStopped, ShutBeforeWait, Serving
<1>8. CASE Exit \/ Kill
  BY <1>8 DEF Exit, Kill, Fresh, WorkInv, NothingBeforeRun, NoSIP, DatabaseIsOpen,
       SvcInv, LaterAreStopped, ShutBeforeWait, Serving, HTTP
<1>9. CASE \/ \E s \in HTTP : Listen(s)
           \/ \E r \in Requests : (\E s \in HTTP : Arrive(r, s)) \/ Upgrade(r) \/ Finish(r)
           \/ CleanupLoop
  <2>1. at' = at /\ svc' = svc /\ db' = db
    BY <1>9 DEF Listen, Arrive, Upgrade, Finish, CleanupLoop, EndRun, TickRun, LeaveLoop
  <2>2. at \in Serving
    BY <1>9 DEF Listen, Arrive, Upgrade, Finish, CleanupLoop, EndRun, TickRun, LeaveLoop,
         WorkInv, NothingBeforeRun, HTTP
  <2>3. /\ http' \in [HTTP -> {"off", "started", "listening", "failed", "shut"}]
        /\ req' \in [Requests -> {"none", "session", "done"} \cup HTTP]
    BY <1>9 DEF Listen, Arrive, Upgrade, Finish, CleanupLoop, EndRun, TickRun, LeaveLoop, WorkInv
  <2>4. NoSIP'
    BY <1>9 DEF Listen, Arrive, Upgrade, Finish, CleanupLoop, EndRun, TickRun, LeaveLoop, WorkInv, NoSIP, HTTP
  <2>5. \A s \in HTTP : http[s] = "shut" => http'[s] = "shut"
    BY <1>9 DEF Listen, Arrive, Upgrade, Finish, CleanupLoop, EndRun, TickRun, LeaveLoop, WorkInv
  <2>6. LaterAreStopped'
    BY <1>9, <2>1, <2>2, StoppedIsStable, ServiceFacts DEF WorkInv, LaterAreStopped
  <2>7. ShutBeforeWait'
    BY <2>1, <2>5, ServiceFacts DEF WorkInv, ShutBeforeWait, SvcInv
  <2> QED
    BY <2>1, <2>2, <2>3, <2>4, <2>6, <2>7 DEF WorkInv, NothingBeforeRun, DatabaseIsOpen, SvcInv
<1>10. CASE UNCHANGED vars
  BY <1>10 DEF vars, work, WorkInv, NothingBeforeRun, NoSIP, DatabaseIsOpen, SvcInv,
       LaterAreStopped, ShutBeforeWait, Stopped, Drained
<1> QED
  BY <1>1, <1>2, <1>3, <1>4, <1>5, <1>6, <1>7, <1>8, <1>9, <1>10 DEF Next, New, Run

\* No HTTP request of signaling, the API or the SIP bridge and no cleanup run ever
\* meets a closed database, with SIP or without, wherever the shutdown begins (server.go:129-142).
THEOREM DatabaseOutlivesWork == Spec => []WorkHasDatabase
<1>1. WorkInv => WorkHasDatabase
  <2> SUFFICES ASSUME WorkInv, ~db
               PROVE  loop # "run" /\ \A r \in Requests : req[r] \notin HTTP
    BY DEF WorkHasDatabase
  <2>1. CASE at \notin Serving
    BY <2>1 DEF WorkInv, NothingBeforeRun, HTTP
  <2>2. CASE at = "exit"
    <3>1. \A j \in Indices : Stopped(Services[j])
      BY <2>2 DEF WorkInv, LaterAreStopped
    <3>2. /\ Stopped("signaling") /\ Stopped("api") /\ Stopped("cleanup")
          /\ SIPEnabled => Stopped("sip")
      BY <3>1, ServiceFacts
    <3> QED
      BY <3>2, SIPSwitch DEF Stopped, Drained, WorkInv, NoSIP, HTTP
  <2> QED
    BY <2>1, <2>2 DEF WorkInv, DatabaseIsOpen
<1> QED
  BY <1>1, WorkInit, WorkStep, PTL DEF Spec

(***************************************************************************)
(* Types, and that Run has started every service when it says so.  While   *)
(* it starts them, those before the one at hand have been started.         *)
(***************************************************************************)
Begun(s) == IF s = "cleanup" THEN loop # "off" ELSE http[s] # "off"

StartInv == /\ at = "start"   => \A j \in Indices : j < svc => Begun(Services[j])
            /\ at = "running" => \A j \in Indices : Begun(Services[j])

TypeInd == TypeOK /\ StartInv

\* What a process starts with is of its type.
LEMMA NothingLeft == 0 \in 0..Len(Services) /\ NoId \in [priv : KeyFile, pub : KeyFile]
BY ServiceFacts DEF NoId, KeyFile

\* The initial state satisfies the invariant.
LEMMA TypeInit == Init => TypeInd
<1> SUFFICES ASSUME Init PROVE TypeInd
  OBVIOUS
<1>1. TypeOK
  BY NothingLeft DEF Init, TypeOK, KeyFile
<1>2. QED
  BY <1>1 DEF Init, TypeInd, StartInv

\* What has been started is not "off" again while the process lives.
LEMMA BegunStays ==
  ASSUME TypeOK, at' # "down", [Next]_vars, NEW s \in HTTP \cup {"cleanup"}, Begun(s)
  PROVE  Begun(s)'
<1> USE DEF Begun, TypeOK, HTTP, Goto
<1>1. CASE Launch \/ New \/ Signal \/ EndStop \/ CloseDatabase
  BY <1>1 DEF Launch, New, LoadIdentity, GenerateIdentity, SavePriv, SavePub, OpenDatabase, Signal,
       EndStop, CloseDatabase, work
<1>2. CASE StartService \/ BeginStop
  BY <1>2 DEF StartService, BeginStop
<1>3. CASE Exit \/ Kill
  BY <1>3 DEF Exit, Kill
<1>4. CASE \/ \E t \in HTTP : Listen(t)
           \/ \E r \in Requests : (\E t \in HTTP : Arrive(r, t)) \/ Upgrade(r) \/ Finish(r)
  BY <1>4 DEF Listen, Arrive, Upgrade, Finish
<1>5. CASE CleanupLoop
  BY <1>5 DEF CleanupLoop, EndRun, AfterRun, TickRun, LeaveLoop
<1>6. CASE UNCHANGED vars
  BY <1>6 DEF vars
<1>7. QED
  BY <1>1, <1>2, <1>3, <1>4, <1>5, <1>6 DEF Next, Run

\* Every step keeps the types.
LEMMA TypesStay == WorkInv /\ TypeOK /\ [Next]_vars => TypeOK'
<1> SUFFICES ASSUME WorkInv, TypeOK, [Next]_vars PROVE TypeOK'
  OBVIOUS
<1> USE DEF TypeOK, Goto, files, work
<1>1. CASE Launch \/ Signal
  BY <1>1 DEF Launch, Signal
<1>2. CASE New
  <2>1. CASE LoadIdentity
    BY <2>1 DEF LoadIdentity
  <2>2. CASE GenerateIdentity
    BY <2>2 DEF GenerateIdentity, KeyFile
  <2>3. CASE SavePriv \/ SavePub
    BY <2>3 DEF SavePriv, SavePub, SavedPub, KeyFile
  <2>4. CASE OpenDatabase
    BY <2>4, ServiceFacts DEF OpenDatabase
  <2>5. QED
    BY <1>2, <2>1, <2>2, <2>3, <2>4 DEF New
<1>3. CASE StartService
  BY <1>3, ServiceFacts DEF StartService, LastService, WorkInv, SvcInv, Indices
<1>4. CASE BeginStop
  BY <1>4 DEF BeginStop
<1>5. CASE EndStop
  BY <1>5, ServiceFacts DEF EndStop, StopNext, WorkInv, SvcInv, Indices
<1>6. CASE CloseDatabase
  BY <1>6 DEF CloseDatabase
<1>7. CASE Exit \/ Kill
  BY <1>7, NothingLeft DEF Exit, Kill, Fresh
<1>8. CASE \/ \E s \in HTTP : Listen(s)
           \/ \E r \in Requests : (\E s \in HTTP : Arrive(r, s)) \/ Upgrade(r) \/ Finish(r)
  BY <1>8 DEF Listen, Arrive, Upgrade, Finish
<1>9. CASE CleanupLoop
  BY <1>9 DEF CleanupLoop, EndRun, AfterRun, TickRun, LeaveLoop
<1>10. CASE UNCHANGED vars
  BY <1>10 DEF vars
<1>11. QED
  BY <1>1, <1>2, <1>3, <1>4, <1>5, <1>6, <1>7, <1>8, <1>9, <1>10 DEF Next, Run

\* Every step keeps the order of the starts.
LEMMA StartsStay == WorkInv /\ TypeInd /\ [Next]_vars => StartInv'
<1> SUFFICES ASSUME WorkInv, TypeInd, [Next]_vars PROVE StartInv'
  OBVIOUS
<1>1. \A j \in Indices : Services[j] \in HTTP \cup {"cleanup"}
  BY ServiceFacts
<1>2. \A j \in Indices : Begun(Services[j]) /\ at' # "down" => Begun(Services[j])'
  BY <1>1, BegunStays DEF TypeInd
<1>3. CASE StartService
  <2>1. svc \in Indices /\ Len(Services) \in Nat
    BY <1>3, ServiceFacts DEF StartService, WorkInv, SvcInv
  <2>2. \A j \in Indices : j = svc => Begun(Services[j])'
    BY <1>3, <1>1 DEF StartService, Begun, TypeInd, TypeOK, HTTP
  <2>3. \A j \in Indices : j < svc => Begun(Services[j])'
    BY <1>3, <1>2 DEF StartService, TypeInd, StartInv, Goto
  <2>4. \A j \in Indices : j \in Nat /\ j <= Len(Services)
    BY <2>1 DEF Indices
  <2>5. CASE svc = Len(Services)
    BY <1>3, <2>1, <2>2, <2>3, <2>4, <2>5 DEF StartService, LastService, StartInv, Goto
  <2>6. CASE svc # Len(Services)
    <3>1. at' = "start" /\ svc' = svc + 1
      BY <1>3, <2>6 DEF StartService, LastService, Goto
    <3>2. \A j \in Indices : j < svc' => j < svc \/ j = svc
      BY <2>1, <2>4, <3>1
    <3>3. QED
      BY <2>2, <2>3, <3>1, <3>2 DEF StartInv
  <2>7. QED
    BY <2>5, <2>6
<1>4. CASE at' \notin {"start", "running"}
  BY <1>4 DEF StartInv
<1>5. CASE OpenDatabase
  BY <1>5, ServiceFacts DEF OpenDatabase, StartInv, Indices, Goto
<1>6. CASE UNCHANGED <<at, svc>>
  BY <1>2, <1>6 DEF TypeInd, StartInv
<1>7. QED
  BY <1>3, <1>4, <1>5, <1>6 DEF Next, New, Run, Goto, Launch, LoadIdentity, GenerateIdentity,
     SavePriv, SavePub, Signal, BeginStop, EndStop, StopNext, CloseDatabase, Exit, Kill, Listen,
     Arrive, Upgrade, Finish, CleanupLoop, EndRun, TickRun, LeaveLoop, vars

\* Every reachable state is of its type, and Run says that the server has started
\* when every service has been, for any number of keypairs and requests, with SIP
\* or without (server.go:88-105).
THEOREM TypeCorrect == Spec => []TypeInv
<1>1. TypeInd => TypeInv
  <2> SUFFICES ASSUME TypeInd, at = "running"
               PROVE  /\ loop # "off"
                      /\ \A i \in DOMAIN Services : Services[i] \in HTTP => http[Services[i]] # "off"
    BY DEF TypeInd, TypeInv
  <2>1. \A j \in Indices : Begun(Services[j])
    BY DEF TypeInd, StartInv
  <2>2. DOMAIN Services = Indices
    <3>1. CASE SIPEnabled
      BY <3>1 DEF Services, Indices
    <3>2. CASE ~SIPEnabled
      BY <3>2 DEF Services, Indices
    <3>3. QED
      BY <3>1, <3>2
  <2>3. QED
    BY <2>1, <2>2, ServiceFacts DEF Begun, HTTP
<1>2. WorkInv /\ TypeInd /\ [Next]_vars => TypeInd'
  BY TypesStay, StartsStay DEF TypeInd
<1>3. QED
  BY <1>1, <1>2, TypeInit, WorkInit, WorkStep, PTL DEF Spec

(***************************************************************************)
(* The configuration.                                                      *)
(***************************************************************************)

\* Whatever settings a file names, and whatever the environment and the command
\* line hold, the four passes of Load come to what the layers say one over the
\* other: an empty or unreadable variable and a flag left at its default make
\* nothing, so that they neither hide what is below nor undo what is above.
THEOREM LoadIsPrecedence ==
  ASSUME NEW file, DOMAIN file \subseteq Settings, NEW env, NEW flags
  PROVE  Load(file, env, flags) = Precedence(file, env, flags)
<1> DEFINE loaded == Load(file, env, flags)
           made   == Precedence(file, env, flags)
<1> USE DEF Settings, InEnv
<1>1. DOMAIN Default = Settings /\ DOMAIN NoFlags = {"data_dir", "ws_port"}
  BY DEF Default, NoFlags, Texts, Ports, Switches
<1>2. DOMAIN made = Settings
  BY <1>1 DEF Precedence, Over, FlagLayer, EnvLayer, Texts, Ports
<1>3. loaded = [f \in Settings |-> made[f]]
  <2>1. ASSUME NEW f \in Settings PROVE loaded[f] = made[f]
    BY <1>1 DEF Load, ApplyFlags, ApplyEnv, LoadFromFile, EnvPort, Precedence, Over,
         FlagLayer, EnvLayer
  <2>2. QED
    BY <2>1 DEF Load, ApplyFlags
<1>4. made = [f \in DOMAIN made |-> made[f]]
  BY DEF Precedence, Over
<1>5. QED
  BY <1>2, <1>3, <1>4

\* A process starts with each setting as the first of its layers that makes it
\* says (config.go:86-166, main.go:51-80).
THEOREM EveryStartIsConfigured == Spec => []StartsAsConfigured
<1>1. \A file \in Files : DOMAIN file \subseteq Settings
  <2>1. DOMAIN Setup = Settings
    BY DEF Setup, Default, Settings, InEnv, Texts, Ports, Switches
  <2>2. \A S \in {{}, Texts, Settings \ Texts} : S \subseteq Settings
    BY DEF Settings, InEnv
  <2>3. QED
    BY <2>1, <2>2 DEF Files
<1>2. StartsAsConfigured
  BY <1>1, LoadIsPrecedence DEF StartsAsConfigured
<1>3. QED
  BY <1>2, PTL

(***************************************************************************)
(* Liveness.  Fairness speaks of ENABLED, which the prover cannot expand:  *)
(* that the loop and the main goroutine can go on is a hypothesis.         *)
(***************************************************************************)
LoopCanGoOn == /\ loop \in {"run", "wait"} => ENABLED <<CleanupLoop>>_vars
               /\ loop = "wait" /\ cancelled => ENABLED <<LeaveLoop>>_vars

\* The context of the cleanup is cancelled by its Stop and by nothing else, and only
\* then does its loop end.
LoopInv == /\ at \notin {"stop", "wait", "close", "exit"} => ~cancelled /\ loop # "done"
           /\ at \in {"stop", "wait"} => loop # "off"
           /\ at = "wait" /\ Services[svc] = "cleanup" => cancelled

LEMMA LoopStep == WorkInv /\ TypeInd /\ LoopInv /\ [Next]_vars => LoopInv'
<1> SUFFICES ASSUME WorkInv, TypeInd, LoopInv, [Next]_vars PROVE LoopInv'
  OBVIOUS
<1> USE DEF LoopInv, Goto
<1>1. CASE StartService
  BY <1>1 DEF StartService, HTTP
<1>2. CASE Signal
  <2>1. \A j \in Indices : Begun(Services[j])
    BY <1>2 DEF Signal, TypeInd, StartInv
  <2>2. loop # "off"
    BY <2>1, ServiceFacts DEF Begun, HTTP
  <2>3. QED
    BY <1>2, <2>2 DEF Signal, work
<1>3. CASE BeginStop
  BY <1>3 DEF BeginStop
<1>4. CASE EndStop \/ CloseDatabase
  BY <1>4 DEF EndStop, StopNext, CloseDatabase, work
<1>5. CASE Exit \/ Kill
  BY <1>5 DEF Exit, Kill, Fresh
<1>6. CASE CleanupLoop
  BY <1>6 DEF CleanupLoop, EndRun, TickRun, LeaveLoop, AfterRun, SeesCancel, TypeInd, TypeOK
<1>7. CASE Launch \/ New
  BY <1>7 DEF Launch, New, LoadIdentity, GenerateIdentity, SavePriv, SavePub, OpenDatabase, work
<1>8. CASE UNCHANGED <<at, svc, loop, cancelled>>
  BY <1>8
<1>9. QED
  BY <1>1, <1>2, <1>3, <1>4, <1>5, <1>6, <1>7, <1>8 DEF Next, Run, Listen, Arrive, Upgrade, Finish, vars

LEMMA LoopInvHolds == Spec => [](WorkInv /\ TypeInd /\ LoopInv)
<1>1. Init => LoopInv
  BY DEF Init, LoopInv
<1>2. WorkInv /\ TypeInd /\ [Next]_vars => TypeInd'
  BY TypesStay, StartsStay DEF TypeInd
<1>3. QED
  BY <1>1, <1>2, TypeInit, WorkInit, WorkStep, LoopStep, PTL DEF Spec

\* As long as the server runs its cleanup runs again and again: nothing but the
\* shutdown makes the loop leave (cleanup.go:52-72).
THEOREM CleanupGoesOn == FairSpec /\ []LoopCanGoOn => CleanupRecurs
<1> DEFINE Between == at = "running" /\ loop # "run"
           Reached == loop = "run" \/ at # "running"
<1>1. TypeInd /\ LoopInv /\ Between => loop = "wait" /\ ~cancelled
  <2>1. TypeInd /\ at = "running" => \A j \in Indices : Begun(Services[j])
    BY DEF TypeInd, StartInv
  <2>2. TypeInd /\ at = "running" => loop # "off"
    BY <2>1, ServiceFacts DEF Begun, HTTP
  <2>3. QED
    BY <2>2 DEF LoopInv, TypeInd, TypeOK
<1>2. Between \/ Reached
  OBVIOUS
<1>3. TypeInd /\ LoopInv /\ Between /\ <<CleanupLoop>>_vars => Reached'
  BY <1>1 DEF CleanupLoop, EndRun, TickRun, LeaveLoop, SeesCancel
<1>4. TypeInd /\ LoopInv /\ Between /\ LoopCanGoOn => ENABLED <<CleanupLoop>>_vars
  BY <1>1 DEF LoopCanGoOn
<1>5. (Between \/ Reached)'
  OBVIOUS
<1> HIDE DEF Between, Reached
<1>6. FairSpec /\ []LoopCanGoOn => (Between ~> Reached)
  BY <1>2, <1>3, <1>4, <1>5, LoopInvHolds, PTL DEF FairSpec, FairCleanup, Spec
<1>7. QED
  BY <1>6 DEF CleanupRecurs, Between, Reached

(***************************************************************************)
(* The shutdown.  That the requests of a server with timeouts end once it  *)
(* takes no more would need a count of them: it is a hypothesis, and so is *)
(* again that the main goroutine can go on where nothing holds it.  Of the *)
(* requests of signaling nothing is assumed.                               *)
(***************************************************************************)
Waited == IF Services[svc] = "cleanup" THEN LoopDone ELSE Drained(Services[svc])

NothingHolds == at \in {"stop", "close", "exit"} \/ (at = "wait" /\ Waited)

MainCanGoOn == NothingHolds => ENABLED <<New \/ Run>>_vars

EndsOnceShut(s) == (http[s] = "shut") ~> (Drained(s) \/ at = "down")
RequestsEnd     == \A s \in Timed : EndsOnceShut(s)

StopOf(i)  == at = "stop" /\ svc = i
WaitFor(i) == at = "wait" /\ svc = i
Ready(i)   == WaitFor(i) /\ Stopped(Services[i])
Past(i)    == (at = "stop" /\ svc < i) \/ at \in {"close", "down"}

StopGoesOn(i) == StopOf(i) ~> (Past(i) \/ []HeldBySignaling)

\* While Stop of a service waits, nothing but the end of the wait or of the process
\* moves the main goroutine.
LEMMA WaitStays ==
  ASSUME WorkInv, LoopInv, NEW i \in Indices, WaitFor(i), [Next]_vars
  PROVE  /\ WaitFor(i)' \/ Past(i)'
         /\ Ready(i) => Ready(i)' \/ Past(i)'
         /\ New \/ Run => Past(i)'
<1> USE DEF WaitFor, Past, Goto
<1>0. svc \in Nat /\ i \in Nat
  BY ServiceFacts DEF Indices
<1>1. CASE New \/ Run
  <2>1. EndStop
    BY <1>1 DEF New, LoadIdentity, GenerateIdentity, SavePriv, SavePub, OpenDatabase, Run,
         StartService, BeginStop, CloseDatabase, Exit
  <2>2. Past(i)'
    BY <1>0, <2>1 DEF EndStop, StopNext
  <2>3. QED
    BY <2>2
<1>2. CASE Kill
  BY <1>2 DEF Kill, New, LoadIdentity, GenerateIdentity, SavePriv, SavePub, OpenDatabase, Run,
       StartService, BeginStop, EndStop, StopNext, CloseDatabase, Exit
<1>3. CASE \/ \E s \in HTTP : Listen(s)
           \/ \E r \in Requests : (\E s \in HTTP : Arrive(r, s)) \/ Upgrade(r) \/ Finish(r)
           \/ CleanupLoop
  <2>1. UNCHANGED <<at, svc>>
    BY <1>3 DEF Listen, Arrive, Upgrade, Finish, CleanupLoop, EndRun, TickRun, LeaveLoop
  <2>2. Ready(i) => Ready(i)'
    BY <1>3, <2>1, StoppedIsStable, ServiceFacts DEF Ready, Serving
  <2>3. ~(New \/ Run)
    BY <1>3, <2>1, <1>1
  <2>4. QED
    BY <2>1, <2>2, <2>3
<1>4. CASE UNCHANGED vars
  <2>1. WaitFor(i)' /\ (Ready(i) => Ready(i)')
    BY <1>4 DEF vars, Ready, Stopped, Drained
  <2>2. ~(New \/ Run)
    BY <2>1, <1>1, <1>0
  <2>3. QED
    BY <2>1, <2>2
<1>5. QED
  BY <1>1, <1>2, <1>3, <1>4 DEF Next, Launch, Signal

\* The cleanup: however often the ticker wins the select, the loop leaves in the end.
LEMMA LoopLeaves ==
  ASSUME NEW i \in Indices, Services[i] = "cleanup"
  PROVE  FairSpec /\ []LoopCanGoOn => (WaitFor(i) ~> (Ready(i) \/ Past(i)))
<1> DEFINE InRun == loop = "run"
           InSelect == loop = "wait"
<1>1. WorkInv /\ LoopInv /\ WaitFor(i) /\ [Next]_vars => WaitFor(i)' \/ Past(i)'
  BY WaitStays
<1>2. TypeInd /\ LoopInv /\ WaitFor(i) => cancelled /\ (InRun \/ InSelect \/ Ready(i))
  BY DEF TypeInd, TypeOK, LoopInv, WaitFor, Ready, Stopped
<1>3. WaitFor(i)' /\ <<LeaveLoop>>_vars => Ready(i)'
  BY DEF LeaveLoop, WaitFor, Ready, Stopped
<1>4. InRun /\ <<CleanupLoop>>_vars => InSelect'
  BY DEF CleanupLoop, EndRun, TickRun, LeaveLoop, AfterRun
<1>5. /\ LoopCanGoOn /\ InRun => ENABLED <<CleanupLoop>>_vars
      /\ LoopCanGoOn /\ InSelect /\ cancelled => ENABLED <<LeaveLoop>>_vars
  BY DEF LoopCanGoOn
<1> HIDE DEF InRun, InSelect
<1>6. QED
  BY <1>1, <1>2, <1>3, <1>4, <1>5, LoopInvHolds, PTL DEF FairSpec, FairCleanup, Spec

\* An HTTP server: its requests end.
LEMMA RequestsLeave ==
  ASSUME NEW i \in Indices, Services[i] \in Timed
  PROVE  Spec /\ RequestsEnd => (WaitFor(i) ~> (Ready(i) \/ Past(i)))
<1> DEFINE s == Services[i]
           IsShut == http[s] = "shut"
           Quiet  == Drained(s) \/ at = "down"
<1>1. s \in Timed /\ s # "cleanup"
  BY DEF Timed
<1>2. WorkInv /\ LoopInv /\ WaitFor(i) /\ [Next]_vars => WaitFor(i)' \/ Past(i)'
  BY WaitStays
<1>3. WorkInv /\ WaitFor(i) => IsShut
  BY <1>1 DEF WorkInv, ShutBeforeWait, WaitFor
<1>4. RequestsEnd => EndsOnceShut(s)
  BY <1>1 DEF RequestsEnd
<1>5. WorkInv /\ WaitFor(i) /\ Quiet => Ready(i)
  BY <1>1, <1>3 DEF WaitFor, Ready, Stopped
<1>6. QED
  BY <1>2, <1>3, <1>4, <1>5, LoopInvHolds, PTL DEF Spec, EndsOnceShut

\* Signaling: its requests end or hold the shutdown for ever.
LEMMA SignalingLeavesOrHolds ==
  ASSUME NEW i \in Indices, Services[i] = "signaling"
  PROVE  Spec => (WaitFor(i) ~> (Ready(i) \/ Past(i) \/ []HeldBySignaling))
<1>1. WorkInv /\ LoopInv /\ WaitFor(i) /\ [Next]_vars => WaitFor(i)' \/ Past(i)'
  BY WaitStays
<1>2. WorkInv /\ WaitFor(i) => Ready(i) \/ HeldBySignaling
  BY DEF WorkInv, ShutBeforeWait, WaitFor, Ready, Stopped, Drained, HeldBySignaling
<1>3. QED
  BY <1>1, <1>2, LoopInvHolds, PTL DEF Spec

\* Stop of one service ends, and the next one begins, or the database is closed.
\* (Or it is held by signaling.)
LEMMA StopEnds ==
  ASSUME NEW i \in Indices
  PROVE  FairSpec /\ RequestsEnd /\ []LoopCanGoOn /\ []MainCanGoOn => StopGoesOn(i)
<1>1. FairSpec /\ RequestsEnd /\ []LoopCanGoOn =>
        (WaitFor(i) ~> (Ready(i) \/ Past(i) \/ []HeldBySignaling))
  <2>0. FairSpec => Spec
    BY DEF FairSpec
  <2>1. CASE Services[i] = "cleanup"
    <3>1. FairSpec /\ []LoopCanGoOn => (WaitFor(i) ~> (Ready(i) \/ Past(i)))
      BY <2>1, LoopLeaves
    <3>2. QED
      BY <3>1, PTL
  <2>2. CASE Services[i] \in Timed
    <3>1. Spec /\ RequestsEnd => (WaitFor(i) ~> (Ready(i) \/ Past(i)))
      BY <2>2, RequestsLeave
    <3>2. QED
      BY <2>0, <3>1, PTL
  <2>3. CASE Services[i] = "signaling"
    <3>1. Spec => (WaitFor(i) ~> (Ready(i) \/ Past(i) \/ []HeldBySignaling))
      BY <2>3, SignalingLeavesOrHolds
    <3>2. QED
      BY <2>0, <3>1, PTL
  <2>4. QED
    BY <2>1, <2>2, <2>3, ServiceFacts DEF HTTP, Timed
<1>2. WorkInv /\ StopOf(i) /\ [Next]_vars => StopOf(i)' \/ WaitFor(i)' \/ Past(i)'
  BY DEF StopOf, WaitFor, Past, Goto, Next, Launch, New, LoadIdentity, GenerateIdentity, SavePriv,
     SavePub, OpenDatabase, Run, StartService, BeginStop, EndStop, CloseDatabase, Exit, Signal,
     Kill, Listen, Arrive, Upgrade, Finish, CleanupLoop, EndRun, TickRun, LeaveLoop, vars
<1>3. StopOf(i) /\ <<New \/ Run>>_vars => WaitFor(i)'
  BY DEF StopOf, WaitFor, Goto, New, LoadIdentity, GenerateIdentity, SavePriv,
     SavePub, OpenDatabase, Run, StartService, BeginStop, EndStop, CloseDatabase, Exit
<1>4. /\ WorkInv /\ LoopInv /\ Ready(i) /\ [Next]_vars => Ready(i)' \/ Past(i)'
      /\ WorkInv /\ LoopInv /\ Ready(i) /\ <<New \/ Run>>_vars => Past(i)'
  <2>1. Ready(i) => WaitFor(i)
    BY DEF Ready
  <2>2. <<New \/ Run>>_vars => [Next]_vars
    BY DEF Next
  <2>3. QED
    BY <2>1, <2>2, WaitStays
<1>5. StopOf(i) \/ Ready(i) => NothingHolds
  BY DEF NothingHolds, StopOf, Ready, WaitFor, Waited, Stopped, LoopDone
<1>6. QED
  BY <1>1, <1>2, <1>3, <1>4, <1>5, LoopInvHolds, PTL
     DEF FairSpec, FairMain, Spec, MainCanGoOn, StopGoesOn

\* A shutdown comes to its end, or a request of signaling holds it for ever: the
\* services stop one after the other, each for as long as what it has begun takes,
\* the ticker of the cleanup cannot win its select for ever, and then the database
\* is closed (server.go:117-147, cleanup.go:43-72, signaling.go:97, 132).
THEOREM ShutdownEnds ==
  FairSpec /\ RequestsEnd /\ []LoopCanGoOn /\ []MainCanGoOn => ShutdownCompletes
<1> DEFINE Stopping == at = "stop"
           Down     == at = "down"
           Closing  == at = "close"
           Leaving  == at = "exit"
<1>1. WorkInv /\ Stopping => StopOf(4) \/ StopOf(3) \/ StopOf(2) \/ StopOf(1)
  BY DEF WorkInv, SvcInv, StopOf, Indices, Services
<1>2. /\ WorkInv /\ Past(4) => StopOf(3) \/ StopOf(2) \/ StopOf(1) \/ Closing \/ Down
      /\ WorkInv /\ Past(3) => StopOf(2) \/ StopOf(1) \/ Closing \/ Down
      /\ WorkInv /\ Past(2) => StopOf(1) \/ Closing \/ Down
      /\ WorkInv /\ Past(1) => Closing \/ Down
  BY ServiceFacts DEF WorkInv, SvcInv, StopOf, Past, Indices
<1>3. /\ Closing /\ [Next]_vars => Closing' \/ Leaving' \/ Down'
      /\ Closing /\ <<New \/ Run>>_vars => Leaving'
      /\ Leaving /\ [Next]_vars => Leaving' \/ Down'
      /\ Leaving /\ <<New \/ Run>>_vars => Down'
  BY DEF Goto, Next, Launch, New, LoadIdentity, GenerateIdentity, SavePriv,
     SavePub, OpenDatabase, Run, StartService, BeginStop, EndStop, CloseDatabase, Exit, Signal,
     Kill, Listen, Arrive, Upgrade, Finish, CleanupLoop, EndRun, TickRun, LeaveLoop, vars
<1>4. Closing \/ Leaving => NothingHolds
  BY DEF NothingHolds
<1> DEFINE Premise == FairSpec /\ RequestsEnd /\ []LoopCanGoOn /\ []MainCanGoOn
<1>5. /\ Premise => StopGoesOn(1)
      /\ Premise => StopGoesOn(2)
      /\ Premise => StopGoesOn(3)
      /\ Premise => StopGoesOn(4)
  <2>1. 1 \in Indices /\ 2 \in Indices /\ 3 \in Indices /\ (SIPEnabled => 4 \in Indices)
    BY DEF Indices, Services
  <2>2. SIPEnabled => (Premise => StopGoesOn(4))
    BY <2>1, StopEnds
  <2>3. ASSUME ~SIPEnabled PROVE Premise => StopGoesOn(4)
    <3>1. WorkInv => ~StopOf(4)
      BY <2>3 DEF WorkInv, SvcInv, StopOf, Indices, Services
    <3>2. QED
      BY <3>1, LoopInvHolds, PTL DEF FairSpec, StopGoesOn
  <2>4. QED
    BY <2>1, <2>2, <2>3, StopEnds
<1> HIDE DEF Stopping, Down, Closing, Leaving
<1>6. Premise => (Stopping ~> (Down \/ []HeldBySignaling))
  BY <1>1, <1>2, <1>3, <1>4, <1>5, LoopInvHolds, PTL
     DEF FairSpec, FairMain, Spec, MainCanGoOn, StopGoesOn
<1>7. QED
  BY <1>6 DEF ShutdownCompletes, Stopping, Down

===============================================================================
