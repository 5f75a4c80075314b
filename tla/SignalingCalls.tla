---------------------------- MODULE SignalingCalls ----------------------------
(***************************************************************************)
(* The signaling server and its call tracking together: relay tracks the   *)
(* call of an offer or a hangup (trackCallStart, trackCallEnd) before it   *)
(* looks the recipient up, and waits for callMu while another goroutine    *)
(* inserts the row of its call.  internal/signaling/signaling.go.          *)
(*                                                                         *)
(* Signaling has the tracking as one step without effect; here that step   *)
(* is made of the steps of CallTracking, whose processes are the           *)
(* goroutines that relay: handlers and bridges.  Deleted accounts and      *)
(* restarts are left to CallTracking.                                      *)
(***************************************************************************)
EXTENDS Signaling, Functions

CONSTANTS Enrolled, \* keys that have an account
          MaxCalls  \* bound: calls logged; no offer is held up by it

ASSUME EnrolledAreKeys == Enrolled \subseteq Keys
ASSUME EveryOfferFits  == MaxCalls \in Nat /\ MaxSends <= MaxCalls

VARIABLES users, callLog, active, callMu, step, calls, starts, before, removed,
  known  \* history: calls logged when each frame was read

C == INSTANCE CallTracking WITH MaxStarts <- 0

callVars == <<users, callLog, active, callMu, step, calls, starts, before, removed>>
allVars  == <<vars, callVars, known>>

CallsInit == Init /\ C!Init /\ users = Enrolled /\ known = <<>>

(***************************************************************************)
(* The switch at the head of relay.                                        *)
(***************************************************************************)
Pair(frame) == C!CallKey(frame.from, frame.to)

\* Mutant: look the recipient up before the row is inserted or updated.
TrackInBackground(p) ==
  /\ pc[p] = "track"
  /\ \/ msg[p].type = "offer"  /\ C!StartLock(p, msg[p].from, msg[p].to)
     \/ msg[p].type = "hangup" /\ C!EndTake(p, msg[p].from, msg[p].to)
  /\ Goto(p, "lookup")
  /\ UNCHANGED <<registry, pubKey, ctx, wire, msg, target, sends, known>>

\* The first critical section of trackCallStart or trackCallEnd, when there is a
\* call to begin or to end.
BeginTracking(p) ==
  /\ pc[p] = "track"
  /\ \/ msg[p].type = "offer"  /\ C!StartLock(p, msg[p].from, msg[p].to)
     \/ msg[p].type = "hangup" /\ C!EndTake(p, msg[p].from, msg[p].to)
  /\ UNCHANGED <<vars, known>>

\* The INSERT or the UPDATE; then relay goes on to the recipient.
FinishTracking(p) == (C!StartInsert(p) \/ C!EndUpdate(p)) /\ Track(p) /\ UNCHANGED known

\* A pair whose call is logged already, an offer between strangers, a hangup of
\* no call: the critical section finds nothing to do.
NothingToTrack(frame) ==
  \/ frame.type = "offer"  /\ (Pair(frame) \in DOMAIN active \/ Pair(frame) \cap users = {})
  \/ frame.type = "hangup" /\ Pair(frame) \notin DOMAIN active

\* Mutant: a hangup that drops the call from activeCalls and updates nothing.
DropCall(p) ==
  /\ callMu = None /\ step[p] = C!Idle
  /\ Track(p)
  /\ active' = IF msg[p].type = "hangup" THEN C!ActiveAfterTake(Pair(msg[p])) ELSE active
  /\ UNCHANGED <<users, callLog, callMu, step, calls, starts, before, removed, known>>

SkipTracking(p) == /\ pc[p] = "track"
                   /\ step[p] = C!Idle
                   /\ \/ msg[p].type \notin {"offer", "hangup"}
                      \/ callMu = None /\ NothingToTrack(msg[p])
                   /\ Track(p)
                   /\ UNCHANGED <<callVars, known>>

TrackCall(p) == BeginTracking(p) \/ FinishTracking(p) \/ SkipTracking(p)

(***************************************************************************)
(* The specification: Signaling with TrackCall in the place of Track.      *)
(***************************************************************************)
\* relay after the tracking.
PassOn(p) == Lookup(p) \/ Send(p) \/ LookupInternal(p) \/ Callback(p)

WithoutTracking ==
  \/ \E p \in Procs : PassOn(p)
  \/ \E c \in Conns : Handshake(c) \/ Reply(c) \/ Leave(c) \/ ClientStep(c)
  \/ \E b \in Bridges, from \in Internals, to \in Keys, type \in MsgTypes :
       BridgeSend(b, from, to, type)
  \/ \E k \in Internals : RegisterInternal(k) \/ UnregisterInternal(k)
  \/ StopClear
  \/ StopShutdown

CallsNext == \/ \E p \in Procs : TrackCall(p)
             \/ /\ WithoutTracking
                /\ UNCHANGED callVars
                /\ known' = IF sends' > sends THEN Append(known, calls) ELSE known

CallsSpec == CallsInit /\ [][CallsNext]_allVars

(***************************************************************************)
(* Fairness.  The scheduler runs a handler that can go on and a goroutine  *)
(* that has begun to track, the holder of callMu among them; sync.Mutex    *)
(* lets nobody who waits for it starve; and of a read under a cancelled    *)
(* context see Signaling.                                                  *)
(***************************************************************************)
OwnStep(c)   == /\ Handshake(c) \/ Reply(c) \/ Leave(c) \/ PassOn(c)
                /\ UNCHANGED <<callVars, known>>
FailRead(c)  == ReadError(c) /\ UNCHANGED <<callVars, known>>
EnterLock(p) == BeginTracking(p) \/ SkipTracking(p)
HolderStep   == \E p \in Procs : callMu = p /\ FinishTracking(p)

HandlerRuns(c)   == WF_allVars(OwnStep(c)) /\ SF_allVars(FailRead(c))
TrackingRuns(p)  == WF_allVars(FinishTracking(p))
LockIsGranted(p) == SF_allVars(EnterLock(p))
HolderRuns       == WF_allVars(HolderStep)

CallsFairSpec == /\ CallsSpec
                 /\ \A c \in Conns : HandlerRuns(c)
                 /\ \A p \in Procs : TrackingRuns(p) /\ LockIsGranted(p)
                 /\ HolderRuns

(***************************************************************************)
(* Properties.                                                             *)
(***************************************************************************)

\* The goroutines that relay track calls as CallTracking says, so what holds of it
\* holds of the log behind the server (297-309).
TrackingSpec == C!Spec

\* The frames written to a session or given to an internal peer.
Delivered == UNION ({Range(inbox[c]) : c \in Conns} \cup {Range(handled[k]) : k \in Keys})

Rows(frame) == {id \in DOMAIN callLog : callLog[id].pair = Pair(frame)}

\* The log knows of the call that a frame tells of: an offer has a row for the
\* pair, and every call that the sender of a hangup could have meant, each that
\* was logged before the hangup was read, is ended or is being ended by another
\* hangup.
InLog(frame) ==
  /\ frame.type = "offer" /\ Pair(frame) \cap users # {} => Rows(frame) # {}
  /\ frame.type = "hangup" =>
       \A id \in Rows(frame) : \/ callLog[id].call > known[frame.n]
                               \/ callLog[id].ended
                               \/ C!Ending(callLog[id].call) \ {frame.src} # {}

\* What a user learns of a call is in the log before: relay tracks first and
\* looks the recipient up afterwards (304-316), also when it waits for callMu.
TrackedBeforeDelivered == \A frame \in Delivered : InLog(frame)

\* Tracking never keeps a message for good: callMu comes free again and again,
\* for whoever holds it waits for nothing but the database (364-429).
TrackingReturns == \A p \in Procs : (pc[p] = "track") ~> ~(pc[p] = "track")

===============================================================================
