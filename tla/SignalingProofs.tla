---------------------------- MODULE SignalingProofs ----------------------------
(***************************************************************************)
(* Theorems about Signaling for any set of keys, connections, bridges and  *)
(* message types, and any bound on the number of messages; and, at the     *)
(* end, about SignalingCalls, the server together with its call tracking.  *)
(***************************************************************************)
EXTENDS SignalingCalls, TLAPS

USE NamesAreDistinct, BoundsAreSubsets
USE DEF NamesAreDistinct, BoundsAreSubsets

(***************************************************************************)
(* Type correctness.                                                       *)
(***************************************************************************)

\* Writing a frame keeps the inboxes sequences of frames.
LEMMA DeliverType ==
  ASSUME inbox \in [Conns -> Seq(Frame)], NEW c \in Conns, NEW f \in Frame,
         Deliver(c, f)
  PROVE  inbox' \in [Conns -> Seq(Frame)]
  BY DEF Deliver

\* A goroutine that is relaying holds a message of its own.
Carries(p) == pc[p] \in Relaying => msg[p] \in Frame /\ msg[p].src = p

\* A handler past authentication has a key; one before it has none.
HasKey(c) == /\ pc[c] \in InSession \cup {"register"} => pubKey[c] \in Keys
             /\ pc[c] \in {"new", "auth"} => pubKey[c] = None

TypeInd == /\ TypeOK
           /\ \A p \in Procs : Carries(p) /\ (pc[p] = "send" => target[p] # None)
           /\ \A c \in Conns : HasKey(c)

LEMMA TypeInit == Init => TypeInd
  BY DEF Init, TypeInd, TypeOK, Carries, HasKey, Procs, Places, InSession, Relaying

\* One case per action.
LEMMA TypeNext == TypeInd /\ [Next]_vars => TypeInd'
<1> SUFFICES ASSUME TypeInd, [Next]_vars PROVE TypeInd'
  OBVIOUS
<1> USE DEF TypeInd, TypeOK, Carries, HasKey, Goto, registry, wire
<1>1. ASSUME NEW c \in Conns, ClientClose(c) \/ Stall(c) \/ CloseCancelled(c)
      PROVE  TypeInd'
  <2>1. CASE ClientClose(c)
    BY <2>1 DEF ClientClose
  <2>2. CASE Stall(c)
    BY <2>2 DEF Stall
  <2>3. CASE CloseCancelled(c)
    BY <2>3 DEF CloseCancelled
  <2>4. QED
    BY <1>1, <2>1, <2>2, <2>3
<1>2. ASSUME NEW c \in Conns, Accept(c) \/ AuthReject(c)
      PROVE  TypeInd'
  <2>1. CASE Accept(c)
    BY <2>1 DEF Accept, Procs, Places, InSession, Relaying
  <2>2. CASE AuthReject(c)
    BY <2>2 DEF AuthReject, Return, Procs, Places, InSession, Relaying
  <2>3. QED
    BY <1>2, <2>1, <2>2
<1>3. ASSUME NEW c \in Conns, NEW k \in Keys, Authenticate(c, k)
      PROVE  TypeInd'
  BY <1>3 DEF Authenticate, Procs, Places, InSession, Relaying
<1>4. ASSUME NEW c \in Conns, Register(c)
      PROVE  TypeInd'
  BY <1>4 DEF Register, CancelExisting, Procs, Places, InSession, Relaying
<1>5. ASSUME NEW c \in Conns, AuthOk(c)
      PROVE  TypeInd'
  BY <1>5 DEF AuthOk, Procs, Places, InSession, Relaying
<1>6. ASSUME NEW c \in Conns, AuthOkFail(c)
      PROVE  TypeInd'
  BY <1>6 DEF AuthOkFail, Return, Procs, Places, InSession, Relaying
<1>7. ASSUME NEW c \in Conns, NEW from \in Keys, NEW to \in Keys, NEW type \in MsgTypes,
             ReadRelay(c, from, to, type)
      PROVE  TypeInd'
  <2> DEFINE f == [type |-> type, src |-> c, n |-> sends + 1, from |-> pubKey[c], to |-> to]
  <2>1. pubKey[c] \in Keys
    BY <1>7 DEF ReadRelay, InSession
  <2>2. f \in Frame
    BY <2>1 DEF Frame, Procs
  <2>3. msg' = [msg EXCEPT ![c] = f] /\ sends' \in Nat
    BY <1>7 DEF ReadRelay, EnforcedFrom
  <2>4. QED
    BY <1>7, <2>1, <2>2, <2>3 DEF ReadRelay, Procs, Places, InSession, Relaying
<1>8. ASSUME NEW c \in Conns, ReadOther(c) \/ ReadError(c)
      PROVE  TypeInd'
  <2>1. CASE ReadOther(c)
    BY <2>1 DEF ReadOther, Procs, Places, InSession, Relaying
  <2>2. CASE ReadError(c)
    BY <2>2 DEF ReadError, Procs, Places, InSession, Relaying
  <2>3. QED
    BY <1>8, <2>1, <2>2
<1>9. ASSUME NEW c \in Conns, Reply(c)
      PROVE  TypeInd'
  BY <1>9 DEF Reply, Procs, Places, InSession, Relaying
<1>10. ASSUME NEW c \in Conns, Unregister(c)
       PROVE  TypeInd'
  BY <1>10 DEF Unregister, PeersWithout, Return, Procs, Places, InSession, Relaying
<1>11. ASSUME NEW b \in Bridges, NEW from \in Keys, NEW to \in Keys, NEW type \in MsgTypes,
              BridgeSend(b, from, to, type)
       PROVE  TypeInd'
  <2> DEFINE f == [type |-> type, src |-> b, n |-> sends + 1, from |-> from, to |-> to]
  <2>1. f \in Frame
    BY DEF Frame, Procs
  <2>2. msg' = [msg EXCEPT ![b] = f] /\ sends' \in Nat
    BY <1>11 DEF BridgeSend
  <2>3. QED
    BY <1>11, <2>1, <2>2 DEF BridgeSend, Procs, Places, InSession, Relaying
<1>12. ASSUME NEW p \in Procs, Track(p)
       PROVE  TypeInd'
  BY <1>12 DEF Track, Procs, Places, InSession, Relaying
<1>13. ASSUME NEW p \in Procs, Lookup(p)
       PROVE  TypeInd'
  <2>1. msg[p].to \in Keys
    BY <1>13 DEF Lookup, Relaying, Frame
  <2>2. QED
    BY <1>13, <2>1 DEF Lookup, Procs, Places, InSession, Relaying
<1>14. ASSUME NEW p \in Procs, Send(p)
       PROVE  TypeInd'
  <2>1. target[p] \in Conns /\ msg[p] \in Frame
    BY <1>14 DEF Send, Relaying
  <2>2. inbox' \in [Conns -> Seq(Frame)]
    BY <1>14, <2>1, DeliverType DEF Send
  <2>3. QED
    BY <1>14, <2>2 DEF Send, AfterSend, Finish, Caller, Procs, Places, InSession, Relaying
<1>15. ASSUME NEW p \in Procs, LookupInternal(p)
       PROVE  TypeInd'
  <2>1. UNCHANGED <<phase, peers, internal, pubKey, ctx, link, inbox, handled, sends>>
    BY <1>15 DEF LookupInternal
  <2>2. CASE pc' = [pc EXCEPT ![p] = "callback"] /\ UNCHANGED <<msg, target>>
    BY <1>15, <2>1, <2>2 DEF LookupInternal, Procs, Places, InSession, Relaying
  <2>3. CASE Finish(p)
    BY <1>15, <2>1, <2>3 DEF LookupInternal, Finish, Caller, Procs, Places, InSession, Relaying
  <2>4. QED
    BY <1>15, <2>2, <2>3 DEF LookupInternal
<1>16. ASSUME NEW p \in Procs, Callback(p)
       PROVE  TypeInd'
  <2>1. msg[p] \in Frame /\ msg[p].to \in Keys
    BY <1>16 DEF Callback, Relaying, Frame
  <2>2. handled' \in [Keys -> Seq(Frame)]
    BY <1>16, <2>1 DEF Callback
  <2>3. QED
    BY <1>16, <2>2 DEF Callback, Finish, Caller, Procs, Places, InSession, Relaying
<1>17. ASSUME NEW k \in Internals, RegisterInternal(k) \/ UnregisterInternal(k)
       PROVE  TypeInd'
  BY <1>17 DEF RegisterInternal, UnregisterInternal
<1>18. CASE StopClear \/ StopShutdown
  <2>1. CASE StopClear
    BY <2>1 DEF StopClear
  <2>2. CASE StopShutdown
    BY <2>2 DEF StopShutdown
  <2>3. QED
    BY <1>18, <2>1, <2>2
<1>19. CASE UNCHANGED vars
  BY <1>19 DEF vars
<1>20. QED
  BY <1>1, <1>2, <1>3, <1>4, <1>5, <1>6, <1>7, <1>8, <1>9, <1>10, <1>11, <1>12, <1>13,
     <1>14, <1>15, <1>16, <1>17, <1>18, <1>19
     DEF Next, HandlerStep, ClientStep, BridgeStep, Handshake, Leave, Relay, Procs

\* The model's state keeps its types, and relay never writes to a nil peer.
THEOREM TypeCorrect == Spec => []TypeInv
<1>1. TypeInd => TypeInv
  BY DEF TypeInd, TypeInv
<1>2. QED
  BY <1>1, TypeInit, TypeNext, PTL DEF Spec

(***************************************************************************)
(* The registry.                                                           *)
(***************************************************************************)
RegistryInv == LiveSessionIsRegistered /\ EntriesMatchKeys

\* A step that starts no session, revives no context and leaves the registry
\* and the authenticated keys alone.
Quiet == /\ UNCHANGED <<peers, pubKey>>
         /\ \A c \in Conns : ctx'[c] = "live" => ctx[c] = "live"
         /\ \A c \in Conns : pc'[c] \in InSession => pc[c] \in InSession

LEMMA QuietKeepsRegistry == RegistryInv /\ Quiet => RegistryInv'
  BY DEF RegistryInv, LiveSessionIsRegistered, EntriesMatchKeys, Quiet

\* relay moves a handler from one place of its session to another.
LEMMA RelayIsQuiet ==
  ASSUME TypeInd, NEW p \in Procs, Relay(p)
  PROVE  /\ Quiet
         /\ UNCHANGED <<phase, peers, internal, pubKey, ctx, link>>
         /\ \A q \in Procs \ {p} : pc'[q] = pc[q]
         /\ pc[p] \in Relaying
         /\ pc'[p] \in Relaying \cup {Caller(p)}
<1> USE DEF TypeInd, TypeOK, Quiet, Goto, Procs, InSession, Relaying, Caller, registry, wire
<1>1. CASE Track(p)
  BY <1>1 DEF Track
<1>2. CASE Lookup(p)
  BY <1>2 DEF Lookup
<1>3. CASE Send(p)
  BY <1>3 DEF Send, AfterSend, Finish
<1>4. CASE LookupInternal(p)
  <2>1. \/ pc' = [pc EXCEPT ![p] = "callback"]
        \/ pc' = [pc EXCEPT ![p] = Caller(p)]
    BY <1>4 DEF LookupInternal, Finish
  <2>2. UNCHANGED <<phase, peers, internal, pubKey, ctx, link>> /\ pc[p] = "internal"
    BY <1>4 DEF LookupInternal
  <2>3. QED
    BY <2>1, <2>2
<1>5. CASE Callback(p)
  BY <1>5 DEF Callback, Finish
<1>6. QED
  BY <1>1, <1>2, <1>3, <1>4, <1>5 DEF Relay

\* Every step but a login, the end of a session and the clearing of Stop is quiet.
LEMMA MostStepsAreQuiet ==
  ASSUME TypeInd, [Next]_vars
  PROVE  \/ Quiet
         \/ \E c \in Conns : Register(c) \/ Unregister(c)
                             \/ \E k \in Keys : Authenticate(c, k)
         \/ StopClear
<1> USE DEF TypeInd, TypeOK, Quiet, Goto, Procs, InSession, Relaying, registry, wire
<1>1. ASSUME NEW c \in Conns, ClientClose(c) \/ Stall(c) \/ CloseCancelled(c)
      PROVE  Quiet
  BY <1>1 DEF ClientClose, Stall, CloseCancelled
<1>2. ASSUME NEW c \in Conns, Accept(c) \/ ReadOther(c)
      PROVE  Quiet
  BY <1>2 DEF Accept, ReadOther
<1>3. ASSUME NEW c \in Conns, AuthReject(c) \/ AuthOkFail(c)
      PROVE  Quiet
  BY <1>3 DEF AuthReject, AuthOkFail, Return
<1>4. ASSUME NEW c \in Conns, AuthOk(c) \/ ReadError(c)
      PROVE  Quiet
  BY <1>4 DEF AuthOk, ReadError
<1>5. ASSUME NEW c \in Conns, Reply(c)
      PROVE  Quiet
  BY <1>5 DEF Reply
<1>6. ASSUME NEW c \in Conns, NEW from \in Keys, NEW to \in Keys, NEW type \in MsgTypes,
             ReadRelay(c, from, to, type)
      PROVE  Quiet
  BY <1>6 DEF ReadRelay
<1>7. ASSUME NEW b \in Bridges, NEW from \in Keys, NEW to \in Keys, NEW type \in MsgTypes,
             BridgeSend(b, from, to, type)
      PROVE  Quiet
  BY <1>7 DEF BridgeSend
<1>8. ASSUME NEW k \in Internals, RegisterInternal(k) \/ UnregisterInternal(k)
      PROVE  Quiet
  BY <1>8 DEF RegisterInternal, UnregisterInternal
<1>9. CASE StopShutdown \/ UNCHANGED vars
  BY <1>9 DEF StopShutdown, vars
<1>10. QED
  BY <1>1, <1>2, <1>3, <1>4, <1>5, <1>6, <1>7, <1>8, <1>9, RelayIsQuiet
     DEF Next, HandlerStep, ClientStep, BridgeStep, Handshake, Leave

LEMMA RegistryInit == Init => RegistryInv
  BY DEF Init, RegistryInv, LiveSessionIsRegistered, EntriesMatchKeys, Procs,
         InSession, Relaying

LEMMA RegistryNext == TypeInd /\ RegistryInv /\ [Next]_vars => RegistryInv'
<1> SUFFICES ASSUME TypeInd, RegistryInv, [Next]_vars PROVE RegistryInv'
  OBVIOUS
<1> USE DEF TypeInd, TypeOK, HasKey, RegistryInv, LiveSessionIsRegistered, EntriesMatchKeys,
            Goto, Procs
<1>1. CASE Quiet
  BY <1>1, QuietKeepsRegistry
<1>2. ASSUME NEW c \in Conns, Register(c)
      PROVE  RegistryInv'
  <2>1. pubKey[c] \in Keys /\ pubKey' = pubKey
    BY <1>2 DEF Register
  <2>2. EntriesMatchKeys'
    BY <1>2, <2>1 DEF Register
  <2>3. ASSUME NEW d \in Conns, pc'[d] \in InSession, ctx'[d] = "live"
        PROVE  peers'[pubKey'[d]] = d
    <3>1. CASE d = c
      BY <1>2, <2>1, <3>1 DEF Register
    <3>2. CASE d # c
      <4>1. pc[d] \in InSession /\ peers[pubKey[c]] # d /\ ctx[d] = "live"
        BY <1>2, <2>3, <3>2 DEF Register, CancelExisting
      <4>2. peers[pubKey[d]] = d
        BY <4>1
      <4>3. QED
        BY <1>2, <2>1, <4>1, <4>2 DEF Register
    <3>3. QED
      BY <3>1, <3>2
  <2>4. QED
    BY <2>2, <2>3
<1>3. ASSUME NEW c \in Conns, Unregister(c)
      PROVE  RegistryInv'
  <2>1. EntriesMatchKeys'
    BY <1>3 DEF Unregister, PeersWithout
  <2>2. ASSUME NEW d \in Conns, pc'[d] \in InSession, ctx'[d] = "live"
        PROVE  peers'[pubKey'[d]] = d
    <3>1. d # c /\ pc[d] \in InSession /\ ctx[d] = "live" /\ pubKey' = pubKey
      BY <1>3, <2>2 DEF Unregister, Return, InSession, Relaying
    <3>2. peers[pubKey[d]] = d
      BY <3>1
    <3>3. QED
      BY <1>3, <3>1, <3>2 DEF Unregister, PeersWithout
  <2>3. QED
    BY <2>1, <2>2
<1>4. ASSUME NEW c \in Conns, NEW k \in Keys, Authenticate(c, k)
      PROVE  RegistryInv'
  <2>1. pubKey[c] = None /\ pc' = [pc EXCEPT ![c] = "register"] /\ peers' = peers /\ ctx' = ctx
    BY <1>4 DEF Authenticate, registry
  <2>2. LiveSessionIsRegistered'
    BY <1>4, <2>1 DEF Authenticate, InSession, Relaying
  <2>3. EntriesMatchKeys'
    BY <1>4, <2>1 DEF Authenticate
  <2>4. QED
    BY <2>2, <2>3
<1>5. CASE StopClear
  <2>1. EntriesMatchKeys'
    BY <1>5 DEF StopClear
  <2>2. ASSUME NEW d \in Conns, pc'[d] \in InSession, ctx'[d] = "live"
        PROVE  FALSE
    <3>1. pc[d] \in InSession /\ ctx[d] = "live" /\ d \notin Registered
      BY <1>5, <2>2 DEF StopClear
    <3>2. peers[pubKey[d]] = d /\ pubKey[d] \in Keys
      BY <3>1
    <3>3. QED
      BY <3>1, <3>2 DEF Registered
  <2>3. QED
    BY <2>1, <2>2
<1>6. QED
  BY <1>1, <1>2, <1>3, <1>4, <1>5, MostStepsAreQuiet

\* A session whose context nobody cancelled is the one its key is registered
\* to: the clean-up of an older session never removes a newer one.
THEOREM LiveSessionsAreRegistered == Spec => [](LiveSessionIsRegistered /\ EntriesMatchKeys)
<1>1. Init => TypeInd /\ RegistryInv
  BY TypeInit, RegistryInit
<1>2. TypeInd /\ RegistryInv /\ [Next]_vars => (TypeInd /\ RegistryInv)'
  BY TypeNext, RegistryNext
<1>3. TypeInd /\ RegistryInv => LiveSessionIsRegistered /\ EntriesMatchKeys
  BY DEF RegistryInv
<1>4. QED
  BY <1>1, <1>2, <1>3, PTL DEF Spec

(***************************************************************************)
(* Signaling implements Presence.                                          *)
(***************************************************************************)
LEMMA PresenceInit == Init => P!Init
  BY DEF Init, P!Init, Opened, Ended, InSession, Relaying, Procs

\* A quiet step that ends no session and starts none is a stutter.
LEMMA SamePlacesStutter ==
  ASSUME UNCHANGED <<peers, pubKey>>,
         \A c \in Conns : /\ pc'[c] \in InSession <=> pc[c] \in InSession
                          /\ pc'[c] = "done" /\ pubKey[c] # None
                               <=> pc[c] = "done" /\ pubKey[c] # None
  PROVE  UNCHANGED P!vars
  BY DEF P!vars, Opened, Ended

\* A session that returns is over; one that was registered only by its own key
\* leaves the registry as End allows.
LEMMA ReturnIsEnd ==
  ASSUME TypeInd, NEW c \in Conns, pc[c] \in InSession, pubKey' = pubKey,
         pc' = [pc EXCEPT ![c] = "done"],
         \/ peers' = peers
         \/ peers' = [k \in Keys |-> IF peers[k] = c THEN None ELSE peers[k]]
  PROVE  P!End(c)
<1> USE DEF TypeInd, TypeOK, HasKey, Procs, InSession, Relaying
<1>1. pubKey[c] \in Keys /\ pc[c] # "done"
  OBVIOUS
<1>2. Ended' = Ended \cup {c} /\ c \notin Ended
  BY <1>1 DEF Ended
<1>3. Opened' = Opened /\ c \in Opened
  BY <1>1, <1>2 DEF Opened
<1>4. QED
  BY <1>2, <1>3 DEF P!End, P!Without

LEMMA PresenceNext == TypeInd /\ RegistryInv /\ [Next]_vars => [P!Next]_(P!vars)
<1> SUFFICES ASSUME TypeInd, RegistryInv, [Next]_vars PROVE P!Next \/ UNCHANGED P!vars
  OBVIOUS
<1> USE DEF TypeInd, TypeOK, HasKey, Goto, Procs, registry, wire
<1>1. ASSUME NEW c \in Conns, ClientClose(c) \/ Stall(c) \/ CloseCancelled(c)
      PROVE  UNCHANGED P!vars
  BY <1>1, SamePlacesStutter DEF ClientClose, Stall, CloseCancelled
<1>2. ASSUME NEW c \in Conns, Accept(c)
      PROVE  UNCHANGED P!vars
  BY <1>2, SamePlacesStutter DEF Accept, InSession, Relaying
<1>3. ASSUME NEW c \in Conns, AuthReject(c)
      PROVE  UNCHANGED P!vars
  BY <1>3, SamePlacesStutter DEF AuthReject, Return, InSession, Relaying
<1>4. ASSUME NEW c \in Conns, NEW k \in Keys, Authenticate(c, k)
      PROVE  UNCHANGED P!vars
  BY <1>4 DEF Authenticate, InSession, Relaying, P!vars, Opened, Ended
<1>5. ASSUME NEW c \in Conns, Register(c)
      PROVE  P!Next
  <2>1. pubKey[c] \in Keys /\ pc' = [pc EXCEPT ![c] = "authok"] /\ pubKey' = pubKey
        /\ pc[c] = "register"
    BY <1>5 DEF Register
  <2>2. Ended' = Ended
    BY <2>1 DEF Ended
  <2>3. Opened' = Opened \cup {c} /\ c \notin Opened
    BY <2>1, <2>2 DEF Opened, Ended, InSession, Relaying
  <2>4. P!Login(pubKey[c], c)
    BY <1>5, <2>2, <2>3 DEF Register, P!Login
  <2>5. QED
    BY <2>1, <2>4 DEF P!Next
<1>6. ASSUME NEW c \in Conns, AuthOkFail(c)
      PROVE  P!Next
  BY <1>6, ReturnIsEnd DEF AuthOkFail, Return, InSession, P!Next
<1>7. ASSUME NEW c \in Conns, Unregister(c)
      PROVE  P!Next
  <2>1. peers' = peers \/ peers' = [k \in Keys |-> IF peers[k] = c THEN None ELSE peers[k]]
    <3>1. pubKey[c] \in Keys /\ \A k \in Keys : peers[k] = c => pubKey[c] = k
      BY <1>7 DEF Unregister, RegistryInv, EntriesMatchKeys, InSession
    <3>2. CASE peers[pubKey[c]] = c
      <4>1. peers' = [peers EXCEPT ![pubKey[c]] = None]
        BY <1>7, <3>2 DEF Unregister, PeersWithout
      <4>2. QED
        BY <3>1, <3>2, <4>1
    <3>3. CASE peers[pubKey[c]] # c
      BY <1>7, <3>3 DEF Unregister, PeersWithout
    <3>4. QED
      BY <3>2, <3>3
  <2>2. QED
    BY <1>7, <2>1, ReturnIsEnd DEF Unregister, Return, InSession, P!Next
<1>8. ASSUME NEW c \in Conns, AuthOk(c) \/ ReadOther(c)
      PROVE  UNCHANGED P!vars
  BY <1>8, SamePlacesStutter DEF AuthOk, ReadOther, InSession, Relaying
<1>9. ASSUME NEW c \in Conns, Reply(c) \/ ReadError(c)
      PROVE  UNCHANGED P!vars
  BY <1>9, SamePlacesStutter DEF Reply, ReadError, InSession, Relaying
<1>10. ASSUME NEW c \in Conns, NEW from \in Keys, NEW to \in Keys, NEW type \in MsgTypes,
              ReadRelay(c, from, to, type)
       PROVE  UNCHANGED P!vars
  BY <1>10, SamePlacesStutter DEF ReadRelay, InSession, Relaying
<1>11. ASSUME NEW b \in Bridges, NEW from \in Keys, NEW to \in Keys, NEW type \in MsgTypes,
              BridgeSend(b, from, to, type)
       PROVE  UNCHANGED P!vars
  BY <1>11, SamePlacesStutter DEF BridgeSend
<1>12. ASSUME NEW p \in Procs, Relay(p)
       PROVE  UNCHANGED P!vars
  BY <1>12, RelayIsQuiet, SamePlacesStutter DEF Caller, InSession, Relaying
<1>13. ASSUME NEW k \in Internals, RegisterInternal(k) \/ UnregisterInternal(k)
       PROVE  UNCHANGED P!vars
  BY <1>13, SamePlacesStutter DEF RegisterInternal, UnregisterInternal
<1>14. CASE StopClear
  <2>1. Opened' = Opened /\ Ended' = Ended
    BY <1>14 DEF StopClear, Opened, Ended
  <2>2. P!Shutdown
    BY <1>14, <2>1 DEF StopClear, P!Shutdown
  <2>3. QED
    BY <2>2 DEF P!Next
<1>15. CASE StopShutdown \/ UNCHANGED vars
  BY <1>15, SamePlacesStutter DEF StopShutdown, vars
<1>16. QED
  BY <1>1, <1>2, <1>3, <1>4, <1>5, <1>6, <1>7, <1>8, <1>9, <1>10, <1>11, <1>12, <1>13,
     <1>14, <1>15
     DEF Next, HandlerStep, ClientStep, BridgeStep, Handshake, Leave

\* The registry behaves as Presence says: every step on it is one login, the
\* end of one session or a shutdown.
THEOREM ImplementsPresence == Spec => PresenceSpec
<1>1. Init => TypeInd /\ RegistryInv
  BY TypeInit, RegistryInit
<1>2. TypeInd /\ RegistryInv /\ [Next]_vars => (TypeInd /\ RegistryInv)'
  BY TypeNext, RegistryNext
<1>3. QED
  BY <1>1, <1>2, PresenceInit, PresenceNext, PTL DEF Spec, PresenceSpec, P!Spec

(***************************************************************************)
(* Delivery.                                                               *)
(***************************************************************************)

\* What is true of a frame relayed to a recipient of key k, where auth says
\* which key each connection has authenticated.
Good(f, k, auth) == f.to = k /\ (f.src \in Conns => f.from = auth[f.src])

AllGood(log, k, auth) == \A i \in DOMAIN log : Good(log[i], k, auth)

InboxGood   == \A c \in Conns : AllGood(inbox[c], pubKey[c], pubKey)
HandledGood == \A k \in Keys : AllGood(handled[k], k, pubKey)

\* A handler relays under the key it authenticated, to a connection of the
\* addressee even if that connection has been superseded meanwhile.
InFlightGood == /\ \A c \in Conns : pc[c] \in Relaying => msg[c].from = pubKey[c]
                /\ \A p \in Procs : pc[p] = "send" => pubKey[target[p]] = msg[p].to

DeliveryInv == InFlightGood /\ InboxGood /\ HandledGood

LEMMA DeliveryInit == Init => DeliveryInv
  BY DEF Init, DeliveryInv, InFlightGood, InboxGood, HandledGood, AllGood, Procs, Relaying

Auth == [Conns -> Keys \cup {None}]

\* Authenticating one more connection leaves good logs good.
LEMMA AllGoodStays ==
  ASSUME NEW auth \in Auth, NEW auth2 \in Auth,
         \A c \in Conns : auth[c] # None => auth2[c] = auth[c],
         NEW k, NEW log \in Seq(Frame), AllGood(log, k, auth)
  PROVE  AllGood(log, k, auth2)
<1>1. ASSUME NEW i \in DOMAIN log PROVE Good(log[i], k, auth2)
  <2>1. log[i] \in Frame /\ Good(log[i], k, auth)
    BY DEF AllGood
  <2>2. log[i].from \in Keys
    BY <2>1 DEF Frame
  <2>3. QED
    BY <2>1, <2>2 DEF Good
<1>2. QED
  BY <1>1 DEF AllGood

\* A log whose recipient has not authenticated holds no relayed frame.
LEMMA NoKeyNoFrames ==
  ASSUME NEW auth \in Auth, NEW log \in Seq(Frame), AllGood(log, None, auth),
         NEW k, NEW auth2
  PROVE  AllGood(log, k, auth2)
<1>1. ASSUME NEW i \in DOMAIN log PROVE FALSE
  <2>0. log[i] \in Frame
    BY <1>1
  <2>1. log[i].to \in Keys
    BY <2>0 DEF Frame
  <2>2. log[i].to = None
    BY <1>1 DEF AllGood, Good
  <2>3. QED
    BY <2>1, <2>2
<1>2. QED
  BY <1>1 DEF AllGood

LEMMA AppendGood ==
  ASSUME NEW auth \in Auth, NEW k, NEW log \in Seq(Frame), AllGood(log, k, auth),
         NEW f \in Frame, Good(f, k, auth)
  PROVE  AllGood(Append(log, f), k, auth)
<1>1. ASSUME NEW i \in DOMAIN Append(log, f) PROVE Good(Append(log, f)[i], k, auth)
  <2>1. CASE i \in DOMAIN log
    BY <2>1 DEF AllGood
  <2>2. CASE i = Len(log) + 1
    BY <2>2
  <2>3. QED
    BY <2>1, <2>2
<1>2. QED
  BY <1>1 DEF AllGood

\* Writing a good frame keeps the inboxes good.
LEMMA DeliverGood ==
  ASSUME TypeInd, InboxGood, pubKey' = pubKey,
         NEW c \in Conns, NEW f \in Frame, Good(f, pubKey[c], pubKey), Deliver(c, f)
  PROVE  InboxGood'
<1> USE DEF TypeInd, TypeOK, Auth
<1>1. CASE link[c] = "open"
  <2>1. inbox' = [inbox EXCEPT ![c] = Append(inbox[c], f)]
    BY <1>1 DEF Deliver
  <2>2. ASSUME NEW d \in Conns PROVE AllGood(inbox'[d], pubKey[d], pubKey)
    <3>1. CASE d = c
      BY <2>1, <3>1, AppendGood DEF InboxGood
    <3>2. CASE d # c
      BY <2>1, <3>2 DEF InboxGood
    <3>3. QED
      BY <3>1, <3>2
  <2>3. QED
    BY <2>2 DEF InboxGood
<1>2. CASE link[c] # "open"
  BY <1>2 DEF Deliver, InboxGood
<1>3. QED
  BY <1>1, <1>2

\* A step that delivers nothing and authenticates nobody.
LEMMA SameLogs ==
  ASSUME DeliveryInv, InFlightGood', UNCHANGED <<pubKey, inbox, handled>>
  PROVE  DeliveryInv'
  BY DEF DeliveryInv, InboxGood, HandledGood

\* ... and that starts no relay and moves none.
LEMMA SameInFlight ==
  ASSUME InFlightGood, UNCHANGED <<pubKey, msg, target>>,
         \A p \in Procs : pc'[p] \in Relaying => pc'[p] = pc[p]
  PROVE  InFlightGood'
  BY DEF InFlightGood, Procs, Relaying

LEMMA DeliveryNext == TypeInd /\ EntriesMatchKeys /\ DeliveryInv /\ [Next]_vars => DeliveryInv'
<1> SUFFICES ASSUME TypeInd, EntriesMatchKeys, DeliveryInv, [Next]_vars PROVE DeliveryInv'
  OBVIOUS
<1> USE DEF TypeInd, TypeOK, Carries, HasKey, Goto, Procs, registry, wire
<1>1. ASSUME NEW c \in Conns, ClientClose(c) \/ Stall(c) \/ CloseCancelled(c)
      PROVE  DeliveryInv'
  BY <1>1, SameLogs, SameInFlight DEF ClientClose, Stall, CloseCancelled, DeliveryInv
<1>2. ASSUME NEW c \in Conns, Accept(c) \/ Register(c)
      PROVE  DeliveryInv'
  BY <1>2, SameLogs, SameInFlight DEF Accept, Register, DeliveryInv, Relaying
<1>3. ASSUME NEW c \in Conns, AuthReject(c) \/ AuthOkFail(c) \/ Unregister(c)
      PROVE  DeliveryInv'
  BY <1>3, SameLogs, SameInFlight
     DEF AuthReject, AuthOkFail, Unregister, Return, DeliveryInv, Relaying
<1>4. ASSUME NEW c \in Conns, ReadOther(c) \/ ReadError(c)
      PROVE  DeliveryInv'
  BY <1>4, SameLogs, SameInFlight DEF ReadOther, ReadError, DeliveryInv, Relaying
<1>5. ASSUME NEW c \in Conns, NEW k \in Keys, Authenticate(c, k)
      PROVE  DeliveryInv'
  <2>1. pubKey[c] = None /\ pubKey' = [pubKey EXCEPT ![c] = k] /\ k # None
        /\ inbox' = inbox /\ handled' = handled /\ msg' = msg /\ target' = target
        /\ pc' = [pc EXCEPT ![c] = "register"] /\ pubKey \in Auth /\ pubKey' \in Auth
    BY <1>5 DEF Authenticate, Auth
  <2>2. \A d \in Conns : pubKey[d] # None => pubKey'[d] = pubKey[d]
    BY <2>1
  <2>3. ASSUME NEW d \in Conns PROVE AllGood(inbox[d], pubKey'[d], pubKey')
    <3>1. AllGood(inbox[d], pubKey[d], pubKey)
      BY DEF DeliveryInv, InboxGood
    <3>2. CASE d = c
      BY <2>1, <3>1, <3>2, NoKeyNoFrames
    <3>3. CASE d # c
      <4>1. inbox[d] \in Seq(Frame) /\ pubKey'[d] = pubKey[d]
        BY <2>1, <3>3
      <4>2. AllGood(inbox[d], pubKey[d], pubKey')
        BY <2>1, <2>2, <3>1, <4>1, AllGoodStays
      <4>3. QED
        BY <4>1, <4>2
    <3>4. QED
      BY <3>2, <3>3
  <2>4. \A j \in Keys : AllGood(handled[j], j, pubKey')
    BY <2>1, <2>2, AllGoodStays DEF DeliveryInv, HandledGood
  <2>5. \A p \in Procs : pc[p] = "send" => pubKey[target[p]] # None
    <3>1. ASSUME NEW p \in Procs, pc[p] = "send" PROVE pubKey[target[p]] # None
      <4>1. msg[p].to \in Keys
        BY <3>1 DEF Relaying, Frame
      <4>2. QED
        BY <3>1, <4>1 DEF DeliveryInv, InFlightGood
    <3>2. QED
      BY <3>1
  <2>6. InFlightGood'
    BY <1>5, <2>1, <2>2, <2>5 DEF Authenticate, DeliveryInv, InFlightGood, InSession, Relaying
  <2>7. QED
    BY <2>1, <2>3, <2>4, <2>6 DEF DeliveryInv, InboxGood, HandledGood
<1>6. ASSUME NEW c \in Conns, AuthOk(c)
      PROVE  DeliveryInv'
  BY <1>6, SameLogs, SameInFlight DEF AuthOk, DeliveryInv, Relaying
<1>7. ASSUME NEW c \in Conns, Reply(c)
      PROVE  DeliveryInv'
  BY <1>7, SameLogs, SameInFlight DEF Reply, DeliveryInv, Relaying
<1>8. ASSUME NEW c \in Conns, NEW from \in Keys, NEW to \in Keys, NEW type \in MsgTypes,
             ReadRelay(c, from, to, type)
      PROVE  DeliveryInv'
  <2>1. msg'[c].from = pubKey[c] /\ UNCHANGED <<pubKey, target, inbox, handled>>
        /\ pc' = [pc EXCEPT ![c] = "track"] /\ \A p \in Procs \ {c} : msg'[p] = msg[p]
    BY <1>8 DEF ReadRelay, EnforcedFrom
  <2>2. InFlightGood'
    BY <2>1 DEF DeliveryInv, InFlightGood
  <2>3. QED
    BY <2>1, <2>2, SameLogs
<1>9. ASSUME NEW b \in Bridges, NEW from \in Keys, NEW to \in Keys, NEW type \in MsgTypes,
             BridgeSend(b, from, to, type)
      PROVE  DeliveryInv'
  <2>1. UNCHANGED <<pubKey, target, inbox, handled>>
        /\ pc' = [pc EXCEPT ![b] = "track"] /\ \A p \in Procs \ {b} : msg'[p] = msg[p]
    BY <1>9 DEF BridgeSend
  <2>2. InFlightGood'
    BY <2>1 DEF DeliveryInv, InFlightGood
  <2>3. QED
    BY <2>1, <2>2, SameLogs
<1>10. ASSUME NEW p \in Procs, Track(p)
       PROVE  DeliveryInv'
  <2>1. InFlightGood'
    BY <1>10 DEF Track, DeliveryInv, InFlightGood, Relaying
  <2>2. QED
    BY <1>10, <2>1, SameLogs DEF Track
<1>11. ASSUME NEW p \in Procs, Lookup(p)
       PROVE  DeliveryInv'
  <2>1. msg[p].to \in Keys /\ pc[p] = "lookup"
    BY <1>11 DEF Lookup, Relaying, Frame
  <2>2. peers[msg[p].to] # None => pubKey[peers[msg[p].to]] = msg[p].to
    BY <2>1 DEF EntriesMatchKeys
  <2>3. InFlightGood'
    BY <1>11, <2>1, <2>2 DEF Lookup, DeliveryInv, InFlightGood, Relaying
  <2>4. QED
    BY <1>11, <2>3, SameLogs DEF Lookup
<1>12. ASSUME NEW p \in Procs, Finish(p), pubKey' = pubKey
       PROVE  InFlightGood'
  BY <1>12 DEF Finish, Caller, DeliveryInv, InFlightGood, Relaying
<1>13. ASSUME NEW p \in Procs, pc[p] \in Relaying
       PROVE  Good(msg[p], msg[p].to, pubKey)
  BY <1>13 DEF Good, DeliveryInv, InFlightGood
<1>14. ASSUME NEW p \in Procs, Send(p)
       PROVE  DeliveryInv'
  <2>1. target[p] \in Conns /\ msg[p] \in Frame /\ pubKey[target[p]] = msg[p].to
        /\ pc[p] \in Relaying
    BY <1>14 DEF Send, DeliveryInv, InFlightGood, Relaying
  <2>2. InboxGood'
    BY <1>14, <1>13, <2>1, DeliverGood DEF Send, DeliveryInv
  <2>3. InFlightGood'
    BY <1>12, <1>14 DEF Send, AfterSend
  <2>4. QED
    BY <1>14, <2>2, <2>3 DEF Send, DeliveryInv, HandledGood
<1>15. ASSUME NEW p \in Procs, LookupInternal(p)
       PROVE  DeliveryInv'
  <2>1. UNCHANGED <<pubKey, inbox, handled>> /\ pc[p] = "internal"
    BY <1>15 DEF LookupInternal
  <2>2. CASE pc' = [pc EXCEPT ![p] = "callback"] /\ UNCHANGED <<msg, target>>
    BY <2>1, <2>2, SameLogs DEF DeliveryInv, InFlightGood, Relaying
  <2>3. CASE Finish(p)
    BY <1>12, <2>1, <2>3, SameLogs
  <2>4. QED
    BY <1>15, <2>2, <2>3 DEF LookupInternal
<1>16. ASSUME NEW p \in Procs, Callback(p)
       PROVE  DeliveryInv'
  <2> DEFINE k == msg[p].to
  <2>1. k \in Keys /\ msg[p] \in Frame /\ pc[p] \in Relaying
        /\ handled' = [handled EXCEPT ![k] = Append(handled[k], msg[p])]
        /\ UNCHANGED <<pubKey, inbox>>
    BY <1>16 DEF Callback, Relaying, Frame
  <2>2. AllGood(handled'[k], k, pubKey)
    BY <1>13, <2>1, AppendGood DEF DeliveryInv, HandledGood, Auth
  <2>4. HandledGood'
    <3>1. ASSUME NEW j \in Keys PROVE AllGood(handled'[j], j, pubKey)
      <4>1. CASE j = k
        BY <2>2, <4>1
      <4>2. CASE j # k
        BY <2>1, <4>2 DEF DeliveryInv, HandledGood
      <4>3. QED
        BY <4>1, <4>2
    <3>2. QED
      BY <2>1, <3>1 DEF HandledGood
  <2>5. InFlightGood'
    BY <1>12, <1>16, <2>1 DEF Callback
  <2>6. QED
    BY <2>1, <2>4, <2>5 DEF DeliveryInv, InboxGood
<1>17. ASSUME NEW k \in Internals, RegisterInternal(k) \/ UnregisterInternal(k)
       PROVE  DeliveryInv'
  BY <1>17, SameLogs, SameInFlight DEF RegisterInternal, UnregisterInternal, DeliveryInv
<1>18. CASE StopClear \/ StopShutdown
  BY <1>18, SameLogs, SameInFlight DEF StopClear, StopShutdown, DeliveryInv
<1>19. CASE UNCHANGED vars
  BY <1>19, SameLogs, SameInFlight DEF vars, DeliveryInv
<1>20. QED
  BY <1>1, <1>2, <1>3, <1>4, <1>5, <1>6, <1>7, <1>8, <1>9, <1>10, <1>11, <1>14, <1>15,
     <1>16, <1>17, <1>18, <1>19
     DEF Next, HandlerStep, ClientStep, BridgeStep, Handshake, Leave, Relay

\* A message reaches only recipients of the key it is addressed to, under the
\* key its sender authenticated, whatever happens between the lookup of the
\* recipient and the write to it.
THEOREM MessagesReachTheirAddressee == Spec => []DeliveredAsAddressed
<1>1. Init => TypeInd /\ RegistryInv /\ DeliveryInv
  BY TypeInit, RegistryInit, DeliveryInit
<1>2. TypeInd /\ RegistryInv /\ DeliveryInv /\ [Next]_vars
        => (TypeInd /\ RegistryInv /\ DeliveryInv)'
  BY TypeNext, RegistryNext, DeliveryNext DEF RegistryInv
<1>3. DeliveryInv => DeliveredAsAddressed
  BY DEF DeliveryInv, InboxGood, HandledGood, AllGood, Good, DeliveredAsAddressed
<1>4. QED
  BY <1>1, <1>2, <1>3, PTL DEF Spec

(***************************************************************************)
(* Order.  Every frame read or injected has a number of its own, and what  *)
(* a goroutine has in hand is newer than whatever of its own has arrived.  *)
(***************************************************************************)

\* Where frames arrive: the buffer of a connection, the handler of a key.
Spots   == (Conns \X {"inbox"}) \cup (Keys \X {"handled"})
Log(x)  == IF x[2] = "inbox" THEN inbox[x[1]] ELSE handled[x[1]]
InHand(p) == pc[p] \in Relaying

NumbersAreUsed == /\ \A x \in Spots : \A i \in DOMAIN Log(x) : Log(x)[i].n \in 1..sends
                  /\ \A p \in Procs : InHand(p) => msg[p].n \in 1..sends

OwnNumbers == \A p, q \in Procs : InHand(p) /\ InHand(q) /\ msg[p].n = msg[q].n => p = q

HandIsNewer ==
  \A p \in Procs : InHand(p) =>
    \A x \in Spots : \A i \in DOMAIN Log(x) :
      Log(x)[i].n # msg[p].n /\ (Log(x)[i].src = p => Log(x)[i].n < msg[p].n)

Ordered == \A x \in Spots : \A i, j \in DOMAIN Log(x) :
             i < j /\ Log(x)[i].src = Log(x)[j].src => Log(x)[i].n < Log(x)[j].n

OnePlace == \A x, y \in Spots : \A i \in DOMAIN Log(x), j \in DOMAIN Log(y) :
              Log(x)[i].n = Log(y)[j].n => x = y

OrderInv == NumbersAreUsed /\ OwnNumbers /\ HandIsNewer /\ Ordered /\ OnePlace

\* Nothing has arrived, and nobody relays.
LEMMA OrderInit == Init => OrderInv
<1> SUFFICES ASSUME Init PROVE OrderInv
  OBVIOUS
<1>1. \A x \in Spots : Log(x) = << >>
  BY DEF Init, Spots, Log
<1>2. \A p \in Procs : ~InHand(p)
  BY DEF Init, InHand, Procs, Relaying
<1>3. QED
  BY <1>1, <1>2 DEF OrderInv, NumbersAreUsed, OwnNumbers, HandIsNewer, Ordered, OnePlace

\* What arrives is a sequence of frames, and what is in hand is a frame.
LEMMA LogTypes ==
  ASSUME TypeInd
  PROVE  /\ sends \in Nat
         /\ \A x \in Spots : Log(x) \in Seq(Frame)
         /\ \A x \in Spots : \A i \in DOMAIN Log(x) : Log(x)[i].n \in Nat
         /\ \A p \in Procs : InHand(p) => msg[p] \in Frame /\ msg[p].n \in Nat /\ msg[p].src = p
<1>1. \A x \in Spots : Log(x) \in Seq(Frame)
  BY DEF TypeInd, TypeOK, Spots, Log
<1>2. \A f \in Frame : f.n \in Nat
  BY DEF Frame
<1>3. \A x \in Spots : \A i \in DOMAIN Log(x) : Log(x)[i] \in Frame
  BY <1>1
<1>4. QED
  BY <1>1, <1>2, <1>3 DEF TypeInd, TypeOK, Carries, InHand

(* What a step does to the frames: what a goroutine has in hand it keeps or lets
   go of, and then nothing more has arrived and nobody has taken anything up; or
   one goroutine takes up a frame with a number that nothing had before; or what
   one goroutine has in hand arrives in one place, and relay returns.           *)
Keeps(p) == InHand(p)' => InHand(p) /\ msg'[p] = msg[p]

Calm == /\ UNCHANGED <<inbox, handled, sends>>
        /\ \A p \in Procs : Keeps(p)

TakeUp(p) == /\ UNCHANGED <<inbox, handled>>
             /\ ~InHand(p) /\ pc'[p] = "track"
             /\ sends' = sends + 1 /\ msg'[p].n = sends + 1
             /\ \A q \in Procs \ {p} : Keeps(q)

Arrive(p, x) == /\ sends' = sends
                /\ InHand(p) /\ ~InHand(p)'
                /\ \A y \in Spots : Log(y)' = IF y = x THEN Append(Log(x), msg[p]) ELSE Log(y)
                /\ \A q \in Procs \ {p} : Keeps(q)

LEMMA OrderCalm ==
  ASSUME OrderInv, Calm
  PROVE  OrderInv'
<1> USE DEF Calm, Keeps
<1>1. \A x \in Spots : Log(x)' = Log(x)
  BY DEF Log
<1>2. QED
  BY <1>1 DEF OrderInv, NumbersAreUsed, OwnNumbers, HandIsNewer, Ordered, OnePlace

LEMMA OrderTake ==
  ASSUME TypeInd, OrderInv, NEW p \in Procs, TakeUp(p)
  PROVE  OrderInv'
<1> USE DEF TakeUp, Keeps
<1>0. InHand(p)'
  BY DEF InHand, Relaying
<1>1. \A x \in Spots : Log(x)' = Log(x)
  BY DEF Log
<1>2. NumbersAreUsed'
  BY <1>0, <1>1, LogTypes DEF OrderInv, NumbersAreUsed
<1>3. OwnNumbers'
  <2>1. \A q \in Procs \ {p} : InHand(q)' => msg'[q].n # sends + 1
    BY LogTypes DEF OrderInv, NumbersAreUsed
  <2>2. QED
    BY <1>0, <2>1 DEF OrderInv, OwnNumbers
<1>4. HandIsNewer'
  <2>1. \A x \in Spots : \A i \in DOMAIN Log(x) : Log(x)[i].n < sends + 1
    BY LogTypes DEF OrderInv, NumbersAreUsed
  <2>2. \A x \in Spots : \A i \in DOMAIN Log(x) : Log(x)[i].n # sends + 1
    BY <2>1, LogTypes
  <2>3. QED
    BY <1>0, <1>1, <2>1, <2>2 DEF OrderInv, HandIsNewer
<1>5. QED
  BY <1>1, <1>2, <1>3, <1>4 DEF OrderInv, Ordered, OnePlace

LEMMA OrderArrive ==
  ASSUME TypeInd, OrderInv, NEW p \in Procs, NEW x \in Spots, Arrive(p, x)
  PROVE  OrderInv'
<1> USE DEF Arrive, Keeps
<1> DEFINE f == msg[p]
           last == Len(Log(x)) + 1
<1>1. f \in Frame /\ f.n \in Nat /\ f.src = p /\ f.n <= sends
  BY LogTypes DEF OrderInv, NumbersAreUsed
<1>2. ASSUME NEW y \in Spots, NEW i \in DOMAIN Log(y)'
      PROVE  \/ i \in DOMAIN Log(y) /\ Log(y)'[i] = Log(y)[i] /\ (y = x => i < last)
             \/ y = x /\ i = last /\ Log(y)'[i] = f
  <2>1. CASE y = x
    <3>1. Log(x) \in Seq(Frame) /\ Log(x)' = Append(Log(x), f)
      BY LogTypes
    <3>2. i \in 1..last
      BY <1>2, <2>1, <3>1, <1>1
    <3>3. QED
      BY <2>1, <3>1, <3>2, <1>1
  <2>2. CASE y # x
    BY <2>2
  <2>3. QED
    BY <2>1, <2>2
<1>3. \A y \in Spots : \A i \in DOMAIN Log(y) :
        Log(y)[i].n # f.n /\ (Log(y)[i].src = p => Log(y)[i].n < f.n)
  BY DEF OrderInv, HandIsNewer
<1>4. NumbersAreUsed'
  BY <1>1, <1>2 DEF OrderInv, NumbersAreUsed
<1>5. OwnNumbers'
  BY DEF OrderInv, OwnNumbers
<1>6. HandIsNewer'
  <2> SUFFICES ASSUME NEW q \in Procs, InHand(q)', NEW y \in Spots, NEW i \in DOMAIN Log(y)'
               PROVE  /\ Log(y)'[i].n # msg'[q].n
                      /\ Log(y)'[i].src = q => Log(y)'[i].n < msg'[q].n
    BY DEF HandIsNewer
  <2>1. q # p /\ InHand(q) /\ msg'[q] = msg[q]
    OBVIOUS
  <2>2. msg[q].n # f.n
    BY <2>1 DEF OrderInv, OwnNumbers
  <2>3. QED
    BY <1>1, <1>2, <2>1, <2>2 DEF OrderInv, HandIsNewer
<1>7. Ordered'
  <2> SUFFICES ASSUME NEW y \in Spots, NEW i \in DOMAIN Log(y)', NEW j \in DOMAIN Log(y)',
                      i < j, Log(y)'[i].src = Log(y)'[j].src
               PROVE  Log(y)'[i].n < Log(y)'[j].n
    BY DEF Ordered
  <2>1. CASE j \in DOMAIN Log(y) /\ Log(y)'[j] = Log(y)[j] /\ (y = x => j < last)
    <3>1. i \in DOMAIN Log(y) /\ Log(y)'[i] = Log(y)[i]
      <4>1. ~(y = x /\ i = last)
        BY <2>1, LogTypes
      <4>2. QED
        BY <1>2, <4>1
    <3>2. QED
      BY <2>1, <3>1 DEF OrderInv, Ordered
  <2>2. CASE y = x /\ j = last /\ Log(y)'[j] = f
    <3>1. i \in DOMAIN Log(y) /\ Log(y)'[i] = Log(y)[i]
      <4>1. last \in Nat
        BY LogTypes
      <4>2. i # last
        BY <2>2, <4>1
      <4>3. QED
        BY <1>2, <4>2
    <3>2. QED
      BY <1>1, <1>3, <2>2, <3>1
  <2>3. QED
    BY <1>2, <2>1, <2>2
<1>8. OnePlace'
  <2> SUFFICES ASSUME NEW y \in Spots, NEW z \in Spots,
                      NEW i \in DOMAIN Log(y)', NEW j \in DOMAIN Log(z)',
                      Log(y)'[i].n = Log(z)'[j].n
               PROVE  y = z
    BY DEF OnePlace
  <2>1. QED
    BY <1>2, <1>3 DEF OrderInv, OnePlace
<1>9. QED
  BY <1>4, <1>5, <1>6, <1>7, <1>8 DEF OrderInv

\* Every step is one of the three kinds.
LEMMA KindsOfStep ==
  ASSUME TypeInd, [Next]_vars
  PROVE  \/ Calm
         \/ \E p \in Procs : TakeUp(p)
         \/ \E p \in Procs, x \in Spots : Arrive(p, x)
<1> DEFINE Kind == \/ Calm
                   \/ \E p \in Procs : TakeUp(p)
                   \/ \E p \in Procs, x \in Spots : Arrive(p, x)
<1> USE DEF InHand, Keeps, Goto, registry, wire
<1>0. pc \in [Procs -> Places] /\ msg \in [Procs -> Frame \cup {None}] /\ Conns \subseteq Procs
      /\ inbox \in [Conns -> Seq(Frame)] /\ handled \in [Keys -> Seq(Frame)]
  BY DEF TypeInd, TypeOK, Procs
<1>1. ASSUME NEW c \in Conns, \/ ClientClose(c) \/ Stall(c) \/ CloseCancelled(c)
                              \/ Accept(c) \/ Register(c) \/ AuthReject(c) \/ AuthOkFail(c)
                              \/ Unregister(c) \/ ReadOther(c) \/ ReadError(c) \/ AuthOk(c)
                              \/ Reply(c) \/ \E k \in Keys : Authenticate(c, k)
      PROVE  Kind
  <2>1. UNCHANGED <<inbox, handled, sends, msg>>
    BY <1>1 DEF ClientClose, Stall, CloseCancelled, Accept, Register, AuthReject, AuthOkFail,
         Unregister, ReadOther, ReadError, AuthOk, Reply, Authenticate
  <2>2. pc' = pc \/ \E place \in Places \ Relaying : pc' = [pc EXCEPT ![c] = place]
    BY <1>1 DEF ClientClose, Stall, CloseCancelled, Accept, Register, AuthReject, AuthOkFail,
         Unregister, ReadOther, ReadError, AuthOk, Reply, Authenticate, Return, Places, InSession,
         Relaying
  <2>3. \A p \in Procs : InHand(p)' => InHand(p) /\ msg'[p] = msg[p]
    BY <1>0, <2>1, <2>2
  <2>4. QED
    BY <2>1, <2>3 DEF Calm
<1>2. ASSUME NEW p \in Procs, NEW f \in Frame, f.n = sends + 1, sends' = sends + 1,
             pc[p] \in {"reading", "idle"}, pc' = [pc EXCEPT ![p] = "track"],
             msg' = [msg EXCEPT ![p] = f], UNCHANGED <<inbox, handled>>
      PROVE  Kind
  <2>1. ~InHand(p) /\ pc'[p] = "track" /\ msg'[p].n = sends + 1
    BY <1>0, <1>2 DEF Relaying
  <2>2. \A q \in Procs \ {p} : InHand(q)' => InHand(q) /\ msg'[q] = msg[q]
    BY <1>0, <1>2
  <2>3. QED
    BY <1>2, <2>1, <2>2 DEF TakeUp
<1>3. ASSUME NEW c \in Conns, NEW from \in Keys, NEW to \in Keys, NEW type \in MsgTypes,
             ReadRelay(c, from, to, type)
      PROVE  Kind
  <2> DEFINE f == [type |-> type, src |-> c, n |-> sends + 1, from |-> pubKey[c], to |-> to]
  <2>1. f \in Frame /\ f.n = sends + 1
    BY <1>0, <1>3 DEF ReadRelay, TypeInd, TypeOK, HasKey, InSession, Frame
  <2>2. QED
    BY <1>0, <1>2, <1>3, <2>1 DEF ReadRelay, EnforcedFrom
<1>4. ASSUME NEW b \in Bridges, NEW from \in Keys, NEW to \in Keys, NEW type \in MsgTypes,
             BridgeSend(b, from, to, type)
      PROVE  Kind
  <2> DEFINE f == [type |-> type, src |-> b, n |-> sends + 1, from |-> from, to |-> to]
  <2>1. f \in Frame /\ f.n = sends + 1 /\ b \in Procs
    BY DEF TypeInd, TypeOK, Frame, Procs
  <2>2. QED
    BY <1>2, <1>4, <2>1 DEF BridgeSend
<1>5. ASSUME NEW p \in Procs, Track(p) \/ Lookup(p)
      PROVE  Kind
  <2>1. UNCHANGED <<inbox, handled, sends, msg>> /\ InHand(p)
    BY <1>5 DEF Track, Lookup, Relaying
  <2>2. \A q \in Procs : InHand(q)' => InHand(q) /\ msg'[q] = msg[q]
    BY <1>0, <1>5, <2>1 DEF Track, Lookup
  <2>3. QED
    BY <2>1, <2>2 DEF Calm
<1>6. ASSUME NEW p \in Procs, Finish(p)
      PROVE  ~InHand(p)' /\ \A q \in Procs \ {p} : InHand(q)' => InHand(q) /\ msg'[q] = msg[q]
  BY <1>0, <1>6 DEF Finish, Caller, Relaying
<1>7. ASSUME NEW p \in Procs, LookupInternal(p)
      PROVE  Kind
  <2>1. UNCHANGED <<inbox, handled, sends>> /\ InHand(p)
    BY <1>7 DEF LookupInternal, Relaying
  <2>2. \A q \in Procs : InHand(q)' => InHand(q) /\ msg'[q] = msg[q]
    <3>1. CASE pc' = [pc EXCEPT ![p] = "callback"] /\ UNCHANGED <<msg, target>>
      BY <1>0, <2>1, <3>1
    <3>2. CASE Finish(p)
      BY <1>6, <3>2
    <3>3. QED
      BY <1>7, <3>1, <3>2 DEF LookupInternal
  <2>3. QED
    BY <2>1, <2>2 DEF Calm
<1>8. ASSUME NEW p \in Procs, Send(p)
      PROVE  Kind
  <2>1. /\ target[p] \in Conns /\ InHand(p) /\ Finish(p) /\ UNCHANGED <<handled, sends>>
        /\ Deliver(target[p], msg[p])
    BY <1>8 DEF Send, AfterSend, TypeInd, TypeOK, Relaying
  <2>2. CASE link[target[p]] = "open"
    <3>1. <<target[p], "inbox">> \in Spots
      BY <2>1 DEF Spots
    <3>2. inbox' = [inbox EXCEPT ![target[p]] = Append(inbox[target[p]], msg[p])]
      BY <2>1, <2>2 DEF Deliver
    <3>3. \A y \in Spots : Log(y)' = IF y = <<target[p], "inbox">>
                                     THEN Append(Log(<<target[p], "inbox">>), msg[p]) ELSE Log(y)
      BY <1>0, <2>1, <3>2 DEF Spots, Log
    <3>4. QED
      BY <1>6, <2>1, <3>1, <3>3 DEF Arrive
  <2>3. CASE link[target[p]] # "open"
    <3>1. inbox' = inbox
      BY <2>1, <2>3 DEF Deliver
    <3>2. QED
      BY <1>6, <2>1, <3>1 DEF Calm
  <2>4. QED
    BY <2>2, <2>3
<1>9. ASSUME NEW p \in Procs, Callback(p)
      PROVE  Kind
  <2> DEFINE k == msg[p].to
  <2>1. InHand(p) /\ Finish(p) /\ UNCHANGED <<inbox, sends>>
    BY <1>9 DEF Callback, Relaying
  <2>2. k \in Keys
    BY <2>1, LogTypes DEF Frame
  <2>3. <<k, "handled">> \in Spots
    BY <2>2 DEF Spots
  <2>4. handled' = [handled EXCEPT ![k] = Append(handled[k], msg[p])]
    BY <1>9 DEF Callback
  <2>5. \A y \in Spots : Log(y)' = IF y = <<k, "handled">>
                                   THEN Append(Log(<<k, "handled">>), msg[p]) ELSE Log(y)
    BY <1>0, <2>1, <2>2, <2>4 DEF Spots, Log
  <2>6. QED
    BY <1>6, <2>1, <2>3, <2>5 DEF Arrive
<1>10. CASE \/ \E k \in Internals : RegisterInternal(k) \/ UnregisterInternal(k)
            \/ StopClear \/ StopShutdown \/ UNCHANGED vars
  <2>1. UNCHANGED <<inbox, handled, sends, msg, pc>>
    BY <1>10 DEF RegisterInternal, UnregisterInternal, StopClear, StopShutdown, vars
  <2>2. QED
    BY <2>1 DEF Calm
<1>11. QED
  BY <1>0, <1>1, <1>3, <1>4, <1>5, <1>7, <1>8, <1>9, <1>10
     DEF Next, HandlerStep, ClientStep, BridgeStep, Handshake, Leave, Relay, Procs

LEMMA OrderNext == TypeInd /\ OrderInv /\ [Next]_vars => OrderInv'
BY KindsOfStep, OrderCalm, OrderTake, OrderArrive

\* A message arrives in at most one place, and the messages of one sender arrive
\* at each place in the order in which it sent them, for any number of senders that
\* relay at once (signaling.go:312-330).
THEOREM MessagesArriveOnceInOrder == Spec => []RelayedOnceInOrder
<1>1. OrderInv => RelayedOnceInOrder
  <2> SUFFICES ASSUME OrderInv PROVE RelayedOnceInOrder
    OBVIOUS
  <2> DEFINE Spot(x) == IF x \in Conns THEN <<x, "inbox">> ELSE <<x, "handled">>
             Arrived(x) == IF x \in Conns THEN inbox[x] ELSE handled[x]
  <2>1. \A x \in Conns \cup Keys : Spot(x) \in Spots /\ Log(Spot(x)) = Arrived(x)
    BY DEF Spots, Log
  <2>2. \A x, y : Spot(x) = Spot(y) => x = y
    OBVIOUS
  <2>3. ASSUME NEW x \in Conns \cup Keys, NEW i \in DOMAIN Arrived(x), NEW j \in DOMAIN Arrived(x),
               i < j, Arrived(x)[i].src = Arrived(x)[j].src
        PROVE  Arrived(x)[i].n < Arrived(x)[j].n
    BY <2>1, <2>3 DEF OrderInv, Ordered
  <2>4. ASSUME NEW x \in Conns \cup Keys, NEW y \in Conns \cup Keys,
               NEW i \in DOMAIN Arrived(x), NEW j \in DOMAIN Arrived(y),
               Arrived(x)[i].n = Arrived(y)[j].n
        PROVE  x = y
    <3>1. Log(Spot(x))[i].n = Log(Spot(y))[j].n
      BY <2>1, <2>4
    <3>2. Spot(x) \in Spots /\ Spot(y) \in Spots /\ i \in DOMAIN Log(Spot(x)) /\ j \in DOMAIN Log(Spot(y))
      BY <2>1
    <3>3. Spot(x) = Spot(y)
      BY <3>1, <3>2 DEF OrderInv, OnePlace
    <3>4. QED
      BY <2>2, <3>3
  <2>5. QED
    BY <2>3, <2>4 DEF RelayedOnceInOrder
<1>2. QED
  BY <1>1, TypeInit, TypeNext, OrderInit, OrderNext, PTL DEF Spec

(***************************************************************************)
(* Liveness of a session that is over: its context is cancelled or its     *)
(* connection closed.  It is followed from place to place of its handler,  *)
(* for one connection c.                                                   *)
(***************************************************************************)
Leaving(c)   == ctx[c] = "cancelled" \/ link[c] = "closed"
At(c, place) == pc[c] = place /\ Leaving(c)
Ending(c)    == pc[c] \in InSession \ {"authok"} /\ Leaving(c)

Done(c)    == pc[c] = "done"
Absent(c)  == \A k \in Keys : peers[k] # c
AtTrack(c) == pc[c] = "track"

\* Where the handler waits for nobody, but for callMu; and where its read fails.
Ready(c) == \/ At(c, "authok") \/ At(c, "reply") \/ At(c, "unregister")
            \/ At(c, "lookup") \/ At(c, "internal") \/ At(c, "callback")
            \/ At(c, "send") /\ ~Blocked(c)

\* What is needed of the scheduler, in the terms of these places.
Proceeds(c) == /\ []<>~Ready(c) \/ []<><<HandlerStep(c)>>_vars
               /\ []<>At(c, "reading") => []<><<ReadError(c)>>_vars
               /\ []<>~AtTrack(c)

\* No other goroutine moves a handler, revives its context or opens its connection.
LEMMA SessionIsLeft ==
  ASSUME TypeInd, NEW c \in Conns, pc[c] \in InSession, [Next]_vars
  PROVE  /\ pc'[c] = pc[c] \/ HandlerStep(c) \/ ClientStep(c)
         /\ Leaving(c) => Leaving(c)'
         /\ ~Up(c) => ~Up(c)'
<1> USE DEF TypeInd, TypeOK, Procs, Goto, registry, wire, Leaving, Up, InSession, Relaying
<1>1. ASSUME NEW d \in Conns, Handshake(d) \/ Reply(d) \/ Leave(d)
      PROVE  /\ d # c => pc'[c] = pc[c]
             /\ Leaving(c) => Leaving(c)'
             /\ ~Up(c) => ~Up(c)'
  BY <1>1 DEF Handshake, Reply, Leave, Register, CancelExisting, AuthOk, AuthOkFail, Return,
       ReadError, Unregister, CloseCancelled
<1>2. ASSUME NEW d \in Conns, ClientStep(d)
      PROVE  /\ d # c => pc'[c] = pc[c]
             /\ Leaving(c) => Leaving(c)'
             /\ ~Up(c) => ~Up(c)'
  BY <1>2 DEF ClientStep, Accept, AuthReject, Return, ClientClose, Stall, Authenticate, ReadRelay, ReadOther
<1>3. ASSUME NEW p \in Procs, Relay(p)
      PROVE  /\ p # c => pc'[c] = pc[c]
             /\ Leaving(c) => Leaving(c)'
             /\ ~Up(c) => ~Up(c)'
  BY <1>3, RelayIsQuiet
<1>4. ASSUME \/ \E b \in Bridges, from \in Internals, to \in Keys, type \in MsgTypes :
                  BridgeSend(b, from, to, type)
             \/ \E k \in Internals : RegisterInternal(k) \/ UnregisterInternal(k)
             \/ StopClear \/ StopShutdown \/ UNCHANGED vars
      PROVE  /\ pc'[c] = pc[c]
             /\ Leaving(c) => Leaving(c)'
             /\ ~Up(c) => ~Up(c)'
  BY <1>4 DEF BridgeSend, RegisterInternal, UnregisterInternal, StopClear, StopShutdown, vars
<1>5. QED
  BY <1>1, <1>2, <1>3, <1>4 DEF Next, HandlerStep, BridgeStep

\* From each place of a session to the next.
Edges(c) ==
  /\ pc[c] = "authok"     => pc'[c] \in {"authok", "reading", "done"}
  /\ pc[c] = "reading"    => pc'[c] \in {"reading", "reply", "track", "unregister"}
  /\ pc[c] = "reply"      => pc'[c] \in {"reply", "reading"}
  /\ pc[c] = "track"      => pc'[c] \in {"track", "lookup"}
  /\ pc[c] = "lookup"     => pc'[c] \in {"lookup", "send", "internal"}
  /\ pc[c] = "send"       => pc'[c] \in {"send", "reading"}
  /\ pc[c] = "internal"   => pc'[c] \in {"internal", "callback", "reading"}
  /\ pc[c] = "callback"   => pc'[c] \in {"callback", "reading"}
  /\ pc[c] = "unregister" => pc'[c] \in {"unregister", "done"}

LEMMA SessionEdges ==
  ASSUME TypeInd, NEW c \in Conns, pc[c] \in InSession, [Next]_vars
  PROVE  Edges(c)
<1> USE DEF TypeInd, TypeOK, Procs, Goto, registry, wire, Edges
<1>1. ASSUME Handshake(c) \/ Reply(c) \/ Leave(c) PROVE Edges(c)
  BY <1>1 DEF Handshake, Reply, Leave, Register, AuthOk, AuthOkFail, Return,
       ReadError, Unregister, CloseCancelled
<1>2. ASSUME ClientStep(c) PROVE Edges(c)
  BY <1>2 DEF ClientStep, Accept, AuthReject, Return, ClientClose, Stall, Authenticate, ReadRelay,
       ReadOther, InSession, Relaying
<1>3. ASSUME Relay(c) PROVE Edges(c)
  <2>1. CASE Track(c) \/ Lookup(c)
    BY <2>1 DEF Track, Lookup
  <2>2. CASE Send(c) \/ Callback(c)
    BY <2>2 DEF Send, AfterSend, Callback, Finish, Caller
  <2>3. CASE LookupInternal(c)
    <3>1. pc' = [pc EXCEPT ![c] = "callback"] \/ pc' = [pc EXCEPT ![c] = "reading"]
      BY <2>3 DEF LookupInternal, Finish, Caller
    <3>2. QED
      BY <2>3, <3>1 DEF LookupInternal
  <2>4. QED
    BY <1>3, <2>1, <2>2, <2>3 DEF Relay
<1>4. CASE pc'[c] = pc[c]
  BY <1>4
<1>5. QED
  BY <1>1, <1>2, <1>3, <1>4, SessionIsLeft DEF HandlerStep

\* The handler's own steps move it on, but for the one that closes its connection;
\* and the deferred removal leaves no entry behind.
LEMMA HandlerMoves ==
  ASSUME TypeInd, RegistryInv, NEW c \in Conns, pc[c] \in InSession, HandlerStep(c)
  PROVE  /\ pc'[c] # pc[c] \/ (Up(c) /\ ~Up(c)' /\ pc[c] \in {"authok", "reading", "reply"})
         /\ pc[c] = "unregister" => Absent(c)'
<1> USE DEF TypeInd, TypeOK, HasKey, Procs, Goto, registry, wire, Up
<1>1. ASSUME Handshake(c) \/ Reply(c) \/ ReadError(c) \/ CloseCancelled(c)
      PROVE  /\ pc[c] # "unregister"
             /\ pc'[c] # pc[c] \/ (Up(c) /\ ~Up(c)' /\ pc[c] \in {"authok", "reading", "reply"})
  BY <1>1 DEF Handshake, Reply, Register, AuthOk, AuthOkFail, Return, ReadError, CloseCancelled,
       InSession, Relaying
<1>2. ASSUME Unregister(c) PROVE pc'[c] = "done" /\ pc[c] = "unregister" /\ Absent(c)'
  <2>1. pc' = [pc EXCEPT ![c] = "done"] /\ pc[c] = "unregister" /\ peers' = PeersWithout(c)
    BY <1>2 DEF Unregister, Return
  <2>2. pubKey[c] \in Keys
    BY <2>1 DEF InSession
  <2>3. ASSUME NEW k \in Keys PROVE peers'[k] # c
    <3>1. c # None
      BY NamesAreDistinct
    <3>2. CASE peers[k] = c
      <4>1. pubKey[c] = k
        BY <3>1, <3>2 DEF RegistryInv, EntriesMatchKeys
      <4>2. QED
        BY <2>1, <3>1, <3>2, <4>1 DEF PeersWithout
    <3>3. CASE peers[k] # c
      BY <2>1, <2>2, <3>1, <3>3 DEF PeersWithout
    <3>4. QED
      BY <3>2, <3>3
  <2>4. Absent(c)'
    BY <2>3 DEF Absent
  <2>5. QED
    BY <2>1, <2>4
<1>3. ASSUME Relay(c) PROVE pc'[c] # pc[c] /\ pc[c] # "unregister"
  <2>1. CASE Track(c) \/ Lookup(c)
    BY <2>1 DEF Track, Lookup
  <2>2. CASE Send(c) \/ Callback(c)
    BY <2>2 DEF Send, AfterSend, Callback, Finish, Caller
  <2>3. CASE LookupInternal(c)
    <3>1. pc' = [pc EXCEPT ![c] = "callback"] \/ pc' = [pc EXCEPT ![c] = "reading"]
      BY <2>3 DEF LookupInternal, Finish, Caller
    <3>2. QED
      BY <2>3, <3>1 DEF LookupInternal
  <2>4. QED
    BY <1>3, <2>1, <2>2, <2>3 DEF Relay
<1>4. QED
  BY <1>1, <1>2, <1>3 DEF HandlerStep, Leave

\* The steps of a session that is over, place by place.
LEMMA LeavingSteps ==
  ASSUME TypeInd, RegistryInv, NEW c \in Conns, [Next]_vars
  PROVE  /\ At(c, "authok")     => \/ At(c, "authok")' /\ (~Up(c) => ~Up(c)')
                                  \/ At(c, "reading")' \/ Done(c)'
         /\ At(c, "reading")    => \/ At(c, "reading")' \/ At(c, "reply")'
                                  \/ At(c, "track")' \/ At(c, "unregister")'
         /\ At(c, "reply")      => \/ At(c, "reply")' /\ (~Up(c) => ~Up(c)')
                                  \/ At(c, "reading")'
         /\ At(c, "track")      => At(c, "track")' \/ At(c, "lookup")'
         /\ At(c, "lookup")     => At(c, "lookup")' \/ At(c, "send")' \/ At(c, "internal")'
         /\ At(c, "send")       => At(c, "send")' \/ At(c, "reading")'
         /\ At(c, "internal")   => At(c, "internal")' \/ At(c, "callback")' \/ At(c, "reading")'
         /\ At(c, "callback")   => At(c, "callback")' \/ At(c, "reading")'
         /\ At(c, "unregister") => At(c, "unregister")' \/ Done(c)'
<1>1. pc[c] \in InSession => /\ Leaving(c) => Leaving(c)'
                             /\ ~Up(c) => ~Up(c)'
                             /\ Edges(c)
  BY SessionIsLeft, SessionEdges
<1>2. QED
  BY <1>1 DEF At, Done, Edges, InSession, Relaying

\* ... and of its handler.
LEMMA LeavingHandler ==
  ASSUME TypeInd, RegistryInv, NEW c \in Conns, HandlerStep(c)
  PROVE  /\ At(c, "authok")     => (At(c, "authok")' => Up(c) /\ ~Up(c)')
         /\ At(c, "reply")      => (At(c, "reply")' => Up(c) /\ ~Up(c)')
         /\ At(c, "track")      => ~At(c, "track")'
         /\ At(c, "lookup")     => ~At(c, "lookup")'
         /\ At(c, "send")       => ~At(c, "send")'
         /\ At(c, "internal")   => ~At(c, "internal")'
         /\ At(c, "callback")   => ~At(c, "callback")'
         /\ At(c, "unregister") => ~At(c, "unregister")' /\ Absent(c)'
<1>1. pc[c] \in InSession =>
        /\ pc'[c] # pc[c] \/ (Up(c) /\ ~Up(c)' /\ pc[c] \in {"authok", "reading", "reply"})
        /\ pc[c] = "unregister" => Absent(c)'
  BY HandlerMoves
<1>2. QED
  BY <1>1 DEF At, InSession, Relaying

LEMMA RegistryHolds == Spec => [](TypeInd /\ RegistryInv)
<1>1. Init => TypeInd /\ RegistryInv
  BY TypeInit, RegistryInit
<1>2. TypeInd /\ RegistryInv /\ [Next]_vars => (TypeInd /\ RegistryInv)'
  BY TypeNext, RegistryNext
<1>3. QED
  BY <1>1, <1>2, PTL DEF Spec

\* The reply is written, or fails.
LEMMA ReplyEnds ==
  ASSUME NEW c \in Conns
  PROVE  Spec /\ Proceeds(c) => (At(c, "reply") ~> At(c, "reading"))
<1>1. At(c, "reply") => Ready(c)
  BY DEF Ready
<1>2. TypeInd /\ RegistryInv /\ At(c, "reply") /\ [Next]_vars =>
        (At(c, "reply")' /\ (~Up(c) => ~Up(c)')) \/ At(c, "reading")'
  BY LeavingSteps
<1>3. TypeInd /\ RegistryInv /\ At(c, "reply") /\ <<HandlerStep(c)>>_vars =>
        (At(c, "reply")' => Up(c) /\ ~Up(c)')
  BY LeavingHandler
<1>4. QED
  BY <1>1, <1>2, <1>3, RegistryHolds, PTL DEF Spec, Proceeds

\* So is auth_ok.
LEMMA AuthOkEnds ==
  ASSUME NEW c \in Conns
  PROVE  Spec /\ Proceeds(c) => (At(c, "authok") ~> (At(c, "reading") \/ Done(c)))
<1>1. At(c, "authok") => Ready(c)
  BY DEF Ready
<1>2. TypeInd /\ RegistryInv /\ At(c, "authok") /\ [Next]_vars =>
        (At(c, "authok")' /\ (~Up(c) => ~Up(c)')) \/ At(c, "reading")' \/ Done(c)'
  BY LeavingSteps
<1>3. TypeInd /\ RegistryInv /\ At(c, "authok") /\ <<HandlerStep(c)>>_vars =>
        (At(c, "authok")' => Up(c) /\ ~Up(c)')
  BY LeavingHandler
<1>4. QED
  BY <1>1, <1>2, <1>3, RegistryHolds, PTL DEF Spec, Proceeds

\* A message in hand is passed on, unless its recipient does not read.
LEMMA RelayEnds ==
  ASSUME NEW c \in Conns
  PROVE  Spec /\ Proceeds(c) =>
           /\ At(c, "track") ~> At(c, "lookup")
           /\ At(c, "lookup") ~> (At(c, "send") \/ At(c, "internal"))
           /\ At(c, "internal") ~> (At(c, "callback") \/ At(c, "reading"))
           /\ At(c, "callback") ~> At(c, "reading")
           /\ At(c, "send") ~> (At(c, "reading") \/ Blocked(c))
<1>1. /\ At(c, "lookup") \/ At(c, "internal") \/ At(c, "callback") => Ready(c)
      /\ At(c, "send") => Ready(c) \/ Blocked(c)
      /\ At(c, "track") => AtTrack(c)
  BY DEF Ready, At, AtTrack
<1>2. TypeInd /\ RegistryInv /\ [Next]_vars =>
         /\ At(c, "track") => At(c, "track")' \/ At(c, "lookup")'
         /\ At(c, "lookup") => At(c, "lookup")' \/ At(c, "send")' \/ At(c, "internal")'
         /\ At(c, "internal") => At(c, "internal")' \/ At(c, "callback")' \/ At(c, "reading")'
         /\ At(c, "callback") => At(c, "callback")' \/ At(c, "reading")'
         /\ At(c, "send") => At(c, "send")' \/ At(c, "reading")'
  BY LeavingSteps
<1>3. TypeInd /\ RegistryInv /\ <<HandlerStep(c)>>_vars =>
         /\ At(c, "lookup") => ~At(c, "lookup")'
         /\ At(c, "internal") => ~At(c, "internal")'
         /\ At(c, "callback") => ~At(c, "callback")'
         /\ At(c, "send") => ~At(c, "send")'
  BY LeavingHandler
<1>4. QED
  BY <1>1, <1>2, <1>3, RegistryHolds, PTL DEF Spec, Proceeds

\* The removal from s.peers.
LEMMA UnregisterEnds ==
  ASSUME NEW c \in Conns
  PROVE  Spec /\ Proceeds(c) => (At(c, "unregister") ~> (Done(c) /\ Absent(c)))
<1>1. At(c, "unregister") => Ready(c)
  BY DEF Ready
<1>2. TypeInd /\ RegistryInv /\ At(c, "unregister") /\ [Next]_vars =>
        At(c, "unregister")' \/ (Done(c) /\ Absent(c))'
  <2> SUFFICES ASSUME TypeInd, RegistryInv, At(c, "unregister"), [Next]_vars, ~At(c, "unregister")'
               PROVE  Done(c)' /\ Absent(c)'
    OBVIOUS
  <2>1. Done(c)' /\ pc[c] = "unregister"
    BY LeavingSteps DEF At
  <2>2. ~ClientStep(c)
    BY <2>1 DEF TypeInd, TypeOK, Procs, Done, ClientStep, Accept, AuthReject, ClientClose, Stall,
         Authenticate, ReadRelay, ReadOther
  <2>3. HandlerStep(c)
    BY <2>1, <2>2, SessionIsLeft DEF Done, InSession
  <2>4. QED
    BY <2>1, <2>3, LeavingHandler
<1>3. TypeInd /\ RegistryInv /\ At(c, "unregister") /\ <<HandlerStep(c)>>_vars => ~At(c, "unregister")'
  BY LeavingHandler
<1>4. QED
  BY <1>1, <1>2, <1>3, RegistryHolds, PTL DEF Spec, Proceeds

\* A session that has come to its read loop and is over ends and leaves nothing in
\* s.peers, unless it is blocked.
LEMMA SessionEnds ==
  ASSUME NEW c \in Conns
  PROVE  Spec /\ Proceeds(c) => (Ending(c) ~> ((Done(c) /\ Absent(c)) \/ Blocked(c)))
<1>1. Ending(c) => \/ At(c, "reading") \/ At(c, "reply") \/ At(c, "unregister")
                      \/ At(c, "track") \/ At(c, "lookup") \/ At(c, "send")
                      \/ At(c, "internal") \/ At(c, "callback")
  BY DEF Ending, At, InSession, Relaying
<1>2. TypeInd /\ RegistryInv /\ At(c, "reading") /\ [Next]_vars =>
        At(c, "reading")' \/ At(c, "reply")' \/ At(c, "track")' \/ At(c, "unregister")'
  BY LeavingSteps
<1>3. TypeInd /\ <<ReadError(c)>>_vars => At(c, "unregister")'
  BY DEF ReadError, At, Leaving, Goto, TypeInd, TypeOK, Procs
<1>4. /\ Spec /\ Proceeds(c) => (At(c, "track") ~> At(c, "lookup"))
      /\ Spec /\ Proceeds(c) => (At(c, "lookup") ~> (At(c, "send") \/ At(c, "internal")))
      /\ Spec /\ Proceeds(c) => (At(c, "internal") ~> (At(c, "callback") \/ At(c, "reading")))
      /\ Spec /\ Proceeds(c) => (At(c, "callback") ~> At(c, "reading"))
      /\ Spec /\ Proceeds(c) => (At(c, "send") ~> (At(c, "reading") \/ Blocked(c)))
      /\ Spec /\ Proceeds(c) => (At(c, "reply") ~> At(c, "reading"))
      /\ Spec /\ Proceeds(c) => (At(c, "unregister") ~> (Done(c) /\ Absent(c)))
  BY RelayEnds, ReplyEnds, UnregisterEnds
<1>5. QED
  BY <1>1, <1>2, <1>3, <1>4, RegistryHolds, PTL DEF Spec, Proceeds

\* A superseded session is one whose context was cancelled.
LEMMA SupersededEnds ==
  ASSUME NEW c \in Conns
  PROVE  Spec /\ Proceeds(c) => (Superseded(c) ~> (pc[c] = "done" \/ Blocked(c)))
<1>1. TypeInd /\ RegistryInv /\ Superseded(c) => At(c, "authok") \/ Ending(c)
  BY DEF Superseded, TypeInd, TypeOK, RegistryInv, LiveSessionIsRegistered, At, Ending, Leaving
<1>2. At(c, "reading") => Ending(c)
  BY DEF At, Ending, InSession
<1>3. Done(c) => pc[c] = "done"
  BY DEF Done
<1>4. QED
  BY <1>1, <1>2, <1>3, AuthOkEnds, SessionEnds, RegistryHolds, PTL

\* A session whose connection is closed leaves no entry behind.
LEMMA DepartedIsAbsent ==
  ASSUME NEW c \in Conns
  PROVE  Spec /\ Proceeds(c) =>
           ((pc[c] \in InSession \ {"authok"} /\ link[c] = "closed")
              ~> ((\A k \in Keys : peers[k] # c) \/ Blocked(c)))
<1>1. pc[c] \in InSession \ {"authok"} /\ link[c] = "closed" => Ending(c)
  BY DEF Ending, Leaving
<1>2. Absent(c) => \A k \in Keys : peers[k] # c
  BY DEF Absent
<1>3. QED
  BY <1>1, <1>2, SessionEnds, PTL

(* Fairness speaks of ENABLED, which the prover cannot expand: that a handler can go
   on where it waits for nobody, and that a read under a cancelled context or of a
   closed connection can fail, is a hypothesis.                                    *)
StepIsEnabled(c)  == Ready(c) \/ AtTrack(c) => ENABLED <<HandlerStep(c)>>_vars
ErrorIsEnabled(c) == At(c, "reading") => ENABLED <<ReadError(c)>>_vars

CanGoOn == \A c \in Conns : StepIsEnabled(c) /\ ErrorIsEnabled(c)

LEMMA FairHandlersProceed ==
  ASSUME NEW c \in Conns
  PROVE  FairSpec /\ []CanGoOn => Spec /\ Proceeds(c)
<1>1. FairSpec => Spec /\ HandlerGoesOn(c) /\ ReadFails(c)
  BY DEF FairSpec
<1>2. CanGoOn => StepIsEnabled(c) /\ ErrorIsEnabled(c)
  BY DEF CanGoOn
<1>3. TypeInd /\ RegistryInv /\ AtTrack(c) /\ <<HandlerStep(c)>>_vars => ~AtTrack(c)'
  BY HandlerMoves DEF AtTrack, InSession, Relaying
<1>4. QED
  BY <1>1, <1>2, <1>3, RegistryHolds, PTL
     DEF Proceeds, HandlerGoesOn, ReadFails, StepIsEnabled, ErrorIsEnabled

\* A reconnect retires the handler it replaces, unless a recipient that does not read
\* holds it in a write (signaling.go:218-230, 251-261, 317).
THEOREM SupersededSessionsLeave == FairSpec /\ []CanGoOn => SupersededLeaves
<1>1. ASSUME NEW c \in Conns
      PROVE  FairSpec /\ []CanGoOn => (Superseded(c) ~> (pc[c] = "done" \/ Blocked(c)))
  BY FairHandlersProceed, SupersededEnds, PTL
<1>2. QED
  BY <1>1 DEF SupersededLeaves

\* A client that disconnects after its handshake stops being online, unless such a
\* recipient holds its handler (signaling.go:251-261).
THEOREM DeparturesAreNoticed == FairSpec /\ []CanGoOn => DepartureIsNoticed
<1>1. ASSUME NEW c \in Conns
      PROVE  FairSpec /\ []CanGoOn =>
               ((pc[c] \in InSession \ {"authok"} /\ link[c] = "closed")
                  ~> ((\A k \in Keys : peers[k] # c) \/ Blocked(c)))
  BY FairHandlersProceed, DepartedIsAbsent, PTL
<1>2. QED
  BY <1>1 DEF DepartureIsNoticed

(***************************************************************************)
(* The server with its call tracking implements both of the modules it is  *)
(* made of.  So what is proved of Signaling and of CallTracking alone      *)
(* holds of the server in which they run together.                         *)
(***************************************************************************)

LEMMA RestIsSignaling == WithoutTracking => Next
BY DEF WithoutTracking, PassOn, Relay, Next, HandlerStep, BridgeStep, Procs

\* A step of the composition is a step of Signaling, in which the tracking is one
\* step that changes nothing, or it is invisible to Signaling.
LEMMA SignalingStep == CallsNext => [Next]_vars
<1>1. ASSUME NEW p \in Procs, Relay(p) PROVE Next
  BY <1>1 DEF Next, HandlerStep, BridgeStep, Procs
<1>2. ASSUME NEW p \in Procs, TrackCall(p) PROVE [Next]_vars
  <2>1. CASE BeginTracking(p)
    BY <2>1 DEF BeginTracking
  <2>2. CASE FinishTracking(p) \/ SkipTracking(p)
    BY <1>1, <2>2 DEF FinishTracking, SkipTracking, Relay
  <2>3. QED
    BY <1>2, <2>1, <2>2 DEF TrackCall
<1>3. QED
  BY <1>2, RestIsSignaling DEF CallsNext

\* The signaling server with its call tracking is a signaling server: it hands out
\* keys, registers sessions and relays as Signaling says.
THEOREM ImplementsSignaling == CallsSpec => Spec
<1>1. CallsInit => Init
  BY DEF CallsInit
<1>2. [CallsNext]_allVars => [Next]_vars
  <2>1. CASE CallsNext
    BY <2>1, SignalingStep
  <2>2. CASE UNCHANGED allVars
    BY <2>2 DEF allVars
  <2>3. QED
    BY <2>1, <2>2
<1>3. QED
  BY <1>1, <1>2, PTL DEF CallsSpec, Spec

\* A step of a goroutine with a frame in hand is a step of CallTracking for the
\* keys of that frame, and any other step is invisible to CallTracking.
LEMMA TrackingStep == TypeInd /\ CallsNext => [C!Next]_(C!vars)
<1> SUFFICES ASSUME TypeInd, CallsNext PROVE [C!Next]_(C!vars)
  OBVIOUS
<1>1. ASSUME NEW p \in Procs, BeginTracking(p) PROVE C!Next
  <2>1. msg[p].from \in Keys /\ msg[p].to \in Keys
    BY <1>1 DEF BeginTracking, TypeInd, Carries, Relaying, Frame
  <2>2. C!StartLock(p, msg[p].from, msg[p].to) \/ C!EndTake(p, msg[p].from, msg[p].to)
    BY <1>1 DEF BeginTracking
  <2>3. C!Start(p) \/ C!End(p)
    BY <2>1, <2>2 DEF C!Start, C!End
  <2>4. QED
    BY <2>3 DEF C!Next
<1>2. ASSUME NEW p \in Procs, FinishTracking(p) PROVE C!Next
  <2>1. C!Start(p) \/ C!End(p)
    BY <1>2 DEF FinishTracking, C!Start, C!End
  <2>2. QED
    BY <2>1 DEF C!Next
<1>3. ASSUME UNCHANGED callVars PROVE UNCHANGED C!vars
  BY <1>3 DEF callVars, C!vars
<1>4. QED
  BY <1>1, <1>2, <1>3 DEF CallsNext, TrackCall, SkipTracking

\* The goroutines that relay track calls as CallTracking says.
THEOREM ImplementsCallTracking == CallsSpec => TrackingSpec
<1>1. CallsInit => Init /\ C!Init
  BY DEF CallsInit
<1>2. [CallsNext]_allVars => [Next]_vars
  BY SignalingStep DEF allVars
<1>3. TypeInd /\ [CallsNext]_allVars => [C!Next]_(C!vars)
  <2>1. UNCHANGED allVars => UNCHANGED C!vars
    BY DEF allVars, callVars, C!vars
  <2>2. QED
    BY <2>1, TrackingStep
<1>4. TypeInd /\ [CallsNext]_allVars => TypeInd'
  BY <1>2, TypeNext
<1>5. QED
  BY <1>1, <1>3, <1>4, TypeInit, PTL DEF CallsSpec, TrackingSpec, C!Spec

(***************************************************************************)
(* What a user learns of a call is in the log before.                      *)
(***************************************************************************)

\* The theorems of CallTracking hold of the tracking of the server.
T == INSTANCE CallTrackingProofs WITH MaxStarts <- 0

LEMMA TrackingAssumptions == None \notin Keys \cup Procs /\ MaxCalls \in Nat /\ 0 \in Nat
BY EveryOfferFits

\* C and T are the same module.
LEMMA SameTracking ==
  /\ C!Init <=> T!Init
  /\ UNCHANGED C!vars <=> UNCHANGED T!vars
  /\ C!Next <=> T!Next
  /\ \A p, a, b : /\ C!StartLock(p, a, b) <=> T!StartLock(p, a, b)
                  /\ C!EndTake(p, a, b) <=> T!EndTake(p, a, b)
                  /\ C!StartInsert(p) <=> T!StartInsert(p)
                  /\ C!EndUpdate(p) <=> T!EndUpdate(p)
<1>1. C!Init <=> T!Init
  BY DEF C!Init, T!Init, C!EmptyTable, T!EmptyTable, C!Idle, T!Idle
<1>2. UNCHANGED C!vars <=> UNCHANGED T!vars
  BY DEF C!vars, T!vars
<1>3. ASSUME NEW p, NEW a, NEW b
      PROVE  /\ C!StartLock(p, a, b) <=> T!StartLock(p, a, b)
             /\ C!EndTake(p, a, b) <=> T!EndTake(p, a, b)
             /\ C!StartInsert(p) <=> T!StartInsert(p)
             /\ C!EndUpdate(p) <=> T!EndUpdate(p)
  <2>1. C!StartLock(p, a, b) <=> T!StartLock(p, a, b)
    BY DEF C!StartLock, T!StartLock, C!Idle, T!Idle, C!Untracked, T!Untracked, C!CallKey, T!CallKey,
       C!HolderUntilInsert, T!HolderUntilInsert, C!Owner, T!Owner, C!history, T!history,
       C!Cardinality, T!Cardinality
  <2>2. C!EndTake(p, a, b) <=> T!EndTake(p, a, b)
    BY DEF C!EndTake, T!EndTake, C!Idle, T!Idle, C!CallKey, T!CallKey, C!ActiveAfterTake,
       T!ActiveAfterTake, C!history, T!history, C!Restrict, T!Restrict
  <2>3. C!StartInsert(p) <=> T!StartInsert(p)
    BY DEF C!StartInsert, T!StartInsert, C!Idle, T!Idle, C!InsertRow, T!InsertRow, C!NextRowid,
       T!NextRowid, C!history, T!history, C!Max, T!Max
  <2>4. C!EndUpdate(p) <=> T!EndUpdate(p)
    BY DEF C!EndUpdate, T!EndUpdate, C!Idle, T!Idle, C!Close, T!Close, C!history, T!history
  <2>5. QED
    BY <2>1, <2>2, <2>3, <2>4
<1>4. C!Next <=> T!Next
  <2>1. \A p : (C!Start(p) <=> T!Start(p)) /\ (C!End(p) <=> T!End(p))
    BY <1>3 DEF C!Start, T!Start, C!End, T!End
  <2>2. \A k : (C!CreateUser(k) <=> T!CreateUser(k)) /\ (C!DeleteUser(k) <=> T!DeleteUser(k))
    BY DEF C!CreateUser, T!CreateUser, C!DeleteUser, T!DeleteUser, C!Remove, T!Remove,
       C!DeleteRows, T!DeleteRows, C!RowsWhere, T!RowsWhere, C!Restrict, T!Restrict,
       C!history, T!history
  <2>3. \A n : C!Prune(n) <=> T!Prune(n)
    BY DEF C!Prune, T!Prune, C!Remove, T!Remove, C!DeleteRows, T!DeleteRows,
       C!RowsWhere, T!RowsWhere, C!Restrict, T!Restrict
  <2>4. C!Restart <=> T!Restart
    BY DEF C!Restart, T!Restart, C!EmptyTable, T!EmptyTable, C!Idle, T!Idle
  <2>5. QED
    BY <2>1, <2>2, <2>3, <2>4 DEF C!Next, T!Next
<1>5. QED
  BY <1>1, <1>2, <1>3, <1>4

\* Frames that have left trackCallStart or trackCallEnd and have not arrived yet.
Tracked  == Relaying \ {"track"}
Underway == {msg[p] : p \in {q \in Procs : pc[q] \in Tracked}}
Told     == Delivered \cup Underway

\* What has been delivered, in terms of the places where frames arrive.
LEMMA DeliveredAreArrived == \A f : f \in Delivered <=> \E x \in Spots : f \in Range(Log(x))
<1>1. \A c \in Conns : <<c, "inbox">> \in Spots /\ Log(<<c, "inbox">>) = inbox[c]
  BY DEF Spots, Log
<1>2. \A k \in Keys : <<k, "handled">> \in Spots /\ Log(<<k, "handled">>) = handled[k]
  BY DEF Spots, Log
<1>3. \A x \in Spots : \/ \E c \in Conns : Log(x) = inbox[c]
                       \/ \E k \in Keys : Log(x) = handled[k]
  BY DEF Spots, Log
<1>4. QED
  BY <1>1, <1>2, <1>3 DEF Delivered

LEMMA ToldAreNumbered ==
  ASSUME TypeInd, OrderInv, NEW f \in Told
  PROVE  f \in Frame /\ f.n \in 1..sends
<1>1. CASE f \in Underway
  <2>1. PICK p \in Procs : InHand(p) /\ f = msg[p]
    BY <1>1 DEF Underway, Tracked, InHand
  <2>2. QED
    BY <2>1, LogTypes DEF OrderInv, NumbersAreUsed
<1>2. CASE f \in Delivered
  <2>1. PICK x \in Spots : f \in Range(Log(x))
    BY <1>2, DeliveredAreArrived
  <2>2. PICK i \in DOMAIN Log(x) : f = Log(x)[i]
    BY <2>1 DEF Range
  <2>3. Log(x)[i] \in Frame
    BY LogTypes
  <2>4. QED
    BY <2>2, <2>3 DEF OrderInv, NumbersAreUsed
<1>3. QED
  BY <1>1, <1>2 DEF Told

\* A step without tracking tells nobody of a frame that has not been tracked, and
\* leaves the frames that are being tracked alone.
LEMMA NothingNewIsTold ==
  ASSUME TypeInd, WithoutTracking
  PROVE  /\ Told' \subseteq Told
         /\ \A p \in Procs : pc[p] = "track" => pc'[p] = "track" /\ msg'[p] = msg[p]
<1> USE DEF InHand, Tracked
<1>0. /\ pc \in [Procs -> Places] /\ Conns \subseteq Procs
      /\ \A x \in Spots : Log(x) \in Seq(Frame)
      /\ \A p \in Procs : InHand(p) => msg[p] \in Frame
  BY LogTypes DEF TypeInd, TypeOK, Procs
<1>1. ASSUME NEW p \in Procs, pc[p] = "track" PROVE pc'[p] = "track"
  <2> USE DEF Goto, registry
  <2>1. CASE \E q \in Procs : PassOn(q)
    BY <1>0, <1>1, <2>1 DEF PassOn, Lookup, Send, AfterSend, LookupInternal, Callback, Finish
  <2>2. CASE \E c \in Conns : Handshake(c) \/ Reply(c) \/ Leave(c)
    BY <1>0, <1>1, <2>2 DEF Handshake, Register, AuthOk, AuthOkFail, Reply, Leave, ReadError,
       Unregister, CloseCancelled, Return
  <2>3. CASE \E c \in Conns : ClientStep(c)
    BY <1>0, <1>1, <2>3 DEF ClientStep, Accept, AuthReject, ClientClose, Stall, Authenticate,
       ReadRelay, ReadOther, Return
  <2>4. CASE \E b \in Bridges, from \in Internals, to \in Keys, type \in MsgTypes :
               BridgeSend(b, from, to, type)
    BY <1>0, <1>1, <2>4 DEF BridgeSend
  <2>5. CASE \/ \E k \in Internals : RegisterInternal(k) \/ UnregisterInternal(k)
             \/ StopClear \/ StopShutdown
    BY <1>1, <2>5 DEF RegisterInternal, UnregisterInternal, StopClear, StopShutdown
  <2>6. QED
    BY <2>1, <2>2, <2>3, <2>4, <2>5 DEF WithoutTracking
<1>2. ASSUME NEW p \in Procs, Keeps(p)
      PROVE  /\ pc'[p] \in Tracked => pc[p] \in Tracked /\ msg'[p] = msg[p]
             /\ pc[p] = "track" => msg'[p] = msg[p]
  BY <1>1, <1>2 DEF Keeps, Relaying
<1>3. \A f : f \in Delivered' => \E x \in Spots : f \in Range(Log(x)')
  <2>1. (\A f : f \in Delivered <=> \E x \in Spots : f \in Range(Log(x)))'
    BY DeliveredAreArrived, PTL
  <2>2. QED
    BY <2>1 DEF Spots
<1>4. CASE /\ UNCHANGED <<inbox, handled>>
           /\ \A p \in Procs : Keeps(p) \/ (pc'[p] = "track" /\ pc[p] # "track")
  <2>1. \A x \in Spots : Log(x)' = Log(x)
    BY <1>4 DEF Log
  <2>2. Delivered' \subseteq Delivered
    BY <1>3, <2>1, DeliveredAreArrived
  <2>3. Underway' \subseteq Underway
    BY <1>2, <1>4 DEF Underway
  <2>4. QED
    BY <1>1, <1>2, <1>4, <2>2, <2>3 DEF Told
<1>5. CASE Calm
  BY <1>4, <1>5 DEF Calm
<1>6. ASSUME NEW p \in Procs, TakeUp(p)
      PROVE  \A q \in Procs : Keeps(q) \/ (pc'[q] = "track" /\ pc[q] # "track")
  BY <1>6 DEF TakeUp, Relaying
<1>7. ASSUME NEW p \in Procs, NEW x \in Spots, Arrive(p, x)
      PROVE  /\ Told' \subseteq Told
             /\ \A q \in Procs : pc[q] = "track" => pc'[q] = "track" /\ msg'[q] = msg[q]
  <2>1. pc[p] \in Tracked /\ pc'[p] \notin Tracked
    BY <1>1, <1>7 DEF Arrive, Relaying
  <2>2. \A q \in Procs : /\ pc'[q] \in Tracked => pc[q] \in Tracked /\ msg'[q] = msg[q]
                         /\ pc[q] = "track" => msg'[q] = msg[q]
    BY <1>2, <1>7, <2>1 DEF Arrive
  <2>3. Underway' \subseteq Underway /\ msg[p] \in Underway
    BY <2>1, <2>2 DEF Underway
  <2>4. Range(Log(x)') \subseteq Range(Log(x)) \cup {msg[p]}
    <3>1. Log(x)' = Append(Log(x), msg[p]) /\ Log(x) \in Seq(Frame) /\ msg[p] \in Frame
      BY <1>0, <1>7 DEF Arrive
    <3>2. QED
      BY <3>1 DEF Range
  <2>5. Delivered' \subseteq Delivered \cup {msg[p]}
    <3>1. \A y \in Spots : Range(Log(y)') \subseteq Range(Log(y)) \cup {msg[p]}
      BY <1>7, <2>4 DEF Arrive
    <3>2. QED
      BY <1>3, <3>1, DeliveredAreArrived
  <2>6. QED
    BY <1>1, <2>2, <2>3, <2>5 DEF Told
<1>8. QED
  BY <1>4, <1>5, <1>6, <1>7, RestIsSignaling, KindsOfStep DEF TakeUp

\* What the tracking knows: CallTracking's invariant, in a log that loses no row.
LogInv == T!IInv /\ T!HeldRowsAreOpen /\ ~removed /\ before = 0

LEMMA LogTypesToo ==
  ASSUME LogInv
  PROVE  /\ calls \in Nat /\ T!IsTable(callLog)
         /\ \A i \in DOMAIN callLog : /\ callLog[i].call \in 1..calls
                                      /\ callLog[i].ended \in BOOLEAN
         /\ step \in [Procs -> T!Step]
BY TrackingAssumptions DEF LogInv, T!IInv, T!TypeInv, T!TypeOK, T!Row, T!RowsAreNumbered

(* What every step does to the log: rows stay and stay ended, new ones are of new
   calls, and a call that a hangup has taken is ended or still taken.           *)
LogGrows ==
  /\ users' = users
  /\ \A i \in DOMAIN callLog : /\ i \in DOMAIN callLog'
                               /\ callLog'[i].pair = callLog[i].pair
                               /\ callLog'[i].call = callLog[i].call
                               /\ callLog[i].ended => callLog'[i].ended
  /\ \A i \in DOMAIN callLog' \ DOMAIN callLog : callLog'[i].call = calls + 1
  /\ \A i \in DOMAIN callLog, q \in Procs :
       T!Updating(q) /\ step[q].call = callLog[i].call =>
         callLog'[i].ended \/ (T!Updating(q)' /\ step'[q].call = step[q].call)

LEMMA GrowsBegin ==
  ASSUME LogInv, NEW p \in Procs, NEW from, NEW to, T!StartLock(p, from, to) \/ T!EndTake(p, from, to)
  PROVE  LogGrows
<1>1. UNCHANGED <<users, callLog>>
  BY DEF T!StartLock, T!EndTake, T!history
<1>2. \A q \in Procs : T!Updating(q) => step'[q] = step[q]
  BY LogTypesToo DEF T!StartLock, T!EndTake, T!Idle, T!Updating
<1>3. QED
  BY <1>1, <1>2 DEF LogGrows, T!Updating

LEMMA GrowsInsert ==
  ASSUME LogInv, NEW p \in Procs, T!StartInsert(p)
  PROVE  LogGrows
<1> DEFINE row == [pair |-> step[p].pair, owner |-> step[p].owner, ended |-> FALSE, call |-> calls + 1]
<1>1. users' = users /\ step' = [step EXCEPT ![p] = T!Idle] /\ step[p].at = "insert"
  BY DEF T!StartInsert, T!history
<1>2. \A q \in Procs : T!Updating(q) => step'[q] = step[q]
  BY <1>1, LogTypesToo DEF T!Updating
<1>3. CASE callLog' = callLog
  BY <1>1, <1>2, <1>3 DEF LogGrows, T!Updating
<1>4. CASE callLog' = T!InsertRow(callLog, row)
  <2>1. /\ DOMAIN T!InsertRow(callLog, row) = DOMAIN callLog \cup {T!NextRowid(callLog)}
        /\ \A i \in DOMAIN callLog : T!InsertRow(callLog, row)[i] = callLog[i]
        /\ T!InsertRow(callLog, row)[T!NextRowid(callLog)] = row
    <3>1. \A t, r : T!IsTable(t) =>
            /\ DOMAIN T!InsertRow(t, r) = DOMAIN t \cup {T!NextRowid(t)}
            /\ \A i \in DOMAIN t : T!InsertRow(t, r)[i] = t[i]
            /\ T!InsertRow(t, r)[T!NextRowid(t)] = r
      BY TrackingAssumptions, T!InsertedRow
    <3> HIDE DEF row
    <3>2. QED
      BY <3>1, LogTypesToo
  <2>2. row.call = calls + 1
    OBVIOUS
  <2> HIDE DEF row
  <2>3. /\ DOMAIN callLog' = DOMAIN callLog \cup {T!NextRowid(callLog)}
        /\ \A i \in DOMAIN callLog : callLog'[i] = callLog[i]
        /\ callLog'[T!NextRowid(callLog)].call = calls + 1
    BY <1>4, <2>1, <2>2
  <2>4. \A i \in DOMAIN callLog' \ DOMAIN callLog : callLog'[i].call = calls + 1
    BY <2>3
  <2>5. QED
    BY <1>1, <1>2, <2>3, <2>4 DEF LogGrows, T!Updating
<1>5. QED
  BY <1>3, <1>4 DEF T!StartInsert

LEMMA GrowsUpdate ==
  ASSUME LogInv, NEW p \in Procs, T!EndUpdate(p)
  PROVE  LogGrows
<1>1. /\ UNCHANGED <<users>> /\ step' = [step EXCEPT ![p] = T!Idle] /\ T!Updating(p)
      /\ callLog' = T!Close(step[p].id)
  BY DEF T!EndUpdate, T!history, T!Updating
<1>2. \A q \in Procs \ {p} : T!Updating(q) => step'[q] = step[q]
  BY <1>1, LogTypesToo
<1>3. /\ DOMAIN callLog' = DOMAIN callLog
      /\ \A i \in DOMAIN callLog : /\ callLog'[i].pair = callLog[i].pair
                                   /\ callLog'[i].call = callLog[i].call
                                   /\ callLog[i].ended => callLog'[i].ended
                                   /\ i = step[p].id => callLog'[i].ended
  BY <1>1 DEF LogInv, T!IInv, T!TypeInv, T!TypeOK, T!Row, T!Close
<1>4. \A i \in DOMAIN callLog : step[p].call = callLog[i].call => callLog'[i].ended
  BY <1>1, <1>3 DEF LogInv, T!IInv, T!HoldersKnowTheirRow
<1>5. QED
  BY <1>1, <1>2, <1>3, <1>4 DEF LogGrows, T!Updating

\* So what was in the log before a frame arrives stays there.
LEMMA InLogStays ==
  ASSUME LogInv, LogGrows, NEW f, InLog(f), known'[f.n] = known[f.n],
         known[f.n] \in Nat, known[f.n] <= calls
  PROVE  InLog(f)'
<1>1. f.type = "offer" /\ Pair(f) \cap users # {} => Rows(f)' # {}
  BY DEF LogGrows, InLog, Rows, Pair
<1>2. ASSUME NEW i \in Rows(f)', f.type = "hangup"
      PROVE  \/ callLog'[i].call > known'[f.n]
             \/ callLog'[i].ended
             \/ C!Ending(callLog[i].call)' \ {f.src} # {}
  <2>1. CASE i \notin DOMAIN callLog
    <3>1. callLog'[i].call = calls + 1
      BY <1>2, <2>1 DEF LogGrows, Rows
    <3>2. QED
      BY <3>1, LogTypesToo
  <2>2. CASE i \in DOMAIN callLog
    <3>1. i \in Rows(f) /\ callLog'[i].call = callLog[i].call
      BY <1>2, <2>2 DEF LogGrows, Rows, Pair
    <3>2. \/ callLog[i].call > known[f.n]
          \/ callLog[i].ended
          \/ C!Ending(callLog[i].call) \ {f.src} # {}
      BY <1>2, <3>1 DEF InLog
    <3>3. CASE C!Ending(callLog[i].call) \ {f.src} # {}
      <4>1. PICK q \in Procs : q # f.src /\ T!Updating(q) /\ step[q].call = callLog[i].call
        BY <3>3 DEF C!Ending, T!Updating
      <4>2. callLog'[i].ended \/ (T!Updating(q)' /\ step'[q].call = step[q].call)
        BY <2>2, <4>1 DEF LogGrows
      <4>3. QED
        BY <3>1, <4>1, <4>2 DEF C!Ending, T!Updating
    <3>4. QED
      BY <2>2, <3>1, <3>2, <3>3 DEF LogGrows
  <2>3. QED
    BY <2>1, <2>2
<1>3. QED
  BY <1>1, <1>2 DEF InLog, LogGrows, Pair

\* known has an entry for every frame read, of calls that were logged by then.
KnownInv == /\ known \in Seq(Nat) /\ Len(known) = sends
            /\ \A n \in 1..sends : known[n] <= calls

(* A goroutine between the two critical sections of its tracking has the offer or
   the hangup in hand still.  The owner of the row it is about to insert has an
   account; and a call of the pair that is tracked again, after a hangup has taken
   the one it ends, is one its sender cannot have meant.                        *)
MidTracking ==
  \A p \in Procs :
    /\ T!Inserting(p) => /\ pc[p] = "track" /\ msg[p].type = "offer"
                         /\ step[p].pair = Pair(msg[p]) /\ step[p].owner \in users
    /\ T!Updating(p) => /\ pc[p] = "track" /\ msg[p].type = "hangup"
                        /\ Pair(msg[p]) \in DOMAIN active =>
                             active[Pair(msg[p])].call > known[msg[p].n]

AllInLog == \A f \in Told : InLog(f)

TellInv == LogInv /\ KnownInv /\ MidTracking /\ AllInLog

LEMMA TellInit == CallsInit => TellInv
<1> SUFFICES ASSUME CallsInit PROVE TellInv
  OBVIOUS
<1> USE DEF CallsInit, Init
<1>1. T!Init /\ C!Init
  BY SameTracking
<1>2. calls = 0 /\ before = 0 /\ removed = FALSE /\ DOMAIN active = {}
      /\ \A p \in Procs : step[p] = C!Idle
  BY <1>1 DEF C!Init, C!EmptyTable
<1>3. \A p \in Procs : ~T!Updating(p) /\ ~T!Inserting(p)
  BY <1>2 DEF C!Idle, T!Updating, T!Inserting
<1>4. LogInv
  <2>1. T!IInv
    BY <1>1, TrackingAssumptions, T!InvInit
  <2>2. QED
    BY <1>2, <1>3, <2>1 DEF LogInv, T!HeldRowsAreOpen
<1>5. KnownInv
  BY DEF KnownInv
<1>6. Told = {}
  BY DEF Told, Delivered, Underway, Tracked, Relaying, Range
<1>7. QED
  BY <1>3, <1>4, <1>5, <1>6 DEF TellInv, MidTracking, AllInLog

LEMMA LogInvNext == TypeInd /\ LogInv /\ [CallsNext]_allVars => LogInv'
<1> SUFFICES ASSUME TypeInd, LogInv, [CallsNext]_allVars PROVE LogInv'
  OBVIOUS
<1>1. [T!Next]_(T!vars)
  BY TrackingStep, SameTracking DEF allVars, callVars, C!vars
<1>2. T!IInv' /\ T!HeldRowsAreOpen'
  BY <1>1, TrackingAssumptions, T!InvNext, T!HeldNext DEF LogInv
<1>3. UNCHANGED <<removed, before>>
  BY DEF CallsNext, TrackCall, BeginTracking, FinishTracking, SkipTracking, C!StartLock, C!EndTake,
     C!StartInsert, C!EndUpdate, C!history, callVars, allVars
<1>4. QED
  BY <1>2, <1>3 DEF LogInv

LEMMA KnownNext ==
  ASSUME TypeInd, LogInv, KnownInv, [CallsNext]_allVars
  PROVE  KnownInv' /\ \A n \in 1..sends : known'[n] = known[n]
<1>0. calls \in Nat /\ sends \in Nat
  BY LogTypesToo, LogTypes
<1>1. CASE WithoutTracking /\ UNCHANGED callVars
           /\ known' = IF sends' > sends THEN Append(known, calls) ELSE known
  <2>1. sends' = sends \/ sends' = sends + 1
    BY <1>1, RestIsSignaling, KindsOfStep DEF Calm, TakeUp, Arrive
  <2>2. calls' = calls
    BY <1>1 DEF callVars
  <2>3. QED
    BY <1>0, <1>1, <2>1, <2>2 DEF KnownInv
<1>2. CASE UNCHANGED <<sends, known>> /\ calls' \in Nat /\ calls' >= calls
  BY <1>0, <1>2 DEF KnownInv
<1>3. ASSUME NEW p \in Procs, TrackCall(p)
      PROVE  UNCHANGED <<sends, known>> /\ calls' \in Nat /\ calls' >= calls
  <2>1. UNCHANGED <<sends, known>>
    BY <1>3 DEF TrackCall, BeginTracking, FinishTracking, SkipTracking, Track, vars
  <2>2. calls' = calls \/ calls' = calls + 1
    BY <1>3 DEF TrackCall, BeginTracking, FinishTracking, SkipTracking, C!StartLock, C!EndTake,
       C!StartInsert, C!EndUpdate, callVars
  <2>3. QED
    BY <1>0, <2>1, <2>2
<1>4. CASE UNCHANGED allVars
  BY <1>0, <1>2, <1>4 DEF allVars, vars, callVars
<1>5. QED
  BY <1>1, <1>2, <1>3, <1>4 DEF CallsNext

\* A frame told before stays in the log, as long as the log grows.
LEMMA ToldStay ==
  ASSUME TypeInd, OrderInv, TellInv, LogGrows, \A n \in 1..sends : known'[n] = known[n],
         NEW f \in Told
  PROVE  InLog(f)'
<1>1. f.n \in 1..sends
  BY ToldAreNumbered
<1>2. InLog(f) /\ known[f.n] \in Nat /\ known[f.n] <= calls
  BY <1>1 DEF TellInv, AllInLog, KnownInv
<1>3. QED
  BY <1>1, <1>2, InLogStays DEF TellInv

LEMMA SameLogGrows == UNCHANGED callVars => LogGrows
BY DEF callVars, LogGrows, T!Updating

\* Steps without tracking leave all of it as it is.
LEMMA TellWithout ==
  ASSUME TypeInd, OrderInv, TellInv, WithoutTracking, UNCHANGED callVars,
         \A n \in 1..sends : known'[n] = known[n]
  PROVE  MidTracking' /\ AllInLog'
<1>1. MidTracking'
  <2> SUFFICES ASSUME NEW p \in Procs
               PROVE  /\ T!Inserting(p)' => /\ pc'[p] = "track" /\ msg'[p].type = "offer"
                                            /\ step'[p].pair = Pair(msg[p])' /\ step'[p].owner \in users'
                      /\ T!Updating(p)' => /\ pc'[p] = "track" /\ msg'[p].type = "hangup"
                                           /\ Pair(msg[p])' \in DOMAIN active' =>
                                                active'[Pair(msg[p])'].call > known'[msg'[p].n]
    BY DEF MidTracking
  <2>1. UNCHANGED <<users, active, step>>
    BY DEF callVars
  <2>2. CASE pc[p] = "track"
    <3>1. pc'[p] = "track" /\ msg'[p] = msg[p] /\ Pair(msg[p])' = Pair(msg[p])
      BY <2>2, NothingNewIsTold DEF Pair
    <3>2. msg[p].n \in 1..sends
      BY <2>2 DEF OrderInv, NumbersAreUsed, InHand, Relaying
    <3>3. QED
      BY <2>1, <3>1, <3>2 DEF TellInv, MidTracking, T!Inserting, T!Updating
  <2>3. CASE pc[p] # "track"
    BY <2>1, <2>3 DEF TellInv, MidTracking, T!Inserting, T!Updating
  <2>4. QED
    BY <2>2, <2>3
<1>2. AllInLog'
  <2>1. \A f \in Told : InLog(f)'
    BY SameLogGrows, ToldStay
  <2>2. QED
    BY <2>1, NothingNewIsTold DEF AllInLog
<1>3. QED
  BY <1>1, <1>2

\* When the tracking of a frame is done, nobody is told but of that frame.
LEMMA TrackTells ==
  ASSUME TypeInd, NEW p \in Procs, Track(p)
  PROVE  /\ Told' \subseteq Told \cup {msg[p]}
         /\ \A q \in Procs \ {p} : pc'[q] = pc[q]
         /\ UNCHANGED <<msg, sends>>
<1>1. /\ \A q \in Procs \ {p} : pc'[q] = pc[q]
      /\ UNCHANGED <<msg, sends, inbox, handled>>
  BY DEF Track, Goto, TypeInd, TypeOK, wire
<1>2. Delivered' = Delivered
  BY <1>1 DEF Delivered
<1>3. Underway' \subseteq Underway \cup {msg[p]}
  BY <1>1 DEF Underway
<1>4. QED
  BY <1>1, <1>2, <1>3 DEF Told

\* ... so the frame it tracked is the only one to look at.
LEMMA TellTracked ==
  ASSUME TypeInd, OrderInv, TellInv, LogGrows, known' = known,
         NEW p \in Procs, Track(p), InLog(msg[p])'
  PROVE  AllInLog'
<1>1. \A f \in Told : InLog(f)'
  BY ToldStay
<1>2. QED
  BY <1>1, TrackTells DEF AllInLog

\* The first critical section.
LEMMA TellBegin ==
  ASSUME TypeInd, OrderInv, TellInv, NEW p \in Procs, BeginTracking(p)
  PROVE  MidTracking' /\ AllInLog'
<1> DEFINE from == msg[p].from
           to   == msg[p].to
<1>1. /\ T!StartLock(p, from, to) \/ T!EndTake(p, from, to)
      /\ pc[p] = "track" /\ UNCHANGED <<pc, msg, inbox, handled, known>>
  BY SameTracking DEF BeginTracking, vars
<1>2. AllInLog'
  <2>1. LogGrows
    BY <1>1, GrowsBegin DEF TellInv
  <2>2. Told' = Told
    BY <1>1 DEF Told, Delivered, Underway
  <2>3. QED
    BY <1>1, <2>1, <2>2, ToldStay DEF AllInLog
<1>3. step \in [Procs -> T!Step]
  BY LogTypesToo DEF TellInv
<1>4. CASE msg[p].type = "offer" /\ T!StartLock(p, from, to)
  <2>1. /\ step' = [step EXCEPT ![p] = [at |-> "insert", pair |-> Pair(msg[p]),
                                        owner |-> T!Owner(from, to)]]
        /\ UNCHANGED <<users, active>> /\ {from, to} \cap users # {}
    BY <1>4 DEF T!StartLock, T!CallKey, C!CallKey, Pair
  <2>2. T!Owner(from, to) \in users
    BY <2>1 DEF T!Owner
  <2>3. QED
    BY <1>1, <1>2, <1>3, <1>4, <2>1, <2>2 DEF TellInv, MidTracking, T!Inserting, T!Updating, Pair, C!CallKey
<1>5. CASE msg[p].type = "hangup" /\ T!EndTake(p, from, to)
  <2>1. /\ step' = [step EXCEPT ![p] = [at |-> "update", pair |-> Pair(msg[p]),
                                        id |-> active[Pair(msg[p])].id,
                                        call |-> active[Pair(msg[p])].call]]
        /\ active' = [a \in DOMAIN active \ {Pair(msg[p])} |-> active[a]]
        /\ users' = users
    BY <1>5 DEF T!EndTake, T!CallKey, C!CallKey, Pair, T!ActiveAfterTake, T!Restrict, T!history
  <2>2. QED
    BY <1>1, <1>2, <1>3, <1>5, <2>1 DEF TellInv, MidTracking, T!Inserting, T!Updating, Pair, C!CallKey
<1>6. QED
  BY <1>4, <1>5, SameTracking DEF BeginTracking

\* A step of one goroutine leaves what the others have to do to its own.
LEMMA OthersMidTracking ==
  ASSUME TypeInd, OrderInv, TellInv, NEW p \in Procs, Track(p), UNCHANGED <<users, known>>,
         ~T!Inserting(p)' /\ ~T!Updating(p)',
         \A q \in Procs \ {p} : step'[q] = step[q],
         \A a \in DOMAIN active' : \/ a \in DOMAIN active /\ active'[a].call = active[a].call
                                   \/ active'[a].call = calls + 1
  PROVE  MidTracking'
<1> SUFFICES ASSUME NEW q \in Procs \ {p}
             PROVE  /\ T!Inserting(q)' => /\ pc'[q] = "track" /\ msg'[q].type = "offer"
                                          /\ step'[q].pair = Pair(msg[q])' /\ step'[q].owner \in users'
                    /\ T!Updating(q)' => /\ pc'[q] = "track" /\ msg'[q].type = "hangup"
                                         /\ Pair(msg[q])' \in DOMAIN active' =>
                                              active'[Pair(msg[q])'].call > known'[msg'[q].n]
  BY DEF MidTracking
<1>1. pc'[q] = pc[q] /\ msg'[q] = msg[q] /\ Pair(msg[q])' = Pair(msg[q]) /\ step'[q] = step[q]
  BY TrackTells DEF Pair
<1>2. T!Inserting(q)' => T!Inserting(q)
  BY <1>1 DEF T!Inserting
<1>3. T!Updating(q)' => T!Updating(q)
  BY <1>1 DEF T!Updating
<1>4. ASSUME T!Updating(q), Pair(msg[q]) \in DOMAIN active'
      PROVE  active'[Pair(msg[q])].call > known[msg[q].n]
  <2>1. msg[q].n \in 1..sends
    BY <1>4 DEF TellInv, MidTracking, OrderInv, NumbersAreUsed, InHand, Relaying
  <2>2. known[msg[q].n] <= calls /\ known[msg[q].n] \in Nat /\ calls \in Nat
    BY <2>1, LogTypesToo DEF TellInv, KnownInv
  <2>3. QED
    BY <1>4, <2>2 DEF TellInv, MidTracking
<1>5. QED
  BY <1>1, <1>2, <1>3, <1>4 DEF TellInv, MidTracking

\* The INSERT: the row that an offer tells of is there.
LEMMA TellInsert ==
  ASSUME TypeInd, OrderInv, TellInv, NEW p \in Procs, T!StartInsert(p), Track(p), known' = known
  PROVE  MidTracking' /\ AllInLog'
<1> DEFINE row == [pair |-> step[p].pair, owner |-> step[p].owner, ended |-> FALSE, call |-> calls + 1]
<1>1. /\ msg[p].type = "offer" /\ step[p].pair = Pair(msg[p]) /\ step[p].owner \in users
  BY DEF T!StartInsert, T!Inserting, TellInv, MidTracking
<1>2. /\ callLog' = T!InsertRow(callLog, row) /\ users' = users
      /\ active' = [pair \in DOMAIN active \cup {step[p].pair} |->
                      IF pair = step[p].pair
                      THEN [id |-> T!NextRowid(callLog), call |-> calls + 1]
                      ELSE active[pair]]
      /\ step' = [step EXCEPT ![p] = T!Idle]
  BY <1>1 DEF T!StartInsert, T!history
<1>3. step \in [Procs -> T!Step] /\ T!IsTable(callLog)
  BY LogTypesToo DEF TellInv
<1>4. MidTracking'
  <2>1. ~T!Inserting(p)' /\ ~T!Updating(p)' /\ \A q \in Procs \ {p} : step'[q] = step[q]
    BY <1>2, <1>3 DEF T!Inserting, T!Updating, T!Idle
  <2>2. \A a \in DOMAIN active' : \/ a \in DOMAIN active /\ active'[a].call = active[a].call
                                  \/ active'[a].call = calls + 1
    BY <1>2
  <2>3. QED
    BY <1>2, <2>1, <2>2, OthersMidTracking
<1>5. InLog(msg[p])'
  <2>1. \A t, r : T!IsTable(t) => /\ T!NextRowid(t) \in DOMAIN T!InsertRow(t, r)
                                  /\ T!InsertRow(t, r)[T!NextRowid(t)] = r
    <3>1. \A t, r : T!IsTable(t) =>
            /\ DOMAIN T!InsertRow(t, r) = DOMAIN t \cup {T!NextRowid(t)}
            /\ T!InsertRow(t, r)[T!NextRowid(t)] = r
      BY TrackingAssumptions, T!InsertedRow
    <3>2. QED
      BY <3>1
  <2>2. row.pair = Pair(msg[p])
    BY <1>1
  <2> HIDE DEF row
  <2>3. T!NextRowid(callLog) \in DOMAIN callLog' /\ callLog'[T!NextRowid(callLog)].pair = Pair(msg[p])
    BY <1>2, <1>3, <2>1, <2>2
  <2>4. msg' = msg /\ Pair(msg[p])' = Pair(msg[p])
    BY TrackTells DEF Pair
  <2>5. T!NextRowid(callLog) \in Rows(msg[p])'
    BY <2>3, <2>4 DEF Rows
  <2>6. QED
    BY <1>1, <2>4, <2>5 DEF InLog
<1>6. QED
  BY <1>4, <1>5, GrowsInsert, TellTracked DEF TellInv

(* An open row of the pair of a hangup whose sender could have meant its call, once
   the pair is not tracked or only as a later call: another hangup ends it, or it is
   the one this goroutine ends.                                                   *)
LEMMA MeantCallIsHeld ==
  ASSUME LogInv, NEW f, NEW i \in Rows(f), ~callLog[i].ended, ~(callLog[i].call > known[f.n]),
         Pair(f) \in DOMAIN active => active[Pair(f)].call > known[f.n]
  PROVE  \E q \in Procs : T!Updating(q) /\ step[q].call = callLog[i].call /\ step[q].id = i
<1>1. i \in DOMAIN callLog /\ callLog[i].pair = Pair(f) /\ callLog[i].call > before
  BY LogTypesToo DEF Rows, LogInv
<1>2. \A a \in DOMAIN active : active[a].call # callLog[i].call
  BY <1>1 DEF LogInv, T!IInv, T!HoldersKnowTheirRow
<1>3. QED
  BY <1>1, <1>2 DEF LogInv, T!IInv, T!OpenRowsAreHeld, T!HoldersKnowTheirRow

\* The UPDATE: every call that the sender of the hangup can have meant is ended, or
\* another hangup is ending it.
LEMMA TellUpdate ==
  ASSUME TypeInd, OrderInv, TellInv, NEW p \in Procs, T!EndUpdate(p), Track(p), known' = known
  PROVE  MidTracking' /\ AllInLog'
<1>1. /\ T!Updating(p) /\ msg[p].type = "hangup"
      /\ Pair(msg[p]) \in DOMAIN active => active[Pair(msg[p])].call > known[msg[p].n]
      /\ UNCHANGED <<users, active>> /\ step' = [step EXCEPT ![p] = T!Idle]
      /\ callLog' = T!Close(step[p].id)
  BY DEF T!EndUpdate, T!Updating, TellInv, MidTracking, T!history
<1>2. step \in [Procs -> T!Step] /\ LogGrows /\ msg[p].src = p
  BY LogTypesToo, GrowsUpdate DEF TellInv, TypeInd, Carries, Track, Relaying
<1>3. MidTracking'
  <2>1. ~T!Inserting(p)' /\ ~T!Updating(p)' /\ \A q \in Procs \ {p} : step'[q] = step[q]
    BY <1>1, <1>2 DEF T!Inserting, T!Updating, T!Idle
  <2>2. QED
    BY <1>1, <2>1, OthersMidTracking
<1>4. InLog(msg[p])'
  <2>1. msg' = msg /\ Pair(msg[p])' = Pair(msg[p])
    BY TrackTells DEF Pair
  <2>2. /\ DOMAIN callLog' = DOMAIN callLog
        /\ step[p].id \in DOMAIN callLog => callLog'[step[p].id].ended
    BY <1>1 DEF TellInv, LogInv, T!IInv, T!TypeInv, T!TypeOK, T!Row, T!Close
  <2>3. ASSUME NEW i \in Rows(msg[p])', ~callLog'[i].ended, ~(callLog'[i].call > known[msg[p].n])
        PROVE  C!Ending(callLog[i].call)' \ {p} # {}
    <3>1. i \in Rows(msg[p]) /\ callLog'[i].call = callLog[i].call /\ ~callLog[i].ended
      <4>1. i \in DOMAIN callLog /\ callLog'[i].pair = Pair(msg[p])
        BY <2>1, <2>2, <2>3 DEF Rows
      <4>2. /\ callLog'[i].pair = callLog[i].pair /\ callLog'[i].call = callLog[i].call
            /\ callLog[i].ended => callLog'[i].ended
        BY <1>2, <4>1 DEF LogGrows
      <4>3. QED
        BY <2>3, <4>1, <4>2 DEF Rows
    <3>2. PICK q \in Procs : T!Updating(q) /\ step[q].call = callLog[i].call /\ step[q].id = i
      BY <1>1, <2>3, <3>1, MeantCallIsHeld DEF TellInv
    <3>3. q # p
      BY <2>2, <2>3, <3>1, <3>2 DEF Rows
    <3>4. step'[q] = step[q]
      BY <1>1, <1>2, <3>3
    <3>5. q \in C!Ending(callLog[i].call)'
      BY <3>1, <3>2, <3>4 DEF C!Ending, T!Updating
    <3>6. QED
      BY <3>3, <3>5
  <2>4. QED
    BY <1>1, <1>2, <2>1, <2>3 DEF InLog
<1>5. QED
  BY <1>2, <1>3, <1>4, TellTracked

\* Nothing to track: an offer between strangers or of a pair whose call is in the
\* log, a hangup of no call, a frame of another kind.
LEMMA TellSkip ==
  ASSUME TypeInd, OrderInv, TellInv, NEW p \in Procs, SkipTracking(p)
  PROVE  MidTracking' /\ AllInLog'
<1>1. /\ Track(p) /\ UNCHANGED callVars /\ known' = known /\ step[p] = T!Idle
      /\ msg[p].type \notin {"offer", "hangup"} \/ NothingToTrack(msg[p])
  BY DEF SkipTracking, C!Idle, T!Idle
<1>2. UNCHANGED <<users, callLog, active, step>> /\ msg' = msg /\ Pair(msg[p])' = Pair(msg[p])
  BY <1>1, TrackTells DEF callVars, Pair
<1>3. ~T!Inserting(p) /\ ~T!Updating(p) /\ msg[p].src = p
  BY <1>1 DEF T!Inserting, T!Updating, T!Idle, TypeInd, Carries, Track, Relaying
<1>4. MidTracking'
  <2>1. ~T!Inserting(p)' /\ ~T!Updating(p)'
    BY <1>2, <1>3 DEF T!Inserting, T!Updating
  <2>2. QED
    BY <1>1, <1>2, <2>1, OthersMidTracking
<1>5. InLog(msg[p])
  <2>1. ASSUME Pair(msg[p]) \in DOMAIN active PROVE Rows(msg[p]) # {}
    <3>1. active[Pair(msg[p])].id \in Rows(msg[p])
      BY <2>1 DEF TellInv, LogInv, T!IInv, T!HoldersKnowTheirRow, T!HeldRowsAreOpen, T!OpenRow, Rows
    <3>2. QED
      BY <3>1
  <2>2. ASSUME Pair(msg[p]) \notin DOMAIN active, NEW i \in Rows(msg[p]), ~callLog[i].ended,
               ~(callLog[i].call > known[msg[p].n])
        PROVE  C!Ending(callLog[i].call) \ {p} # {}
    <3>1. PICK q \in Procs : T!Updating(q) /\ step[q].call = callLog[i].call
      BY <2>2, MeantCallIsHeld DEF TellInv
    <3>2. QED
      BY <1>3, <3>1 DEF C!Ending, T!Updating
  <2>3. QED
    BY <1>1, <1>3, <2>1, <2>2 DEF NothingToTrack, InLog
<1>6. InLog(msg[p])'
  <2>1. Rows(msg[p])' = Rows(msg[p]) /\ \A n : C!Ending(n)' = C!Ending(n)
    BY <1>2 DEF Rows, C!Ending
  <2>2. QED
    BY <1>1, <1>2, <1>5, <2>1 DEF InLog
<1>7. QED
  BY <1>1, <1>4, <1>6, SameLogGrows, TellTracked

LEMMA TellNext == TypeInd /\ OrderInv /\ TellInv /\ [CallsNext]_allVars => TellInv'
<1> SUFFICES ASSUME TypeInd, OrderInv, TellInv, [CallsNext]_allVars PROVE TellInv'
  OBVIOUS
<1>1. LogInv' /\ KnownInv' /\ \A n \in 1..sends : known'[n] = known[n]
  BY LogInvNext, KnownNext DEF TellInv
<1>2. MidTracking' /\ AllInLog'
  <2>1. CASE WithoutTracking /\ UNCHANGED callVars
    BY <1>1, <2>1, TellWithout
  <2>2. ASSUME NEW p \in Procs, TrackCall(p) PROVE MidTracking' /\ AllInLog'
    <3>1. CASE BeginTracking(p)
      BY <3>1, TellBegin
    <3>2. CASE FinishTracking(p)
      BY <3>2, SameTracking, TellInsert, TellUpdate DEF FinishTracking
    <3>3. CASE SkipTracking(p)
      BY <3>3, TellSkip
    <3>4. QED
      BY <2>2, <3>1, <3>2, <3>3 DEF TrackCall
  <2>3. CASE UNCHANGED allVars
    <3>1. UNCHANGED callVars /\ UNCHANGED <<pc, msg, inbox, handled, known>>
      BY <2>3 DEF allVars, vars
    <3>2. MidTracking'
      BY <3>1 DEF callVars, TellInv, MidTracking, T!Inserting, T!Updating, Pair, C!CallKey
    <3>3. Told' = Told
      BY <3>1 DEF Told, Delivered, Underway
    <3>4. QED
      BY <1>1, <3>1, <3>2, <3>3, SameLogGrows, ToldStay DEF AllInLog
  <2>4. QED
    BY <2>1, <2>2, <2>3 DEF CallsNext
<1>3. QED
  BY <1>1, <1>2 DEF TellInv

\* An offer or a hangup that has reached its addressee has been tracked before,
\* however the goroutines that relay wait for one another at callMu: the call of the
\* offer has its row, and every call that the hangup can have meant is ended, or
\* another hangup is about to end it (signaling.go:297-316).
THEOREM DeliveredIsTracked == CallsSpec => []TrackedBeforeDelivered
<1>1. CallsInit => TypeInd /\ OrderInv /\ TellInv
  BY TypeInit, OrderInit, TellInit DEF CallsInit
<1>2. [CallsNext]_allVars => [Next]_vars
  BY SignalingStep DEF allVars
<1>3. TypeInd /\ OrderInv /\ TellInv /\ [CallsNext]_allVars => (TypeInd /\ OrderInv /\ TellInv)'
  BY <1>2, TypeNext, OrderNext, TellNext
<1>4. TellInv => TrackedBeforeDelivered
  BY DEF TellInv, AllInLog, Told, TrackedBeforeDelivered
<1>5. QED
  BY <1>1, <1>3, <1>4, PTL DEF CallsSpec

\* So the call log behind the server is as CallTracking promises, though handlers and
\* bridges track the calls in it: a pair has one open call at most, and no row is open
\* that nobody knows of (signaling.go:359-429).
THEOREM LogOfTheServer == CallsSpec => [](T!OneCallPerPair /\ T!OpenRowsAreTracked)
<1>1. C!Spec => T!Spec
  <2>1. C!Init => T!Init
    BY SameTracking
  <2>2. [C!Next]_(C!vars) => [T!Next]_(T!vars)
    BY SameTracking
  <2>3. QED
    BY <2>1, <2>2, PTL DEF C!Spec, T!Spec
<1>2. T!Spec => []T!OneCallPerPair
  BY TrackingAssumptions, T!OneCallOfEachPair
<1>3. T!Spec => []T!OpenRowsAreTracked
  BY TrackingAssumptions, T!OpenRowsTracked
<1>4. QED
  BY <1>1, <1>2, <1>3, ImplementsCallTracking, PTL DEF TrackingSpec

(***************************************************************************)
(* Liveness of the server with its call tracking.                          *)
(***************************************************************************)
TellHolds == TypeInd /\ OrderInv /\ TellInv

LEMMA TellAlways == CallsSpec => []TellHolds
<1>1. CallsInit => TypeInd /\ OrderInv /\ TellInv
  BY TypeInit, OrderInit, TellInit DEF CallsInit
<1>2. [CallsNext]_allVars => [Next]_vars
  BY SignalingStep DEF allVars
<1>3. TypeInd /\ OrderInv /\ TellInv /\ [CallsNext]_allVars => (TypeInd /\ OrderInv /\ TellInv)'
  BY <1>2, TypeNext, OrderNext, TellNext
<1>4. QED
  BY <1>1, <1>3, PTL DEF CallsSpec, TellHolds

\* A goroutine before the first critical section of its tracking, and after it.
Waiting(p) == AtTrack(p) /\ step[p] = T!Idle
Midway(p)  == AtTrack(p) /\ step[p] # T!Idle
LockIsFree == callMu = None

(* That the steps fairness speaks of can be taken is a hypothesis, as before: nobody
   waits with callMu free, and whoever is past the lock goes on.  *)
EntryIsEnabled(p)  == Waiting(p) /\ LockIsFree => ENABLED <<EnterLock(p)>>_allVars
FinishIsEnabled(p) == Midway(p) => ENABLED <<FinishTracking(p)>>_allVars
HolderIsEnabled    == ~LockIsFree => ENABLED <<HolderStep>>_allVars
OwnIsEnabled(c)    == Ready(c) => ENABLED <<OwnStep(c)>>_allVars
FailIsEnabled(c)   == At(c, "reading") => ENABLED <<FailRead(c)>>_allVars

ServerCanGoOn == /\ \A p \in Procs : EntryIsEnabled(p) /\ FinishIsEnabled(p)
                 /\ HolderIsEnabled
                 /\ \A c \in Conns : OwnIsEnabled(c) /\ FailIsEnabled(c)

LEMMA TrackingSteps ==
  ASSUME TellHolds, NEW p \in Procs, [CallsNext]_allVars
  PROVE  /\ Waiting(p) => Waiting(p)' \/ Midway(p)' \/ ~AtTrack(p)'
         /\ Midway(p) => Midway(p)' \/ ~AtTrack(p)'
         /\ Waiting(p) /\ EnterLock(p) => ~Waiting(p)'
         /\ FinishTracking(p) => ~AtTrack(p)'
         /\ HolderStep => LockIsFree'
<1> USE DEF Waiting, Midway, AtTrack, LockIsFree
<1>0. step \in [Procs -> T!Step] /\ pc \in [Procs -> Places]
  BY LogTypesToo DEF TellHolds, TellInv, TypeInd, TypeOK
<1>1. AtTrack(p)' => Waiting(p)' \/ Midway(p)'
  OBVIOUS
<1>2. Midway(p) /\ AtTrack(p)' => Midway(p)'
  <2>1. ASSUME NEW q \in Procs, BeginTracking(q) PROVE Midway(p) => step'[p] = step[p]
    <3>1. step[q] = T!Idle
      BY <2>1 DEF BeginTracking, C!StartLock, C!EndTake, C!Idle, T!Idle
    <3>2. \A r \in Procs : r # q => step'[r] = step[r]
      BY <1>0, <2>1 DEF BeginTracking, C!StartLock, C!EndTake
    <3>3. QED
      BY <3>1, <3>2
  <2>2. ASSUME NEW q \in Procs, FinishTracking(q)
        PROVE  IF q = p THEN ~AtTrack(p)' ELSE step'[p] = step[p]
    BY <1>0, <2>2 DEF FinishTracking, Track, Goto, C!StartInsert, C!EndUpdate
  <2>3. ASSUME UNCHANGED callVars PROVE step'[p] = step[p]
    BY <2>3 DEF callVars
  <2>4. QED
    BY <2>1, <2>2, <2>3 DEF CallsNext, TrackCall, SkipTracking, allVars
<1>3. ASSUME Waiting(p), EnterLock(p) PROVE ~Waiting(p)'
  <2>1. CASE BeginTracking(p)
    BY <1>0, <2>1 DEF BeginTracking, C!StartLock, C!EndTake, T!Idle
  <2>2. CASE SkipTracking(p)
    BY <1>0, <2>2 DEF SkipTracking, Track, Goto
  <2>3. QED
    BY <1>3, <2>1, <2>2 DEF EnterLock
<1>4. FinishTracking(p) => ~AtTrack(p)'
  BY <1>0 DEF FinishTracking, Track, Goto
<1>5. HolderStep => LockIsFree'
  <2> SUFFICES ASSUME NEW q \in Procs, callMu = q, FinishTracking(q) PROVE callMu' = None
    BY DEF HolderStep
  <2>1. T!Inserting(q)
    BY DEF TellHolds, TellInv, LogInv, T!IInv, T!TypeInv, T!LockHeld, T!Inserting
  <2>2. C!StartInsert(q)
    BY <2>1 DEF FinishTracking, C!EndUpdate, T!Inserting
  <2>3. QED
    BY <2>2 DEF C!StartInsert
<1>6. QED
  BY <1>1, <1>2, <1>3, <1>4, <1>5

\* callMu comes free again and again.
LEMMA LockComesFree == CallsFairSpec /\ []ServerCanGoOn => []<>LockIsFree
<1>1. TellHolds /\ <<HolderStep>>_allVars /\ [CallsNext]_allVars => LockIsFree'
  <2> SUFFICES ASSUME TellHolds, HolderStep, [CallsNext]_allVars PROVE LockIsFree'
    OBVIOUS
  <2>1. PICK p \in Procs : FinishTracking(p)
    BY DEF HolderStep
  <2>2. QED
    BY <2>1, TrackingSteps
<1>2. ServerCanGoOn => HolderIsEnabled
  BY DEF ServerCanGoOn
<1>3. CallsFairSpec => CallsSpec /\ HolderRuns
  BY DEF CallsFairSpec
<1>4. QED
  BY <1>1, <1>2, <1>3, TellAlways, PTL DEF CallsSpec, HolderRuns, HolderIsEnabled

LeavesTracking(p) == AtTrack(p) ~> ~AtTrack(p)

\* Nobody who waits for callMu starves, and nobody stays in the middle of tracking.
LEMMA TrackingEnds ==
  ASSUME NEW p \in Procs
  PROVE  CallsFairSpec /\ []ServerCanGoOn => LeavesTracking(p)
<1>1. TellHolds /\ [CallsNext]_allVars =>
        /\ Waiting(p) => Waiting(p)' \/ Midway(p)' \/ ~AtTrack(p)'
        /\ Midway(p) => Midway(p)' \/ ~AtTrack(p)'
  BY TrackingSteps
<1>2. TellHolds /\ [CallsNext]_allVars /\ Waiting(p) /\ <<EnterLock(p)>>_allVars => ~Waiting(p)'
  BY TrackingSteps
<1>3. TellHolds /\ [CallsNext]_allVars /\ <<FinishTracking(p)>>_allVars => ~AtTrack(p)'
  BY TrackingSteps
<1>4. AtTrack(p) => Waiting(p) \/ Midway(p)
  BY DEF Waiting, Midway
<1>5. ServerCanGoOn => EntryIsEnabled(p) /\ FinishIsEnabled(p)
  BY DEF ServerCanGoOn
<1>6. CallsFairSpec => CallsSpec /\ TrackingRuns(p) /\ LockIsGranted(p)
  BY DEF CallsFairSpec
<1>7. QED
  BY <1>1, <1>2, <1>3, <1>4, <1>5, <1>6, LockComesFree, TellAlways, PTL
     DEF CallsSpec, TrackingRuns, LockIsGranted, EntryIsEnabled, FinishIsEnabled, LeavesTracking

\* Tracking keeps no message for good: not even the handlers of a hangup that finds
\* callMu taken over and over (signaling.go:364-429).
THEOREM TrackingLetsGo == CallsFairSpec /\ []ServerCanGoOn => TrackingReturns
<1>1. ASSUME NEW p \in Procs
      PROVE  CallsFairSpec /\ []ServerCanGoOn => ((pc[p] = "track") ~> ~(pc[p] = "track"))
  BY TrackingEnds, PTL DEF LeavesTracking, AtTrack
<1>2. QED
  BY <1>1 DEF TrackingReturns

\* So the handlers of the composition proceed, as those of Signaling do.
LEMMA TrackingHandlersProceed ==
  ASSUME NEW c \in Conns
  PROVE  CallsFairSpec /\ []ServerCanGoOn => Spec /\ Proceeds(c)
<1>1. CallsFairSpec => CallsSpec /\ HandlerRuns(c)
  BY DEF CallsFairSpec
<1>2. ServerCanGoOn => OwnIsEnabled(c) /\ FailIsEnabled(c)
  BY DEF ServerCanGoOn
<1>3. /\ <<OwnStep(c)>>_allVars => <<HandlerStep(c)>>_vars
      /\ <<FailRead(c)>>_allVars => <<ReadError(c)>>_vars
  BY DEF OwnStep, FailRead, PassOn, HandlerStep, Relay, allVars
<1>4. CallsFairSpec /\ []ServerCanGoOn => LeavesTracking(c)
  BY TrackingEnds DEF Procs
<1>5. QED
  BY <1>1, <1>2, <1>3, <1>4, ImplementsSignaling, PTL
     DEF HandlerRuns, OwnIsEnabled, FailIsEnabled, Proceeds, LeavesTracking

\* With its call tracking, too, the server retires superseded handlers and notices
\* departures: neither a full call log nor a wait for callMu keeps a dead session
\* online (signaling.go:218-261, 304-317).
THEOREM SessionsEndDespiteTracking ==
  CallsFairSpec /\ []ServerCanGoOn => SupersededLeaves /\ DepartureIsNoticed
<1>1. ASSUME NEW c \in Conns
      PROVE  CallsFairSpec /\ []ServerCanGoOn => (Superseded(c) ~> (pc[c] = "done" \/ Blocked(c)))
  BY TrackingHandlersProceed, SupersededEnds, PTL
<1>2. ASSUME NEW c \in Conns
      PROVE  CallsFairSpec /\ []ServerCanGoOn =>
               ((pc[c] \in InSession \ {"authok"} /\ link[c] = "closed")
                  ~> ((\A k \in Keys : peers[k] # c) \/ Blocked(c)))
  BY TrackingHandlersProceed, DepartedIsAbsent, PTL
<1>3. QED
  BY <1>1, <1>2 DEF SupersededLeaves, DepartureIsNoticed

\* And a hangup that a client has sent ends its call in the log, once its goroutine
\* has taken the call.
THEOREM HangupsEndCallsOfTheServer == CallsFairSpec /\ []ServerCanGoOn => T!HangupEndsCall
<1>1. ASSUME NEW p \in Procs, NEW n \in 1..MaxCalls
      PROVE  CallsFairSpec /\ []ServerCanGoOn => ((p \in T!Ending(n)) ~> T!Over(n))
  <2>1. TellHolds /\ p \in T!Ending(n) => Midway(p)
    <3> SUFFICES ASSUME TellHolds, p \in T!Ending(n) PROVE Midway(p)
      OBVIOUS
    <3>1. T!Updating(p)
      BY DEF T!Ending, T!Updating
    <3>2. QED
      BY <3>1 DEF TellHolds, TellInv, MidTracking, Midway, AtTrack, T!Idle, T!Updating
  <2>2. TellHolds /\ p \in T!Ending(n) /\ [CallsNext]_allVars => (p \in T!Ending(n))' \/ T!Over(n)'
    <3>1. TellHolds /\ [CallsNext]_allVars => [T!Next]_(T!vars) /\ T!IInv
      BY TrackingStep, SameTracking DEF TellHolds, TellInv, LogInv, allVars, callVars, T!vars
    <3>2. T!IInv /\ p \in T!Ending(n) /\ [T!Next]_(T!vars) => (p \in T!Ending(n))' \/ T!Over(n)'
      BY TrackingAssumptions, T!EndingStays
    <3>3. QED
      BY <3>1, <3>2
  <2>3. TellHolds /\ p \in T!Ending(n) /\ <<FinishTracking(p)>>_allVars => T!Over(n)'
    <3>1. FinishTracking(p) => T!StartInsert(p) \/ T!EndUpdate(p)
      BY SameTracking DEF FinishTracking
    <3>2. T!IInv /\ p \in T!Ending(n) /\ (T!StartInsert(p) \/ T!EndUpdate(p)) => T!Over(n)'
      BY TrackingAssumptions, T!UpdateIsEnd
    <3>3. QED
      BY <3>1, <3>2 DEF TellHolds, TellInv, LogInv
  <2>4. ServerCanGoOn => FinishIsEnabled(p)
    BY DEF ServerCanGoOn
  <2>5. CallsFairSpec => CallsSpec /\ TrackingRuns(p)
    BY DEF CallsFairSpec
  <2>6. QED
    BY <2>1, <2>2, <2>3, <2>4, <2>5, TellAlways, PTL DEF CallsSpec, TrackingRuns, FinishIsEnabled
<1>2. QED
  BY <1>1 DEF T!HangupEndsCall

===============================================================================
