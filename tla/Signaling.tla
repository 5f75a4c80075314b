------------------------------- MODULE Signaling -------------------------------
(***************************************************************************)
(* The WebSocket signaling server of internal/signaling/signaling.go: one  *)
(* handler goroutine per connection (handleWS), bridge goroutines that     *)
(* inject messages (SendMessage), the peers registry under s.mu, the       *)
(* internal peers under internalMu, and Stop.                              *)
(*                                                                         *)
(* One action is one stretch of a goroutine between two points where       *)
(* another goroutine can run: a critical section of s.mu or internalMu, or *)
(* one Read or Write of a connection.  Every connection is used by one     *)
(* invocation of handleWS, so a connection also names its handler.         *)
(***************************************************************************)
EXTENDS Naturals, Sequences

CONSTANTS Keys,      \* public keys (hex strings in the code)
          Conns,     \* WebSocket connections, one handler each
          Bridges,   \* goroutines that call SendMessage
          MsgTypes,  \* message types relay forwards
          None,      \* no connection, no key, no 'to' field
          Sluggish,  \* bound: connections whose client may stop reading
          Internals, \* keys of the internal peers (the bridges send under these)
          MaxSends   \* bound: frames read from clients or sent by bridges

Procs == Conns \cup Bridges

ASSUME NamesAreDistinct == /\ None \notin Procs \cup Keys
                           /\ Conns \cap Bridges = {}
ASSUME BoundsAreSubsets == /\ Sluggish \subseteq Conns
                           /\ Internals \subseteq Keys
                           /\ MaxSends \in Nat

VARIABLES
  phase,     \* "serving", "cleared" (Stop holds no lock any more), "stopped"
  peers,     \* s.peers: the connection registered for a key, or None
  internal,  \* keys of s.internalPeers
  pc,        \* where each goroutine is
  pubKey,    \* the key each handler authenticated, or None
  ctx,       \* the handler's context: "live" or "cancelled"
  link,      \* the connection: "new", "open", "stalled" (its client has stopped
             \* reading and its buffers are full) or "closed"
  msg,       \* the message each goroutine is relaying
  target,    \* relay's local variable `target`
  inbox,     \* relayed frames written to each connection (auth_ok, pongs and
             \* errors are not recorded)
  handled,   \* messages given to the internal handler of each key
  sends      \* frames read or injected so far

vars == <<phase, peers, internal, pc, pubKey, ctx, link, msg, target,
          inbox, handled, sends>>

registry == <<phase, peers, internal>>
wire     == <<link, inbox, handled>>

(* Relayed frames.  src and n tell one from another; the code has neither. *)
Frame == [type : MsgTypes, src : Procs, n : Nat, from : Keys, to : Keys]

Relaying  == {"track", "lookup", "send", "internal", "callback"}
InSession == {"authok", "reading", "reply", "unregister"} \cup Relaying
Places    == {"new", "auth", "register", "done", "idle"} \cup InSession

TypeOK == /\ phase \in {"serving", "cleared", "stopped"}
          /\ peers \in [Keys -> Conns \cup {None}]
          /\ internal \subseteq Internals
          /\ pc \in [Procs -> Places]
          /\ pubKey \in [Conns -> Keys \cup {None}]
          /\ ctx \in [Conns -> {"live", "cancelled"}]
          /\ link \in [Conns -> {"new", "open", "stalled", "closed"}]
          /\ msg \in [Procs -> Frame \cup {None}]
          /\ target \in [Procs -> Conns \cup {None}]
          /\ inbox \in [Conns -> Seq(Frame)]
          /\ handled \in [Keys -> Seq(Frame)]
          /\ sends \in Nat

Init == /\ phase = "serving"
        /\ peers = [k \in Keys |-> None]
        /\ internal = {}
        /\ pc = [p \in Procs |-> IF p \in Conns THEN "new" ELSE "idle"]
        /\ pubKey = [c \in Conns |-> None]
        /\ ctx = [c \in Conns |-> "live"]
        /\ link = [c \in Conns |-> "new"]
        /\ msg = [p \in Procs |-> None]
        /\ target = [p \in Procs |-> None]
        /\ inbox = [c \in Conns |-> <<>>]
        /\ handled = [k \in Keys |-> <<>>]
        /\ sends = 0

Goto(p, place) == pc' = [pc EXCEPT ![p] = place]

(***************************************************************************)
(* The clients and the network.                                            *)
(***************************************************************************)

Up(c) == link[c] \in {"open", "stalled"}

\* The client goes away, or the network drops the connection.
ClientClose(c) == /\ Up(c)
                  /\ link' = [link EXCEPT ![c] = "closed"]
                  /\ UNCHANGED <<registry, pc, pubKey, ctx, msg, target,
                                 inbox, handled, sends>>

\* The client stops draining its socket, or starts again.
Stall(c) == /\ Up(c)
            /\ c \in Sluggish
            /\ link' = [link EXCEPT ![c] = IF @ = "open" THEN "stalled" ELSE "open"]
            /\ UNCHANGED <<registry, pc, pubKey, ctx, msg, target,
                           inbox, handled, sends>>

\* The WebSocket library closes a connection that is being read or written
\* under a cancelled context.
CloseCancelled(c) == /\ Up(c)
                     /\ ctx[c] = "cancelled"
                     /\ pc[c] \in {"auth", "authok", "reading", "reply"}
                     /\ link' = [link EXCEPT ![c] = "closed"]
                     /\ UNCHANGED <<registry, pc, pubKey, ctx, msg, target,
                                    inbox, handled, sends>>

(***************************************************************************)
(* handleWS, up to the read loop.                                          *)
(***************************************************************************)

\* websocket.Accept and the handler's context.  The listener is closed only
\* by srv.Shutdown, the last statement of Stop.
Accept(c) == /\ pc[c] = "new"
             /\ phase # "stopped"
             /\ Goto(c, "auth")
             /\ link' = [link EXCEPT ![c] = "open"]
             /\ UNCHANGED <<registry, pubKey, ctx, msg, target,
                            inbox, handled, sends>>

\* The handler returns: its connection is closed and its context cancelled.
Return(c) == /\ Goto(c, "done")
             /\ link' = [link EXCEPT ![c] = "closed"]
             /\ ctx' = [ctx EXCEPT ![c] = "cancelled"]

\* The first read fails, or the first frame is not an auth message with a key.
AuthReject(c) == /\ pc[c] = "auth"
                 /\ Return(c)
                 /\ UNCHANGED <<registry, pubKey, msg, target,
                                inbox, handled, sends>>

\* The first frame is an auth message that names key k.
Authenticate(c, k) == /\ pc[c] = "auth"
                      /\ Up(c)
                      /\ Goto(c, "register")
                      /\ pubKey' = [pubKey EXCEPT ![c] = k]
                      /\ UNCHANGED <<registry, ctx, wire, msg, target, sends>>

\* Mutant: a reconnect that leaves the older handler's context alone.
CancelNone(k) == ctx

\* The contexts after the registered connection of key k, if any, is cancelled.
CancelExisting(k) ==
  [c \in Conns |-> IF peers[k] = c THEN "cancelled" ELSE ctx[c]]

\* The critical section that takes the key over.  It does not look at phase.
Register(c) == /\ pc[c] = "register"
               /\ ctx' = CancelExisting(pubKey[c])
               /\ peers' = [peers EXCEPT ![pubKey[c]] = c]
               /\ Goto(c, "authok")
               /\ UNCHANGED <<phase, internal, pubKey, wire, msg, target, sends>>

\* A frame written to an open connection reaches the client's buffer; a write
\* to a full buffer waits, and one to a closed connection is lost.
CanWrite(c) == link[c] # "stalled"

Deliver(c, frame) == inbox' = IF link[c] = "open"
                              THEN [inbox EXCEPT ![c] = Append(@, frame)]
                              ELSE inbox

AuthOk(c) == /\ pc[c] = "authok"
             /\ CanWrite(c)
             /\ Goto(c, "reading")
             /\ UNCHANGED <<registry, pubKey, ctx, wire, msg, target, sends>>

\* The write fails because the client is gone or the handler was superseded.
\* The handler returns before it has deferred its own removal from s.peers.
AuthOkFail(c) == /\ pc[c] = "authok"
                 /\ link[c] = "closed" \/ ctx[c] = "cancelled"
                 /\ Return(c)
                 /\ UNCHANGED <<registry, pubKey, msg, target,
                                inbox, handled, sends>>

(***************************************************************************)
(* The read loop.                                                          *)
(***************************************************************************)

\* Mutant: trust the 'from' field of the frame.
ClaimedFrom(c, claimed) == claimed

\* The sender a relayed message carries, whatever the client claimed.
EnforcedFrom(c, claimed) == pubKey[c]

\* Read a frame whose type relay forwards.  (One without a 'to' field makes
\* relay return at once and changes nothing: a stuttering step.)
ReadRelay(c, claimed, to, type) ==
  /\ pc[c] = "reading"
  /\ Up(c)
  /\ sends < MaxSends
  /\ sends' = sends + 1
  /\ msg' = [msg EXCEPT ![c] = [type |-> type, src |-> c, n |-> sends',
                                from |-> EnforcedFrom(c, claimed), to |-> to]]
  /\ Goto(c, "track")
  /\ UNCHANGED <<registry, pubKey, ctx, wire, target>>

\* Read a ping, a frame of unknown type or one that does not parse.
ReadOther(c) == /\ pc[c] = "reading"
                /\ Up(c)
                /\ Goto(c, "reply")
                /\ UNCHANGED <<registry, pubKey, ctx, wire, msg, target, sends>>

\* Write the pong or the error under the handler's own context.
Reply(c) == /\ pc[c] = "reply"
            /\ CanWrite(c) \/ ctx[c] = "cancelled"
            /\ Goto(c, "reading")
            /\ UNCHANGED <<registry, pubKey, ctx, wire, msg, target, sends>>

ReadError(c) == /\ pc[c] = "reading"
                /\ link[c] = "closed" \/ ctx[c] = "cancelled"
                /\ link' = [link EXCEPT ![c] = "closed"]
                /\ Goto(c, "unregister")
                /\ UNCHANGED <<registry, pubKey, ctx, msg, target,
                               inbox, handled, sends>>

\* Mutants: remove whatever the key is registered to; forget the removal.
PeersWithoutKey(c) == [peers EXCEPT ![pubKey[c]] = None]
PeersKept(c) == peers

\* s.peers once the handler of c has removed its own entry, if it has one.
PeersWithout(c) == IF peers[pubKey[c]] = c
                   THEN [peers EXCEPT ![pubKey[c]] = None]
                   ELSE peers

\* The deferred removal, then the deferred cancel.
Unregister(c) == /\ pc[c] = "unregister"
                 /\ peers' = PeersWithout(c)
                 /\ Return(c)
                 /\ UNCHANGED <<phase, internal, pubKey, msg, target,
                                inbox, handled, sends>>

(***************************************************************************)
(* relay, run by a handler or by a bridge.                                 *)
(***************************************************************************)

\* relay returns: to the read loop, or to the caller of SendMessage.
Caller(p) == IF p \in Conns THEN "reading" ELSE "idle"

Finish(p) == /\ Goto(p, Caller(p))
             /\ msg' = [msg EXCEPT ![p] = None]
             /\ target' = [target EXCEPT ![p] = None]

\* SendMessage "sends a signaling message from an internal peer", which writes the
\* 'from' field itself.
BridgeSend(b, from, to, type) ==
  /\ pc[b] = "idle"
  /\ sends < MaxSends
  /\ sends' = sends + 1
  /\ msg' = [msg EXCEPT ![b] = [type |-> type, src |-> b, n |-> sends',
                                from |-> from, to |-> to]]
  /\ Goto(b, "track")
  /\ UNCHANGED <<registry, pubKey, ctx, wire, target>>

\* trackCallStart and trackCallEnd have returned.  What they do to the call
\* log is CallTracking; without a database they do nothing.
Track(p) == /\ pc[p] = "track"
            /\ Goto(p, "lookup")
            /\ UNCHANGED <<registry, pubKey, ctx, wire, msg, target, sends>>

\* Mutant: use the result of the lookup without looking at `ok`.
LookupUnchecked(p) == /\ pc[p] = "lookup"
                      /\ target' = [target EXCEPT ![p] = peers[msg[p].to]]
                      /\ Goto(p, "send")
                      /\ UNCHANGED <<registry, pubKey, ctx, wire, msg, sends>>

\* Read s.peers under the read lock; the pointer is used after the unlock.
Lookup(p) == /\ pc[p] = "lookup"
             /\ target' = [target EXCEPT ![p] = peers[msg[p].to]]
             /\ Goto(p, IF peers[msg[p].to] # None THEN "send" ELSE "internal")
             /\ UNCHANGED <<registry, pubKey, ctx, wire, msg, sends>>

\* Mutant: without the return of line 318 the internal peer gets it as well.
AfterSendFallThrough(p) == Goto(p, "internal") /\ UNCHANGED <<msg, target>>

\* relay returns once it has written to a WebSocket peer.
AfterSend(p) == Finish(p)

\* Write to the recipient under context.Background(): only the recipient's
\* client, or the end of its connection, ends the wait.
Send(p) == /\ pc[p] = "send"
           /\ CanWrite(target[p])
           /\ Deliver(target[p], msg[p])
           /\ AfterSend(p)
           /\ UNCHANGED <<registry, pubKey, ctx, link, handled, sends>>

\* Read s.internalPeers under its read lock; a message for nobody is dropped.
LookupInternal(p) ==
  /\ pc[p] = "internal"
  /\ IF msg[p].to \in internal
     THEN Goto(p, "callback") /\ UNCHANGED <<msg, target>>
     ELSE Finish(p)
  /\ UNCHANGED <<registry, pubKey, ctx, wire, sends>>

\* Call the internal handler, with no lock held.
Callback(p) == /\ pc[p] = "callback"
               /\ handled' = [handled EXCEPT ![msg[p].to] = Append(@, msg[p])]
               /\ Finish(p)
               /\ UNCHANGED <<registry, pubKey, ctx, link, inbox, sends>>

(***************************************************************************)
(* RegisterInternalPeer, UnregisterInternalPeer and Stop.                  *)
(***************************************************************************)
RegisterInternal(k) ==
  /\ internal' = internal \cup {k}
  /\ UNCHANGED <<phase, peers, pc, pubKey, ctx, wire, msg, target, sends>>

UnregisterInternal(k) ==
  /\ internal' = internal \ {k}
  /\ UNCHANGED <<phase, peers, pc, pubKey, ctx, wire, msg, target, sends>>

Registered == {c \in Conns : \E k \in Keys : peers[k] = c}

\* The critical section of Stop: close and cancel every registered
\* connection, then start from an empty registry.
StopClear ==
  /\ phase = "serving"
  /\ phase' = "cleared"
  /\ link' = [c \in Conns |-> IF c \in Registered THEN "closed" ELSE link[c]]
  /\ ctx' = [c \in Conns |-> IF c \in Registered THEN "cancelled" ELSE ctx[c]]
  /\ peers' = [k \in Keys |-> None]
  /\ UNCHANGED <<internal, pc, pubKey, msg, target, inbox, handled, sends>>

\* srv.Shutdown: it closes the listener, and neither closes nor waits for the
\* hijacked WebSocket connections.
StopShutdown == /\ phase = "cleared"
                /\ phase' = "stopped"
                /\ UNCHANGED <<peers, internal, pc, pubKey, ctx, wire, msg, target, sends>>

(***************************************************************************)
(* The specification.                                                      *)
(***************************************************************************)
Relay(p) == Track(p) \/ Lookup(p) \/ Send(p) \/ LookupInternal(p) \/ Callback(p)

Handshake(c) == Register(c) \/ AuthOk(c) \/ AuthOkFail(c)
Leave(c)     == ReadError(c) \/ Unregister(c) \/ CloseCancelled(c)

\* What a handler does without waiting for a client to send something.
HandlerStep(c) == Handshake(c) \/ Reply(c) \/ Leave(c) \/ Relay(c)

ClientStep(c) == \/ Accept(c) \/ AuthReject(c) \/ ClientClose(c) \/ Stall(c)
                 \/ \E k \in Keys : Authenticate(c, k)
                 \/ \E claimed \in Keys, to \in Keys, type \in MsgTypes :
                      ReadRelay(c, claimed, to, type)
                 \/ ReadOther(c)

BridgeStep(b) == \/ \E from \in Internals, to \in Keys, type \in MsgTypes :
                      BridgeSend(b, from, to, type)
                 \/ Relay(b)

Next == \/ \E c \in Conns : HandlerStep(c) \/ ClientStep(c)
        \/ \E b \in Bridges : BridgeStep(b)
        \/ \E k \in Internals : RegisterInternal(k) \/ UnregisterInternal(k)
        \/ StopClear
        \/ StopShutdown

Spec == Init /\ [][Next]_vars

\* The Go scheduler runs every goroutine that can go on; a Read under a
\* cancelled context does not for ever find one more buffered frame; a write
\* to a client that drains its socket again and again goes through.  Nothing is
\* assumed of clients: they may stay silent, connected and stalled.
HandlerGoesOn(c)    == WF_vars(HandlerStep(c))
ReadFails(c)        == SF_vars(ReadError(c))
RelayGoesOn(b)      == WF_vars(Relay(b))
WriteGetsThrough(p) == SF_vars(Send(p))

FairSpec == /\ Spec
            /\ \A c \in Conns : HandlerGoesOn(c) /\ ReadFails(c)
            /\ \A b \in Bridges : RelayGoesOn(b)
            /\ \A p \in Procs : WriteGetsThrough(p)

(***************************************************************************)
(* Safety.                                                                 *)
(***************************************************************************)

\* relay never writes to a nil peer: TypeOK, and a goroutine about to write
\* has a connection to write to (`target.Conn`, signaling.go:317).
TypeInv == TypeOK /\ \A p \in Procs : pc[p] = "send" => target[p] # None

\* A handler whose context nobody cancelled is the one its key is registered
\* to, from the critical section that registers it to the one that removes it.
\* So a user whose session is alive is reachable, and the clean-up of an older
\* session for the same key can never unregister it (signaling.go:253-256).
LiveSessionIsRegistered ==
  \A c \in Conns : pc[c] \in InSession /\ ctx[c] = "live" => peers[pubKey[c]] = c

\* The converse bookkeeping: an entry of s.peers is a connection that
\* authenticated that very key.
EntriesMatchKeys ==
  \A k \in Keys : peers[k] # None => pubKey[peers[k]] = k

\* A message reaches only a session or an internal peer of the key it is
\* addressed to, and one that came from a client carries the key that client
\* authenticated, although target is used after s.mu is released and the
\* recipient may have reconnected meanwhile (signaling.go:274, 312-317).
DeliveredAsAddressed ==
  LET Honest(f) == f.src \in Conns => f.from = pubKey[f.src]
  IN  /\ \A c \in Conns : \A i \in DOMAIN inbox[c] :
           inbox[c][i].to = pubKey[c] /\ Honest(inbox[c][i])
      /\ \A k \in Keys : \A i \in DOMAIN handled[k] :
           handled[k][i].to = k /\ Honest(handled[k][i])

\* A message is delivered to at most one place, and the messages of one sender
\* reach each place in the order it sent them: an ICE candidate never overtakes
\* the offer it belongs to (relay returns after the first match, 316-319).
RelayedOnceInOrder ==
  LET Places2  == Conns \cup Keys
      Log(x)   == IF x \in Conns THEN inbox[x] ELSE handled[x]
  IN  /\ \A x \in Places2 : \A i, j \in DOMAIN Log(x) :
           i < j /\ Log(x)[i].src = Log(x)[j].src => Log(x)[i].n < Log(x)[j].n
      /\ \A x, y \in Places2 : \A i \in DOMAIN Log(x), j \in DOMAIN Log(y) :
           Log(x)[i].n = Log(y)[j].n => x = y

(***************************************************************************)
(* Refinement: who is online, as Presence promises it.                     *)
(***************************************************************************)
Ended  == {c \in Conns : pc[c] = "done" /\ pubKey[c] # None}
Opened == {c \in Conns : pc[c] \in InSession} \cup Ended

P == INSTANCE Presence WITH
       Sessions <- Conns, online <- peers, opened <- Opened, ended <- Ended

\* Every step on the registry is a login, the end of one session or a shutdown:
\* an older handler's deferred clean-up never shows as anything else.
PresenceSpec == P!Spec

(***************************************************************************)
(* Liveness.                                                               *)
(***************************************************************************)
Superseded(c) == pc[c] \in InSession /\ peers[pubKey[c]] # c

\* The handler is inside a write to another client that has stopped reading.
Blocked(c) == pc[c] = "send" /\ link[target[c]] = "stalled"

\* A reconnect retires the handler it replaces, unless a recipient that does
\* not read holds that handler in a write.
SupersededLeaves ==
  \A c \in Conns : Superseded(c) ~> (pc[c] = "done" \/ Blocked(c))

\* A client that disconnects during its session stops being online.
DepartureIsNoticed ==
  \A c \in Conns : (pc[c] \in InSession \ {"authok"} /\ link[c] = "closed")
                     ~> (\A k \in Keys : peers[k] # c) \/ Blocked(c)

(***************************************************************************)
(* What a comment says, and the code does not do.                          *)
(***************************************************************************)

\* signaling.go:147: IsUserOnline "checks if a user (by public key) has an
\* active WebSocket connection".  An entry whose handler has returned has none
\* and no code is left that would remove it.
OnlineHasConnection ==
  \A k \in Keys : peers[k] # None => pc[peers[k]] # "done"

===============================================================================
