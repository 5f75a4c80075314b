------------------------------- MODULE SipBridge -------------------------------
(***************************************************************************)
(* The SIP bridge (internal/sip/sip.go): the webhooks by which the VoIP    *)
(* provider reports calls, activeCalls, and the rows of call_log they      *)
(* open and close.                                                         *)
(*                                                                         *)
(* A webhook handler is a critical section of b.mu and several SQL         *)
(* statements, and other handlers run in between, those of the same call   *)
(* included: the provider sends a webhook when something happens, repeats  *)
(* it as often as it likes, and what it has sent may arrive in any order.  *)
(* The server may crash at any point.  Rows are found by caller and callee *)
(* and not by their call.                                                  *)
(*                                                                         *)
(* (handleCallAnswered and the two GET handlers only read.)                *)
(***************************************************************************)
EXTENDS Naturals, FiniteSets, Tables, Functions

CONSTANTS Calls,    \* call control ids of the provider
          Phones,   \* phone numbers that call, or are called from here
          Keys,     \* public keys of the users, who each have a DID
          None,     \* no user
          Caller,   \* the phone of each call's caller
          Dialled,  \* the user whose DID the call is for, or None
          Inbound,  \* calls that come in; the others are originated here
          Handlers, \* webhook handlers at work at the same time
          MaxRows,  \* bound: rows logged
          MaxStarts \* bound: times the server is started again

ASSUME NoneIsNoUser == None \notin Keys
ASSUME CallsAreGiven == /\ Caller \in [Calls -> Phones]
                        /\ Dialled \in [Calls -> Keys \cup {None}]
                        /\ Inbound \subseteq Calls
ASSUME SipBounds == MaxRows \in Nat /\ MaxStarts \in Nat

VARIABLES
  stage,    \* the call at the provider: "new"; "initiated" until a webhook that says
            \* so is answered, then "up"; "hangup" until that one is answered, then "over"
  work,     \* what each handler is in the middle of
  active,   \* b.activeCalls: the CalleeKey of each call, or None
  users,    \* keys that have a row in the users table
  callLog,  \* the call_log table
  starts,   \* restarts so far
  forgotten, \* history: calls under way in a crash and not reported again since
  late      \* history: calls with a call.initiated at work when they were hung up,
            \* or come in after that

vars == <<stage, work, active, users, callLog, starts, forgotten, late>>
history == <<starts, forgotten, late>>

Row == [call : Calls, phone : Phones, callee : Keys, ended : BOOLEAN]

Idle == [at |-> "idle"]
Work == [at : {"idle"}]
          \cup [at : {"store"}, call : Calls, callee : Keys \cup {None}]
          \cup [at : {"owner", "insert", "update"}, call : Calls, callee : Keys]
          \cup [at : {"respond"}, call : Calls, hook : {"initiated", "hangup"}]

TypeOK == /\ stage \in [Calls -> {"new", "initiated", "up", "hangup", "over"}]
          /\ work \in [Handlers -> Work]
          /\ DOMAIN active \subseteq Calls
          /\ \A c \in DOMAIN active : active[c] \in Keys \cup {None}
          /\ users \subseteq Keys
          /\ DOMAIN callLog \subseteq Nat
          /\ \A id \in DOMAIN callLog : callLog[id] \in Row
          /\ starts \in 0..MaxStarts
          /\ forgotten \subseteq Calls /\ late \subseteq Calls

Init == /\ stage = [c \in Calls |-> "new"]
        /\ work = [h \in Handlers |-> Idle]
        /\ active = EmptyTable
        /\ users \in SUBSET Keys
        /\ callLog = EmptyTable
        /\ starts = 0
        /\ forgotten = {} /\ late = {}

At(h, place) == work[h].at = place
Goto(h, w) == work' = [work EXCEPT ![h] = w]
Answer(h, hook) == Goto(h, [at |-> "respond", call |-> work[h].call, hook |-> hook])

Begun == {"initiated", "up", "hangup", "over"}
Ended == {"hangup", "over"}

\* A call.initiated of c is being handled, and may still track and log the call.
Initiating(h, c) == work[h].at \in {"store", "owner", "insert"} /\ work[h].call = c

(***************************************************************************)
(* The provider and its calls.                                             *)
(***************************************************************************)
Initiate(c) == /\ stage[c] = "new"
               /\ stage' = [stage EXCEPT ![c] = "initiated"]
               /\ UNCHANGED <<work, active, users, callLog, history>>

HangUp(c) == /\ stage[c] \in {"initiated", "up"}
             /\ stage' = [stage EXCEPT ![c] = "hangup"]
             /\ late' = late \cup {d \in {c} : \E h \in Handlers : Initiating(h, d)}
             /\ UNCHANGED <<work, active, users, callLog, starts, forgotten>>

\* Where a call is once the webhook is answered.
Answered(hook, place) == IF hook = "initiated" /\ place = "initiated" THEN "up"
                         ELSE IF hook = "hangup" /\ place = "hangup" THEN "over"
                         ELSE place

\* The handler has returned.  The provider sees its 200, or does not.
Respond(h) ==
  /\ At(h, "respond")
  /\ Goto(h, Idle)
  /\ stage' \in {stage, [stage EXCEPT ![work[h].call] = Answered(work[h].hook, @)]}
  /\ UNCHANGED <<active, users, callLog, history>>

(***************************************************************************)
(* handleCallInitiated.                                                    *)
(***************************************************************************)

\* SELECT public_key .. JOIN dids WHERE number = To, for inbound calls.
Callee(c) == IF c \in Inbound /\ Dialled[c] \in users THEN Dialled[c] ELSE None

\* It runs for the first webhook of the call and for every repeated one.
Resolve(h, c) == /\ At(h, "idle")
                 /\ stage[c] \in Begun
                 /\ Goto(h, [at |-> "store", call |-> c, callee |-> Callee(c)])
                 /\ late' = late \cup {d \in {c} : stage[d] \in Ended}
                 /\ UNCHANGED <<stage, active, users, callLog, starts, forgotten>>

\* The critical section.  A call for nobody known is not logged.
Store(h) ==
  LET c == work[h].call
      callee == work[h].callee
  IN  /\ At(h, "store")
      /\ active' = [d \in DOMAIN active \cup {c} |-> IF d = c THEN callee ELSE active[d]]
      /\ forgotten' = forgotten \ {c}
      /\ IF callee = None THEN Answer(h, "initiated")
         ELSE Goto(h, [at |-> "owner", call |-> c, callee |-> callee])
      /\ UNCHANGED <<stage, users, callLog, starts, late>>

\* SELECT id FROM users WHERE public_key = CalleeKey.
FindOwner(h) ==
  /\ At(h, "owner")
  /\ IF work[h].callee \in users THEN Goto(h, [work[h] EXCEPT !.at = "insert"])
                                 ELSE Answer(h, "initiated")
  /\ UNCHANGED <<stage, active, users, callLog, history>>

\* Mutant: a call_log without its foreign key.
NoForeignKey(k) == TRUE

ForeignKey(k) == k \in users

\* INSERT INTO call_log; the foreign key fails it when the user is gone.
Insert(h) ==
  LET c == work[h].call
  IN  /\ At(h, "insert")
      /\ callLog' = IF ForeignKey(work[h].callee)
                    THEN InsertRow(callLog, [call |-> c, phone |-> Caller[c],
                                             callee |-> work[h].callee, ended |-> FALSE])
                    ELSE callLog
      /\ Cardinality(DOMAIN callLog') <= MaxRows
      /\ Answer(h, "initiated")
      /\ UNCHANGED <<stage, active, users, history>>

(***************************************************************************)
(* handleCallHangup.                                                       *)
(***************************************************************************)

\* Mutants: remove every call of the line; leave calls for nobody known.
WithoutLine(c) ==
  Restrict(active, {d \in DOMAIN active : <<Caller[d], active[d]>> # <<Caller[c], active[c]>>})
WithoutLogged(c) == IF active[c] = None THEN active ELSE Restrict(active, DOMAIN active \ {c})

Without(c) == Restrict(active, DOMAIN active \ {c})

\* The critical section.  A call that is not tracked is ignored.
Take(h, c) ==
  /\ At(h, "idle")
  /\ stage[c] \in Ended
  /\ active' = IF c \in DOMAIN active THEN Without(c) ELSE active
  /\ Goto(h, IF c \in DOMAIN active /\ active[c] # None
             THEN [at |-> "update", call |-> c, callee |-> active[c]]
             ELSE [at |-> "respond", call |-> c, hook |-> "hangup"])
  /\ UNCHANGED <<stage, users, callLog, history>>

OpenRows == RowsWhere(callLog, LAMBDA row : ~row.ended)

\* Mutants: close the newest row only; close whatever the callee has open.
NewestOfLine(phone, callee) ==
  LET open == {id \in OpenRows : callLog[id].phone = phone /\ callLog[id].callee = callee}
  IN  {id \in open : \A other \in open : other <= id}
OpenOfCallee(phone, callee) == {id \in OpenRows : callLog[id].callee = callee}

OpenOfLine(phone, callee) ==
  {id \in OpenRows : callLog[id].phone = phone /\ callLog[id].callee = callee}

\* UPDATE .. WHERE callee_key = ? AND caller_phone = ? AND ended_at IS NULL.
Update(h) ==
  LET closed == OpenOfLine(Caller[work[h].call], work[h].callee)
  IN  /\ At(h, "update")
      /\ callLog' = [id \in DOMAIN callLog |->
                       [callLog[id] EXCEPT !.ended = @ \/ id \in closed]]
      /\ Answer(h, "hangup")
      /\ UNCHANGED <<stage, active, users, history>>

(***************************************************************************)
(* Accounts and crashes.                                                   *)
(***************************************************************************)

\* handleDeleteUser: ON DELETE CASCADE for the call log, SET NULL for the DID.
DeleteUser(k) ==
  /\ k \in users
  /\ users' = users \ {k}
  /\ callLog' = DeleteRows(callLog, RowsWhere(callLog, LAMBDA row : row.callee = k))
  /\ UNCHANGED <<stage, work, active, history>>

\* Calls that are not over, or of which a webhook is being handled.
UnderWay == {c \in Calls : stage[c] \in Begun \ {"over"}}
              \cup {work[h].call : h \in {h \in Handlers : ~At(h, "idle")}}

\* The server crashes and starts again, with an empty activeCalls.
Restart == /\ starts < MaxStarts
           /\ starts' = starts + 1
           /\ active' = EmptyTable
           /\ work' = [h \in Handlers |-> Idle]
           /\ forgotten' = forgotten \cup UnderWay
           /\ UNCHANGED <<stage, users, callLog, late>>

(***************************************************************************)
(* The specification.                                                      *)
(***************************************************************************)
Initiated(h) == (\E c \in Calls : Resolve(h, c)) \/ Store(h) \/ FindOwner(h) \/ Insert(h)
Hangup(h)    == (\E c \in Calls : Take(h, c)) \/ Update(h)

Next == \/ \E c \in Calls : Initiate(c) \/ HangUp(c)
        \/ \E h \in Handlers : Initiated(h) \/ Hangup(h) \/ Respond(h)
        \/ \E k \in Keys : DeleteUser(k)
        \/ Restart

Spec == Init /\ [][Next]_vars

(***************************************************************************)
(* Properties.                                                             *)
(***************************************************************************)

\* A row belongs to an account that exists, although the account is looked up
\* in one statement and referred to in a later one (sip.go:226-233).
TypeInv == TypeOK /\ \A id \in DOMAIN callLog : callLog[id].callee \in users

\* A call that GET /sip/calls shows although its hangup has been answered is one
\* of which a call.initiated was handled when the hangup had happened: the handler
\* tracks any call it is told of and nothing takes that one out again
\* (sip.go:219-221).  Nothing else brings a call back, not a webhook repeated
\* before the hangup, not a crash, not another call of the line.
OnlyLateCallsComeBack ==
  \A c \in DOMAIN active : stage[c] = "over" => c \in late

\* A call that is up is shown until its own hangup, whatever other calls of the
\* same caller and callee do and however often its webhook is repeated, unless the
\* server has crashed under it and has not been told of it again.
UpCallsAreTracked ==
  \A c \in Calls \ forgotten : stage[c] = "up" => c \in DOMAIN active

\* When the hangup of a call is answered no row of it is open, neither the one of
\* its first webhook nor those of repeated ones, even those of before a crash.
\* But a hangup repeated early is answered while the first one still has its
\* UPDATE to do, and rows stay open for a call the server forgot in a crash or was
\* told of too late.
OverCallsAreClosed ==
  \A id \in OpenRows :
    LET c == callLog[id].call
    IN  \/ stage[c] # "over"
        \/ c \in forgotten \cup late
        \/ \E h \in Handlers : At(h, "update") /\ work[h].call = c

\* A row is ended by nothing but a hangup between its caller and its callee.
EndedRowsHadAHangup ==
  \A id \in DOMAIN callLog \ OpenRows :
    \E c \in Calls : /\ stage[c] \in Ended
                     /\ <<Caller[c], Dialled[c]>> = <<callLog[id].phone, callLog[id].callee>>

===============================================================================
