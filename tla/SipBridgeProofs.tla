---------------------------- MODULE SipBridgeProofs ----------------------------
(***************************************************************************)
(* Theorems about SipBridge for any sets of calls, phones, users and       *)
(* webhook handlers, and any bounds on rows and restarts.                  *)
(***************************************************************************)
EXTENDS SipBridge, TablesProofs

USE NoneIsNoUser, CallsAreGiven, SipBounds

(***************************************************************************)
(* Types.                                                                  *)
(***************************************************************************)
TypeInd == TypeOK /\ IsTable(callLog)

LEMMA TypeInit == Init => TypeInd
<1> SUFFICES ASSUME Init PROVE TypeInd
  OBVIOUS
<1>1. IsTable(callLog) /\ DOMAIN callLog = {} /\ DOMAIN active = {}
  BY NoRows DEF Init
<1>2. QED
  BY <1>1 DEF Init, TypeInd, TypeOK, Work, Idle, SipBounds

\* A new row of the log.
LEMMA NewRow ==
  ASSUME TypeInd, NEW row
  PROVE  /\ IsTable(InsertRow(callLog, row))
         /\ DOMAIN InsertRow(callLog, row) = DOMAIN callLog \cup {NextRowid(callLog)}
         /\ NextRowid(callLog) \in Nat /\ NextRowid(callLog) \notin DOMAIN callLog
         /\ \A id \in DOMAIN callLog : InsertRow(callLog, row)[id] = callLog[id]
         /\ InsertRow(callLog, row)[NextRowid(callLog)] = row
<1>1. IsTable(callLog)
  BY DEF TypeInd
<1>2. NextRowid(callLog) \in Nat /\ NextRowid(callLog) \notin DOMAIN callLog
  BY <1>1, NextRowidIsFresh
<1>3. QED
  BY <1>1, <1>2, InsertedRow

\* An UPDATE keeps the rows and opens none.
LEMMA UpdatedRows ==
  ASSUME TypeInd, NEW h \in Handlers, Update(h)
  PROVE  /\ DOMAIN callLog' = DOMAIN callLog /\ IsTable(callLog')
         /\ \A id \in DOMAIN callLog :
              /\ callLog'[id] \in Row
              /\ callLog'[id].call = callLog[id].call
              /\ callLog'[id].phone = callLog[id].phone
              /\ callLog'[id].callee = callLog[id].callee
              /\ callLog'[id].ended = (callLog[id].ended \/ id \in OpenOfLine(Caller[work[h].call], work[h].callee))
<1>1. callLog' = [id \in DOMAIN callLog |->
                    [callLog[id] EXCEPT !.ended = @ \/ id \in OpenOfLine(Caller[work[h].call], work[h].callee)]]
  BY DEF Update
<1>2. IsTable(callLog')
  BY <1>1, SameIds DEF TypeInd
<1>3. ASSUME NEW id \in DOMAIN callLog
      PROVE  /\ callLog'[id] \in Row
             /\ callLog'[id].call = callLog[id].call
             /\ callLog'[id].phone = callLog[id].phone
             /\ callLog'[id].callee = callLog[id].callee
             /\ callLog'[id].ended = (callLog[id].ended \/ id \in OpenOfLine(Caller[work[h].call], work[h].callee))
  <2> DEFINE more == id \in OpenOfLine(Caller[work[h].call], work[h].callee)
  <2>1. callLog'[id] = [callLog[id] EXCEPT !.ended = @ \/ more]
    BY <1>1
  <2>2. callLog[id] \in Row
    BY DEF TypeInd, TypeOK
  <2>3. (callLog[id].ended \/ more) \in BOOLEAN
    BY Zenon
  <2> HIDE DEF more
  <2>4. /\ callLog'[id] \in Row
        /\ callLog'[id].call = callLog[id].call
        /\ callLog'[id].phone = callLog[id].phone
        /\ callLog'[id].callee = callLog[id].callee
        /\ callLog'[id].ended = (callLog[id].ended \/ more)
    BY <2>1, <2>2, <2>3 DEF Row
  <2>5. QED
    BY <2>4 DEF more
<1>4. QED
  BY <1>1, <1>2, <1>3

\* Rows go with their account.
LEMMA DeletedAccount ==
  ASSUME TypeInd, NEW k \in Keys, DeleteUser(k)
  PROVE  /\ IsTable(callLog')
         /\ DOMAIN callLog' \subseteq DOMAIN callLog
         /\ \A id \in DOMAIN callLog' : callLog'[id] = callLog[id] /\ callLog[id].callee # k
<1> DEFINE gone == RowsWhere(callLog, LAMBDA row : row.callee = k)
<1>1. callLog' = DeleteRows(callLog, gone) /\ IsTable(callLog)
  BY DEF DeleteUser, TypeInd
<1>2. \A id \in DOMAIN callLog \ gone : callLog[id].callee # k
  BY DEF RowsWhere
<1> HIDE DEF gone
<1>3. /\ IsTable(DeleteRows(callLog, gone))
      /\ DOMAIN DeleteRows(callLog, gone) = DOMAIN callLog \ gone
      /\ \A id \in DOMAIN callLog \ gone : DeleteRows(callLog, gone)[id] = callLog[id]
  BY <1>1, DeletedRows
<1>4. QED
  BY <1>1, <1>2, <1>3

\* A handler goes on to its next step.
LEMMA OneMoves ==
  ASSUME TypeInd, NEW h \in Handlers, NEW w \in Work, Goto(h, w)
  PROVE  /\ work' \in [Handlers -> Work] /\ work'[h] = w
         /\ \A g \in Handlers : g # h => work'[g] = work[g]
BY DEF Goto, TypeInd, TypeOK

\* What a handler is in the middle of.
LEMMA WorkTypes ==
  ASSUME TypeInd, NEW h \in Handlers
  PROVE  /\ work[h] \in Work
         /\ ~At(h, "idle") => work[h].call \in Calls
         /\ At(h, "store") => work[h].callee \in Keys \cup {None}
         /\ At(h, "owner") \/ At(h, "insert") \/ At(h, "update") => work[h].callee \in Keys
         /\ At(h, "respond") => work[h].hook \in {"initiated", "hangup"}
BY DEF TypeInd, TypeOK, Work, At

\* A handler has done its work, and its response is due.
LEMMA OneAnswers ==
  ASSUME TypeInd, NEW h \in Handlers, ~At(h, "idle"), NEW hook \in {"initiated", "hangup"},
         Answer(h, hook)
  PROVE  /\ work' \in [Handlers -> Work]
         /\ work'[h] = [at |-> "respond", call |-> work[h].call, hook |-> hook]
         /\ \A g \in Handlers : g # h => work'[g] = work[g]
<1>1. [at |-> "respond", call |-> work[h].call, hook |-> hook] \in Work
  BY WorkTypes DEF Work
<1>2. QED
  BY <1>1, OneMoves DEF Answer

\* What Store and FindOwner do to the handler that takes them.
LEMMA StoreMoves ==
  ASSUME TypeInd, NEW h \in Handlers, Store(h)
  PROVE  /\ work' \in [Handlers -> Work] /\ work'[h].call = work[h].call
         /\ \A g \in Handlers : g # h => work'[g] = work[g]
         /\ \/ work'[h].at = "respond" /\ work'[h].hook = "initiated"
            \/ /\ work'[h].at = "owner" /\ work'[h].callee = work[h].callee
               /\ work[h].callee # None
<1>1. At(h, "store") /\ ~At(h, "idle")
  BY DEF Store, At
<1>2. CASE work[h].callee = None
  <2>1. Answer(h, "initiated")
    BY <1>2 DEF Store
  <2>2. work'[h] = [at |-> "respond", call |-> work[h].call, hook |-> "initiated"]
        /\ work' \in [Handlers -> Work] /\ \A g \in Handlers : g # h => work'[g] = work[g]
    BY <1>1, <2>1, OneAnswers
  <2>3. QED
    BY <2>2
<1>3. CASE work[h].callee # None
  <2>1. [at |-> "owner", call |-> work[h].call, callee |-> work[h].callee] \in Work
    BY <1>1, <1>3, WorkTypes DEF Work
  <2>2. QED
    BY <1>3, <2>1, OneMoves DEF Store
<1>4. QED
  BY <1>2, <1>3

LEMMA FindOwnerMoves ==
  ASSUME TypeInd, NEW h \in Handlers, FindOwner(h)
  PROVE  /\ work' \in [Handlers -> Work] /\ work'[h].call = work[h].call
         /\ \A g \in Handlers : g # h => work'[g] = work[g]
         /\ \/ work'[h].at = "respond" /\ work'[h].hook = "initiated"
            \/ work'[h].at = "insert" /\ work'[h].callee = work[h].callee
<1>1. At(h, "owner") /\ ~At(h, "idle")
  BY DEF FindOwner, At
<1>2. CASE work[h].callee \notin users
  <2>1. Answer(h, "initiated")
    BY <1>2 DEF FindOwner
  <2>2. work'[h] = [at |-> "respond", call |-> work[h].call, hook |-> "initiated"]
        /\ work' \in [Handlers -> Work] /\ \A g \in Handlers : g # h => work'[g] = work[g]
    BY <1>1, <2>1, OneAnswers
  <2>3. QED
    BY <2>2
<1>3. CASE work[h].callee \in users
  <2>1. /\ [work[h] EXCEPT !.at = "insert"] \in Work
        /\ [work[h] EXCEPT !.at = "insert"].at = "insert"
        /\ [work[h] EXCEPT !.at = "insert"].call = work[h].call
        /\ [work[h] EXCEPT !.at = "insert"].callee = work[h].callee
    BY <1>1, WorkTypes DEF Work, At
  <2>2. QED
    BY <1>3, <2>1, OneMoves DEF FindOwner
<1>4. QED
  BY <1>2, <1>3

\* What Take does to the handler that takes it, and to the calls that are tracked.
LEMMA TakeMoves ==
  ASSUME TypeInd, NEW h \in Handlers, NEW c \in Calls, Take(h, c)
  PROVE  /\ work' \in [Handlers -> Work] /\ work'[h].call = c
         /\ \A g \in Handlers : g # h => work'[g] = work[g]
         /\ \/ /\ work'[h].at = "respond" /\ work'[h].hook = "hangup"
               /\ c \in DOMAIN active => active[c] = None
            \/ /\ work'[h].at = "update" /\ c \in DOMAIN active
               /\ active[c] # None /\ work'[h].callee = active[c]
         /\ DOMAIN active' = DOMAIN active \ {c}
         /\ \A d \in DOMAIN active' : active'[d] = active[d]
<1>1. DOMAIN active' = DOMAIN active \ {c} /\ \A d \in DOMAIN active' : active'[d] = active[d]
  BY DEF Take, Without, Restrict
<1>2. CASE c \in DOMAIN active /\ active[c] # None
  <2>1. [at |-> "update", call |-> c, callee |-> active[c]] \in Work
    BY <1>2 DEF Work, TypeInd, TypeOK
  <2>2. QED
    BY <1>1, <1>2, <2>1, OneMoves DEF Take
<1>3. CASE ~(c \in DOMAIN active /\ active[c] # None)
  <2>1. [at |-> "respond", call |-> c, hook |-> "hangup"] \in Work
    BY DEF Work
  <2>2. QED
    BY <1>1, <1>3, <2>1, OneMoves DEF Take
<1>4. QED
  BY <1>2, <1>3

\* A webhook of the call comes in; it is for a callee or for nobody known.
LEMMA ResolveMoves ==
  ASSUME TypeInd, NEW h \in Handlers, NEW c \in Calls, Resolve(h, c)
  PROVE  /\ work' \in [Handlers -> Work]
         /\ work'[h] = [at |-> "store", call |-> c, callee |-> Callee(c)]
         /\ \A g \in Handlers : g # h => work'[g] = work[g]
<1>1. [at |-> "store", call |-> c, callee |-> Callee(c)] \in Work
  BY DEF Work, Callee, TypeInd, TypeOK
<1>2. QED
  BY <1>1, OneMoves DEF Resolve

\* A response moves at most its own call.
LEMMA ResponseMoves ==
  ASSUME TypeInd, NEW h \in Handlers, Respond(h)
  PROVE  /\ work' \in [Handlers -> Work] /\ work'[h].at = "idle" /\ At(h, "respond")
         /\ \A g \in Handlers : g # h => work'[g] = work[g]
         /\ stage' \in [Calls -> {"new", "initiated", "up", "hangup", "over"}]
         /\ \A d \in Calls :
              \/ stage'[d] = stage[d]
              \/ /\ d = work[h].call /\ work[h].hook = "initiated"
                 /\ stage[d] = "initiated" /\ stage'[d] = "up"
              \/ /\ d = work[h].call /\ work[h].hook = "hangup"
                 /\ stage[d] = "hangup" /\ stage'[d] = "over"
<1>1. At(h, "respond") /\ work[h].call \in Calls /\ work[h].hook \in {"initiated", "hangup"}
  BY WorkTypes DEF Respond, At
<1>2. Idle \in Work
  BY DEF Idle, Work
<1>3. stage \in [Calls -> {"new", "initiated", "up", "hangup", "over"}]
  BY DEF TypeInd, TypeOK
<1>4. \/ stage' = stage
      \/ stage' = [stage EXCEPT ![work[h].call] = Answered(work[h].hook, @)]
  BY DEF Respond
<1>5. QED
  BY <1>1, <1>2, <1>3, <1>4, OneMoves DEF Respond, Answered, Idle

LEMMA TypeNext == TypeInd /\ [Next]_vars => TypeInd'
<1> SUFFICES ASSUME TypeInd, [Next]_vars PROVE TypeInd'
  OBVIOUS
<1>1. ASSUME NEW c \in Calls, Initiate(c) \/ HangUp(c) PROVE TypeInd'
  <2>1. stage' \in [Calls -> {"new", "initiated", "up", "hangup", "over"}]
    BY <1>1 DEF Initiate, HangUp, TypeInd, TypeOK
  <2>2. late' \subseteq Calls
    BY <1>1 DEF Initiate, HangUp, history, TypeInd, TypeOK
  <2>3. QED
    BY <1>1, <2>1, <2>2 DEF Initiate, HangUp, history, TypeInd, TypeOK
<1>2. ASSUME NEW h \in Handlers, Respond(h) PROVE TypeInd'
  BY <1>2, ResponseMoves DEF Respond, history, TypeInd, TypeOK
<1>3. ASSUME NEW h \in Handlers, NEW c \in Calls, Resolve(h, c) PROVE TypeInd'
  <2>1. late' \subseteq Calls
    BY <1>3 DEF Resolve, TypeInd, TypeOK
  <2>2. QED
    BY <1>3, <2>1, ResolveMoves DEF Resolve, TypeInd, TypeOK
<1>4. ASSUME NEW h \in Handlers, Store(h) PROVE TypeInd'
  <2>1. work[h].callee \in Keys \cup {None} /\ work[h].call \in Calls
    BY <1>4, WorkTypes DEF Store, At
  <2>2. /\ DOMAIN active' \subseteq Calls
        /\ \A d \in DOMAIN active' : active'[d] \in Keys \cup {None}
    BY <1>4, <2>1 DEF Store, TypeInd, TypeOK
  <2>3. forgotten' \subseteq Calls
    BY <1>4 DEF Store, TypeInd, TypeOK
  <2>4. QED
    BY <1>4, <2>2, <2>3, StoreMoves DEF Store, TypeInd, TypeOK
<1>5. ASSUME NEW h \in Handlers, FindOwner(h) PROVE TypeInd'
  BY <1>5, FindOwnerMoves DEF FindOwner, history, TypeInd, TypeOK
<1>6. ASSUME NEW h \in Handlers, Insert(h) PROVE TypeInd'
  <2> DEFINE row == [call |-> work[h].call, phone |-> Caller[work[h].call],
                     callee |-> work[h].callee, ended |-> FALSE]
  <2>1. row \in Row /\ ~At(h, "idle")
    BY <1>6, WorkTypes DEF Insert, At, Row
  <2>2. callLog' = InsertRow(callLog, row) \/ callLog' = callLog
    BY <1>6 DEF Insert
  <2>3. work' \in [Handlers -> Work]
    BY <1>6, <2>1, OneAnswers DEF Insert
  <2> HIDE DEF row
  <2>4. CASE callLog' = callLog
    BY <1>6, <2>3, <2>4 DEF Insert, history, TypeInd, TypeOK
  <2>5. CASE callLog' = InsertRow(callLog, row)
    <3>1. /\ IsTable(InsertRow(callLog, row))
          /\ DOMAIN InsertRow(callLog, row) = DOMAIN callLog \cup {NextRowid(callLog)}
          /\ NextRowid(callLog) \in Nat
          /\ \A id \in DOMAIN callLog : InsertRow(callLog, row)[id] = callLog[id]
          /\ InsertRow(callLog, row)[NextRowid(callLog)] = row
      BY NewRow
    <3>2. /\ IsTable(callLog') /\ DOMAIN callLog' \subseteq Nat
          /\ \A id \in DOMAIN callLog' : callLog'[id] \in Row
      BY <2>1, <2>5, <3>1 DEF TypeInd, TypeOK
    <3>3. QED
      BY <1>6, <2>3, <3>2 DEF Insert, history, TypeInd, TypeOK
  <2>6. QED
    BY <2>2, <2>4, <2>5
<1>7. ASSUME NEW h \in Handlers, NEW c \in Calls, Take(h, c) PROVE TypeInd'
  BY <1>7, TakeMoves DEF Take, history, TypeInd, TypeOK
<1>8. ASSUME NEW h \in Handlers, Update(h) PROVE TypeInd'
  <2>1. work' \in [Handlers -> Work]
    BY <1>8, OneAnswers DEF Update, At
  <2>2. QED
    BY <1>8, <2>1, UpdatedRows DEF Update, history, TypeInd, TypeOK
<1>9. ASSUME NEW k \in Keys, DeleteUser(k) PROVE TypeInd'
  <2>1. /\ IsTable(callLog') /\ DOMAIN callLog' \subseteq DOMAIN callLog
        /\ \A id \in DOMAIN callLog' : callLog'[id] = callLog[id]
    BY <1>9, DeletedAccount
  <2>2. QED
    BY <1>9, <2>1 DEF DeleteUser, history, TypeInd, TypeOK
<1>10. ASSUME Restart PROVE TypeInd'
  <2>1. UnderWay \subseteq Calls
    BY WorkTypes DEF UnderWay
  <2>2. QED
    BY <1>10, <2>1, NoRows DEF Restart, TypeInd, TypeOK, Work, Idle
<1>11. CASE UNCHANGED vars
  BY <1>11 DEF vars, TypeInd, TypeOK
<1>12. QED
  BY <1>1, <1>2, <1>3, <1>4, <1>5, <1>6, <1>7, <1>8, <1>9, <1>10, <1>11
     DEF Next, Initiated, Hangup

(***************************************************************************)
(* What is known of a call is known under its line: its caller and, for an *)
(* inbound call, the user whose DID was dialled.                           *)
(***************************************************************************)

\* A row of the log is a row of its call's line, and its callee has an account.
RowsHaveALine ==
  \A id \in DOMAIN callLog : LET c == callLog[id].call IN
    /\ c \in Inbound
    /\ callLog[id].phone = Caller[c] /\ callLog[id].callee = Dialled[c]
    /\ Dialled[c] \in users

\* A callee was found by the DID; that none was found remains so.
IsCallee(c, callee) == /\ callee # None => c \in Inbound /\ callee = Dialled[c]
                       /\ callee = None => c \notin Inbound \/ Dialled[c] \notin users

CalleesAreDialled ==
  /\ \A c \in DOMAIN active : IsCallee(c, active[c])
  /\ \A h \in Handlers :
       /\ At(h, "store") => IsCallee(work[h].call, work[h].callee)
       /\ At(h, "owner") \/ At(h, "insert") \/ At(h, "update") =>
            work[h].call \in Inbound /\ work[h].callee = Dialled[work[h].call]

LinesInv == RowsHaveALine /\ CalleesAreDialled

(***************************************************************************)
(* The course of a call: which handler runs at which stage, and when the   *)
(* call is tracked.                                                        *)
(***************************************************************************)

\* The hangup of c is being handled, and the call has been taken.
HangingUp(h, c) == /\ work[h].at = "update" \/ (work[h].at = "respond" /\ work[h].hook = "hangup")
                   /\ work[h].call = c

\* The call.initiated of c is being handled, and the call has been tracked.
HasStored(h, c) == /\ \/ work[h].at \in {"owner", "insert"}
                      \/ work[h].at = "respond" /\ work[h].hook = "initiated"
                   /\ work[h].call = c

HandlersFitTheStage ==
  \A h \in Handlers, c \in Calls :
    /\ Initiating(h, c) \/ HasStored(h, c) => stage[c] # "new"
    /\ Initiating(h, c) /\ stage[c] \in Ended => c \in late
    /\ HangingUp(h, c) => stage[c] \in Ended /\ (c \notin DOMAIN active \/ c \in late)

TrackingFitsTheStage ==
  \A c \in Calls :
    /\ c \in DOMAIN active => stage[c] # "new" /\ (stage[c] = "over" => c \in late)
    /\ stage[c] = "up" /\ c \notin forgotten => c \in DOMAIN active
    /\ stage[c] \in {"initiated", "up"} /\ (\E h \in Handlers : HasStored(h, c)) =>
         c \in DOMAIN active

StageInv == HandlersFitTheStage /\ TrackingFitsTheStage

LEMMA CourseInit == Init => LinesInv /\ StageInv
<1> SUFFICES ASSUME Init PROVE LinesInv /\ StageInv
  OBVIOUS
<1>1. DOMAIN callLog = {} /\ DOMAIN active = {}
  BY NoRows DEF Init
<1>2. /\ \A h \in Handlers : work[h].at = "idle"
      /\ \A c \in Calls : stage[c] = "new"
  BY DEF Init, Idle
<1>3. QED
  BY <1>1, <1>2 DEF LinesInv, RowsHaveALine, CalleesAreDialled, StageInv, HandlersFitTheStage,
     TrackingFitsTheStage, At, Initiating, HangingUp, HasStored

\* The row an INSERT adds, if it adds one, and the handler that adds it.
LEMMA InsertedForCall ==
  ASSUME TypeInd, LinesInv, NEW h \in Handlers, Insert(h)
  PROVE  /\ \/ callLog' = callLog
            \/ \E new \in Nat \ DOMAIN callLog, c \in Calls :
                 /\ c = work[h].call
                 /\ DOMAIN callLog' = DOMAIN callLog \cup {new}
                 /\ \A id \in DOMAIN callLog : callLog'[id] = callLog[id]
                 /\ callLog'[new] = [call |-> c, phone |-> Caller[c], callee |-> Dialled[c], ended |-> FALSE]
                 /\ c \in Inbound /\ Dialled[c] \in users
         /\ work'[h] = [at |-> "respond", call |-> work[h].call, hook |-> "initiated"]
         /\ \A g \in Handlers : g # h => work'[g] = work[g]
         /\ Initiating(h, work[h].call) /\ HasStored(h, work[h].call) /\ work[h].call \in Calls
<1> DEFINE c == work[h].call
           row == [call |-> c, phone |-> Caller[c], callee |-> Dialled[c], ended |-> FALSE]
<1>1. c \in Calls /\ c \in Inbound /\ work[h].callee = Dialled[c] /\ ~At(h, "idle")
  BY WorkTypes DEF Insert, At, LinesInv, CalleesAreDialled
<1>2. callLog' = callLog \/ (callLog' = InsertRow(callLog, row) /\ Dialled[c] \in users)
  BY <1>1 DEF Insert, ForeignKey
<1>3. Initiating(h, c) /\ HasStored(h, c)
  BY DEF Insert, At, Initiating, HasStored
<1>4. /\ work'[h] = [at |-> "respond", call |-> work[h].call, hook |-> "initiated"]
      /\ \A g \in Handlers : g # h => work'[g] = work[g]
  BY <1>1, OneAnswers DEF Insert
<1> HIDE DEF row
<1>5. /\ DOMAIN InsertRow(callLog, row) = DOMAIN callLog \cup {NextRowid(callLog)}
      /\ NextRowid(callLog) \in Nat \ DOMAIN callLog
      /\ \A id \in DOMAIN callLog : InsertRow(callLog, row)[id] = callLog[id]
      /\ InsertRow(callLog, row)[NextRowid(callLog)] = row
  BY NewRow
<1>6. CASE callLog' = callLog
  BY <1>1, <1>3, <1>4, <1>6
<1>7. CASE callLog' = InsertRow(callLog, row) /\ Dialled[c] \in users
  <2>1. \E new \in Nat \ DOMAIN callLog :
          /\ DOMAIN callLog' = DOMAIN callLog \cup {new}
          /\ \A id \in DOMAIN callLog : callLog'[id] = callLog[id]
          /\ callLog'[new] = row
    BY <1>5, <1>7
  <2>2. QED
    BY <1>1, <1>3, <1>4, <1>7, <2>1 DEF row
<1>8. QED
  BY <1>2, <1>6, <1>7

\* An UPDATE closes the open rows of its call's line, and its handler answers.
LEMMA UpdatedForCall ==
  ASSUME TypeInd, LinesInv, NEW h \in Handlers, Update(h)
  PROVE  /\ HangingUp(h, work[h].call) /\ At(h, "update") /\ work[h].call \in Calls
         /\ work'[h] = [at |-> "respond", call |-> work[h].call, hook |-> "hangup"]
         /\ \A g \in Handlers : g # h => work'[g] = work[g]
         /\ work[h].callee = Dialled[work[h].call]
<1>1. At(h, "update") /\ ~At(h, "idle")
  BY DEF Update, At
<1>2. QED
  BY <1>1, WorkTypes, OneAnswers DEF Update, At, HangingUp, LinesInv, CalleesAreDialled

LEMMA LinesNext == TypeInd /\ LinesInv /\ [Next]_vars => LinesInv'
<1> SUFFICES ASSUME TypeInd, LinesInv, [Next]_vars PROVE LinesInv'
  OBVIOUS
<1>1. ASSUME NEW c \in Calls, Initiate(c) \/ HangUp(c) PROVE LinesInv'
  BY <1>1 DEF Initiate, HangUp, LinesInv, RowsHaveALine, CalleesAreDialled, IsCallee, At
<1>2. ASSUME NEW h \in Handlers, Respond(h) PROVE LinesInv'
  <2>1. /\ UNCHANGED <<callLog, users, active>> /\ work'[h].at = "idle"
        /\ \A g \in Handlers : g # h => work'[g] = work[g]
    BY <1>2, ResponseMoves DEF Respond
  <2>2. QED
    BY <2>1 DEF LinesInv, RowsHaveALine, CalleesAreDialled, IsCallee, At
<1>3. ASSUME NEW h \in Handlers, NEW c \in Calls, Resolve(h, c) PROVE LinesInv'
  <2>1. IsCallee(c, Callee(c))
    BY DEF IsCallee, Callee, TypeInd, TypeOK
  <2>2. /\ \A g \in Handlers : g # h => work'[g] = work[g]
        /\ work'[h] = [at |-> "store", call |-> c, callee |-> Callee(c)]
        /\ UNCHANGED <<callLog, users, active>>
    BY <1>3, ResolveMoves DEF Resolve
  <2>3. At(h, "store")' /\ work'[h].callee = Callee(c) /\ work'[h].call = c
    BY <2>2 DEF At
  <2>4. QED
    BY <2>1, <2>2, <2>3 DEF LinesInv, RowsHaveALine, CalleesAreDialled, IsCallee, At
<1>4. ASSUME NEW h \in Handlers, Store(h) PROVE LinesInv'
  <2> DEFINE c == work[h].call
  <2>1. /\ DOMAIN active' = DOMAIN active \cup {c} /\ active'[c] = work[h].callee
        /\ \A d \in DOMAIN active : d # c => active'[d] = active[d]
        /\ IsCallee(c, work[h].callee)
        /\ UNCHANGED <<callLog, users>>
    <3>1. IsCallee(c, work[h].callee)
      BY <1>4 DEF Store, LinesInv, CalleesAreDialled
    <3>2. active' = [d \in DOMAIN active \cup {c} |-> IF d = c THEN work[h].callee ELSE active[d]]
      BY <1>4 DEF Store
    <3>3. QED
      BY <1>4, <3>1, <3>2 DEF Store
  <2>2. /\ \A g \in Handlers : g # h => work'[g] = work[g]
        /\ work'[h].call = c
        /\ \/ work'[h].at = "respond"
           \/ work'[h].at = "owner" /\ work'[h].callee = work[h].callee /\ work[h].callee # None
    BY <1>4, StoreMoves
  <2>3. QED
    BY <2>1, <2>2 DEF LinesInv, RowsHaveALine, CalleesAreDialled, IsCallee, At
<1>5. ASSUME NEW h \in Handlers, FindOwner(h) PROVE LinesInv'
  <2>1. /\ \A g \in Handlers : g # h => work'[g] = work[g]
        /\ work'[h].call = work[h].call
        /\ \/ work'[h].at = "respond"
           \/ work'[h].at = "insert" /\ work'[h].callee = work[h].callee
        /\ UNCHANGED <<callLog, users, active>> /\ At(h, "owner")
    BY <1>5, FindOwnerMoves DEF FindOwner
  <2>2. QED
    BY <2>1 DEF LinesInv, RowsHaveALine, CalleesAreDialled, IsCallee, At
<1>6. ASSUME NEW h \in Handlers, Insert(h) PROVE LinesInv'
  <2>1. /\ UNCHANGED <<users, active>>
        /\ \A g \in Handlers : work'[g] = work[g] \/ work'[g].at = "respond"
    <3>1. UNCHANGED <<users, active>>
      BY <1>6 DEF Insert
    <3>2. work'[h].at = "respond" /\ \A g \in Handlers : g # h => work'[g] = work[g]
      <4>1. /\ work'[h] = [at |-> "respond", call |-> work[h].call, hook |-> "initiated"]
            /\ \A g \in Handlers : g # h => work'[g] = work[g]
        BY <1>6, InsertedForCall
      <4>2. QED
        BY <4>1
    <3>3. QED
      BY <3>1, <3>2
  <2>2. CalleesAreDialled'
    BY <2>1 DEF LinesInv, CalleesAreDialled, IsCallee, At
  <2>3. RowsHaveALine'
    <3>1. CASE callLog' = callLog
      BY <2>1, <3>1 DEF LinesInv, RowsHaveALine
    <3>2. CASE callLog' # callLog
      <4>1. PICK new \in Nat \ DOMAIN callLog, c \in Calls :
              /\ DOMAIN callLog' = DOMAIN callLog \cup {new}
              /\ \A id \in DOMAIN callLog : callLog'[id] = callLog[id]
              /\ callLog'[new] = [call |-> c, phone |-> Caller[c], callee |-> Dialled[c], ended |-> FALSE]
              /\ c \in Inbound /\ Dialled[c] \in users
        BY <1>6, <3>2, InsertedForCall
      <4>2. QED
        BY <2>1, <4>1 DEF LinesInv, RowsHaveALine
    <3>3. QED
      BY <3>1, <3>2
  <2>4. QED
    BY <2>2, <2>3 DEF LinesInv
<1>7. ASSUME NEW h \in Handlers, NEW c \in Calls, Take(h, c) PROVE LinesInv'
  <2>1. /\ DOMAIN active' \subseteq DOMAIN active
        /\ \A d \in DOMAIN active' : active'[d] = active[d]
        /\ UNCHANGED <<callLog, users>>
    BY <1>7, TakeMoves DEF Take
  <2>2. /\ \A g \in Handlers : g # h => work'[g] = work[g]
        /\ work'[h].call = c
        /\ \/ work'[h].at = "respond"
           \/ /\ work'[h].at = "update" /\ work'[h].callee = active[c]
              /\ c \in DOMAIN active /\ active[c] # None
    BY <1>7, TakeMoves
  <2>3. QED
    BY <2>1, <2>2 DEF LinesInv, RowsHaveALine, CalleesAreDialled, IsCallee, At
<1>8. ASSUME NEW h \in Handlers, Update(h) PROVE LinesInv'
  <2>1. /\ UNCHANGED <<users, active>>
        /\ \A g \in Handlers : work'[g] = work[g] \/ work'[g].at = "respond"
    <3>1. UNCHANGED <<users, active>>
      BY <1>8 DEF Update
    <3>2. work'[h].at = "respond" /\ \A g \in Handlers : g # h => work'[g] = work[g]
      <4>1. /\ work'[h] = [at |-> "respond", call |-> work[h].call, hook |-> "hangup"]
            /\ \A g \in Handlers : g # h => work'[g] = work[g]
        BY <1>8, UpdatedForCall
      <4>2. QED
        BY <4>1
    <3>3. QED
      BY <3>1, <3>2
  <2>2. CalleesAreDialled'
    BY <2>1 DEF LinesInv, CalleesAreDialled, IsCallee, At
  <2>3. RowsHaveALine'
    BY <1>8, <2>1, UpdatedRows DEF LinesInv, RowsHaveALine
  <2>4. QED
    BY <2>2, <2>3 DEF LinesInv
<1>9. ASSUME NEW k \in Keys, DeleteUser(k) PROVE LinesInv'
  <2>1. users' = users \ {k} /\ UNCHANGED <<work, active>>
    BY <1>9 DEF DeleteUser
  <2>2. CalleesAreDialled'
    BY <2>1 DEF LinesInv, CalleesAreDialled, IsCallee, At
  <2>3. RowsHaveALine'
    BY <1>9, <2>1, DeletedAccount DEF LinesInv, RowsHaveALine
  <2>4. QED
    BY <2>2, <2>3 DEF LinesInv
<1>10. ASSUME Restart PROVE LinesInv'
  BY <1>10, NoRows DEF Restart, Idle, LinesInv, RowsHaveALine, CalleesAreDialled, At
<1>11. CASE UNCHANGED vars
  BY <1>11 DEF vars, LinesInv, RowsHaveALine, CalleesAreDialled, IsCallee, At
<1>12. QED
  BY <1>1, <1>2, <1>3, <1>4, <1>5, <1>6, <1>7, <1>8, <1>9, <1>10, <1>11
     DEF Next, Initiated, Hangup

LEMMA StageNext == TypeInd /\ LinesInv /\ StageInv /\ [Next]_vars => StageInv'
<1> SUFFICES ASSUME TypeInd, LinesInv, StageInv, [Next]_vars PROVE StageInv'
  OBVIOUS
<1>0. /\ stage \in [Calls -> {"new", "initiated", "up", "hangup", "over"}]
      /\ \A h \in Handlers : work[h].at # "idle" => work[h].call \in Calls
  BY WorkTypes DEF TypeInd, TypeOK, At
<1> USE DEF StageInv, HandlersFitTheStage, TrackingFitsTheStage, Initiating, HangingUp, HasStored
<1>1. ASSUME NEW c \in Calls, Initiate(c) PROVE StageInv'
  BY <1>0, <1>1 DEF Initiate, history, Ended
<1>2. ASSUME NEW c \in Calls, HangUp(c) PROVE StageInv'
  <2>1. /\ stage[c] \in {"initiated", "up"} /\ stage'[c] = "hangup"
        /\ \A d \in Calls : d # c => stage'[d] = stage[d]
        /\ UNCHANGED <<work, active, forgotten>>
        /\ late \subseteq late'
        /\ (\E h \in Handlers : Initiating(h, c)) => c \in late'
    BY <1>0, <1>2 DEF HangUp
  <2>2. QED
    BY <2>1 DEF Ended
<1>3. ASSUME NEW h \in Handlers, Respond(h) PROVE StageInv'
  <2>1. /\ work'[h].at = "idle" /\ work[h].at = "respond"
        /\ \A g \in Handlers : g # h => work'[g] = work[g]
        /\ \A d \in Calls :
             \/ stage'[d] = stage[d]
             \/ /\ d = work[h].call /\ work[h].hook = "initiated"
                /\ stage[d] = "initiated" /\ stage'[d] = "up"
             \/ /\ d = work[h].call /\ work[h].hook = "hangup"
                /\ stage[d] = "hangup" /\ stage'[d] = "over"
    BY <1>3, ResponseMoves DEF At
  <2>2. UNCHANGED <<active, forgotten, late>>
    BY <1>3 DEF Respond, history
  <2>3. HandlersFitTheStage'
    BY <2>1, <2>2 DEF Ended
  <2>4. ASSUME NEW d \in Calls
        PROVE  /\ d \in DOMAIN active => stage'[d] # "new" /\ (stage'[d] = "over" => d \in late)
               /\ stage'[d] = "up" /\ d \notin forgotten => d \in DOMAIN active
    <3>1. CASE stage'[d] = stage[d]
      BY <3>1
    <3>2. CASE /\ d = work[h].call /\ work[h].hook = "initiated"
               /\ stage[d] = "initiated" /\ stage'[d] = "up"
      BY <2>1, <3>2
    <3>3. CASE /\ d = work[h].call /\ work[h].hook = "hangup"
               /\ stage[d] = "hangup" /\ stage'[d] = "over"
      BY <2>1, <3>3
    <3>4. QED
      BY <2>1, <3>1, <3>2, <3>3
  <2>5. TrackingFitsTheStage'
    BY <2>1, <2>2, <2>4
  <2>6. QED
    BY <2>3, <2>5
<1>4. ASSUME NEW h \in Handlers, NEW c \in Calls, Resolve(h, c) PROVE StageInv'
  <2>1. /\ work'[h].at = "store" /\ work'[h].call = c
        /\ \A g \in Handlers : g # h => work'[g] = work[g]
    <3>1. /\ work'[h] = [at |-> "store", call |-> c, callee |-> Callee(c)]
          /\ \A g \in Handlers : g # h => work'[g] = work[g]
      BY <1>4, ResolveMoves
    <3>2. QED
      BY <3>1
  <2>2. /\ UNCHANGED <<stage, active, forgotten>> /\ stage[c] # "new"
        /\ late \subseteq late' /\ (stage[c] \in Ended => c \in late')
    BY <1>4 DEF Resolve, Begun
  <2>3. QED
    BY <2>1, <2>2
<1>5. ASSUME NEW h \in Handlers, Store(h) PROVE StageInv'
  <2> DEFINE c == work[h].call
  <2>1. /\ work[h].at = "store" /\ work'[h].call = c /\ c \in Calls
        /\ work'[h].at = "owner" \/ (work'[h].at = "respond" /\ work'[h].hook = "initiated")
        /\ \A g \in Handlers : g # h => work'[g] = work[g]
    BY <1>0, <1>5, StoreMoves DEF Store, At
  <2>2. /\ DOMAIN active' = DOMAIN active \cup {c} /\ forgotten' = forgotten \ {c}
        /\ UNCHANGED <<stage, late>>
    BY <1>5 DEF Store
  <2>3. stage[c] # "new" /\ (stage[c] \in Ended => c \in late)
    BY <2>1
  <2> HIDE DEF c
  <2>4. HandlersFitTheStage'
    BY <2>1, <2>2, <2>3 DEF c
  <2>5. TrackingFitsTheStage'
    BY <2>1, <2>2, <2>3 DEF c, Ended
  <2>6. QED
    BY <2>4, <2>5
<1>6. ASSUME NEW h \in Handlers, FindOwner(h) PROVE StageInv'
  <2>1. /\ work[h].at = "owner" /\ work'[h].call = work[h].call
        /\ work'[h].at = "insert" \/ (work'[h].at = "respond" /\ work'[h].hook = "initiated")
        /\ \A g \in Handlers : g # h => work'[g] = work[g]
    BY <1>6, FindOwnerMoves DEF FindOwner, At
  <2>2. UNCHANGED <<stage, active, forgotten, late>>
    BY <1>6 DEF FindOwner, history
  <2>3. QED
    BY <2>1, <2>2
<1>7. ASSUME NEW h \in Handlers, Insert(h) PROVE StageInv'
  <2>1. /\ work[h].at = "insert" /\ work'[h].call = work[h].call
        /\ work'[h].at = "respond" /\ work'[h].hook = "initiated"
        /\ \A g \in Handlers : g # h => work'[g] = work[g]
    <3>1. /\ work'[h] = [at |-> "respond", call |-> work[h].call, hook |-> "initiated"]
          /\ \A g \in Handlers : g # h => work'[g] = work[g]
      BY <1>7, InsertedForCall
    <3>2. QED
      BY <1>7, <3>1 DEF Insert, At
  <2>2. UNCHANGED <<stage, active, forgotten, late>>
    BY <1>7 DEF Insert, history
  <2>3. QED
    BY <2>1, <2>2
<1>8. ASSUME NEW h \in Handlers, NEW c \in Calls, Take(h, c) PROVE StageInv'
  <2>1. /\ work'[h].call = c
        /\ work'[h].at = "update" \/ (work'[h].at = "respond" /\ work'[h].hook = "hangup")
        /\ \A g \in Handlers : g # h => work'[g] = work[g]
        /\ DOMAIN active' = DOMAIN active \ {c}
    BY <1>8, TakeMoves
  <2>2. UNCHANGED <<stage, forgotten, late>> /\ stage[c] \in Ended
    BY <1>8 DEF Take, history
  <2>3. HandlersFitTheStage'
    BY <2>1, <2>2
  <2>4. TrackingFitsTheStage'
    BY <2>1, <2>2 DEF Ended
  <2>5. QED
    BY <2>3, <2>4
<1>9. ASSUME NEW h \in Handlers, Update(h) PROVE StageInv'
  <2>1. /\ work[h].at = "update" /\ work'[h].call = work[h].call
        /\ work'[h].at = "respond" /\ work'[h].hook = "hangup"
        /\ \A g \in Handlers : g # h => work'[g] = work[g]
    <3>1. /\ work'[h] = [at |-> "respond", call |-> work[h].call, hook |-> "hangup"]
          /\ \A g \in Handlers : g # h => work'[g] = work[g]
      BY <1>9, UpdatedForCall
    <3>2. QED
      BY <1>9, <3>1 DEF Update, At
  <2>2. UNCHANGED <<stage, active, forgotten, late>>
    BY <1>9 DEF Update, history
  <2>3. QED
    BY <2>1, <2>2
<1>10. ASSUME NEW k \in Keys, DeleteUser(k) PROVE StageInv'
  BY <1>10 DEF DeleteUser, history
<1>11. ASSUME Restart PROVE StageInv'
  <2>1. /\ DOMAIN active' = {} /\ \A h \in Handlers : work'[h].at = "idle"
        /\ UNCHANGED <<stage, late>>
        /\ \A c \in Calls : stage[c] = "up" => c \in forgotten'
    BY <1>11, NoRows DEF Restart, Idle, UnderWay, Begun
  <2>2. QED
    BY <2>1
<1>12. CASE UNCHANGED vars
  BY <1>12 DEF vars
<1>13. QED
  BY <1>1, <1>2, <1>3, <1>4, <1>5, <1>6, <1>7, <1>8, <1>9, <1>10, <1>11, <1>12
     DEF Next, Initiated, Hangup

(***************************************************************************)
(* The rows of a call.                                                     *)
(***************************************************************************)
Closed(c) == \A id \in DOMAIN callLog : callLog[id].call = c => callLog[id].ended

\* A hangup handler has taken the call and has its UPDATE to do.
Closing(c) == \E h \in Handlers : At(h, "update") /\ work[h].call = c

\* A call that is neither tracked nor being closed has no open row, unless a crash
\* made the server forget it or the server was told of it too late.
ClosedInv ==
  \A c \in Calls \ (forgotten \cup late) : c \notin DOMAIN active /\ ~Closing(c) => Closed(c)

\* What has been ended was ended by a hangup on its line.
EndedInv ==
  \A id \in DOMAIN callLog : callLog[id].ended =>
    \E c \in Calls : /\ stage[c] \in Ended
                     /\ Caller[c] = callLog[id].phone /\ Dialled[c] = callLog[id].callee

IInv == TypeInd /\ LinesInv /\ StageInv

\* A step that opens no row of a call, keeps it tracked or being closed and forgets
\* nothing of it leaves it closed if it was.
LEMMA StaysClosed ==
  ASSUME ClosedInv, NEW c \in Calls,
         c \in forgotten \cup late => c \in (forgotten \cup late)' \/ c \in DOMAIN active',
         c \in DOMAIN active => c \in DOMAIN active',
         Closing(c) => Closing(c)',
         Closed(c) => Closed(c)'
  PROVE  c \notin (forgotten \cup late)' /\ c \notin DOMAIN active' /\ ~Closing(c)' => Closed(c)'
BY DEF ClosedInv

LEMMA ClosedNext == IInv /\ ClosedInv /\ [Next]_vars => ClosedInv'
<1> SUFFICES ASSUME IInv, ClosedInv, [Next]_vars,
                    NEW d \in Calls, d \notin (forgotten \cup late)',
                    d \notin DOMAIN active', ~Closing(d)'
             PROVE  Closed(d)'
  BY DEF ClosedInv
<1>0. /\ TypeInd /\ LinesInv /\ StageInv
      /\ \A h \in Handlers : work[h].at # "idle" => work[h].call \in Calls
  BY WorkTypes DEF IInv, At
<1>1. ASSUME UNCHANGED callLog, Closing(d) => Closing(d)',
             d \in DOMAIN active => d \in DOMAIN active',
             d \in forgotten \cup late => d \in (forgotten \cup late)' \/ d \in DOMAIN active'
      PROVE  Closed(d)'
  BY <1>1, StaysClosed DEF Closed
<1>2. ASSUME NEW c \in Calls, Initiate(c) \/ HangUp(c) PROVE Closed(d)'
  BY <1>1, <1>2 DEF Initiate, HangUp, history, Closing, At
<1>3. ASSUME NEW h \in Handlers, Respond(h) PROVE Closed(d)'
  <2>1. UNCHANGED <<callLog, active, forgotten, late>>
    BY <1>3 DEF Respond, history
  <2>2. Closing(d) => Closing(d)'
    BY <1>3, <1>0, ResponseMoves DEF Closing, At
  <2>3. QED
    BY <1>1, <2>1, <2>2
<1>4. ASSUME NEW h \in Handlers, NEW c \in Calls, Resolve(h, c) PROVE Closed(d)'
  <2>1. UNCHANGED <<callLog, active, forgotten>> /\ late \subseteq late' /\ At(h, "idle")
    BY <1>4 DEF Resolve
  <2>2. Closing(d) => Closing(d)'
    BY <1>4, <1>0, <2>1, ResolveMoves DEF Closing, At
  <2>3. QED
    BY <1>1, <2>1, <2>2
<1>5. ASSUME NEW h \in Handlers, Store(h) PROVE Closed(d)'
  <2>1. /\ UNCHANGED <<callLog, late>> /\ At(h, "store")
        /\ DOMAIN active' = DOMAIN active \cup {work[h].call}
        /\ forgotten' = forgotten \ {work[h].call}
    BY <1>5 DEF Store
  <2>2. Closing(d) => Closing(d)'
    BY <1>5, <1>0, <2>1, StoreMoves DEF Closing, At
  <2>3. QED
    BY <1>1, <2>1, <2>2
<1>6. ASSUME NEW h \in Handlers, FindOwner(h) PROVE Closed(d)'
  <2>1. UNCHANGED <<callLog, active, forgotten, late>> /\ At(h, "owner")
    BY <1>6 DEF FindOwner, history
  <2>2. Closing(d) => Closing(d)'
    BY <1>6, <1>0, <2>1, FindOwnerMoves DEF Closing, At
  <2>3. QED
    BY <1>1, <2>1, <2>2
<1>7. ASSUME NEW h \in Handlers, Insert(h) PROVE Closed(d)'
  <2>1. UNCHANGED <<stage, active, forgotten, late>> /\ At(h, "insert")
    BY <1>7 DEF Insert, history
  <2>2. Closing(d) => Closing(d)'
    BY <1>7, <1>0, <2>1, InsertedForCall DEF Closing, At
  <2>3. d # work[h].call
    <3>1. Initiating(h, work[h].call) /\ HasStored(h, work[h].call) /\ work[h].call \in Calls
      BY <1>7, <1>0, InsertedForCall
    <3>2. stage[work[h].call] \in {"new", "initiated", "up", "hangup", "over"}
      BY <1>0, <3>1 DEF TypeInd, TypeOK
    <3>3. work[h].call \in DOMAIN active \/ work[h].call \in late
      BY <1>0, <3>1, <3>2 DEF StageInv, HandlersFitTheStage, TrackingFitsTheStage, Ended
    <3>4. QED
      BY <2>1, <3>3
  <2>4. Closed(d)
    BY <2>1, <2>2 DEF ClosedInv
  <2>5. CASE callLog' = callLog
    BY <2>4, <2>5 DEF Closed
  <2>6. CASE callLog' # callLog
    <3>1. PICK new \in Nat \ DOMAIN callLog, c \in Calls :
            /\ c = work[h].call
            /\ DOMAIN callLog' = DOMAIN callLog \cup {new}
            /\ \A id \in DOMAIN callLog : callLog'[id] = callLog[id]
            /\ callLog'[new] = [call |-> c, phone |-> Caller[c], callee |-> Dialled[c], ended |-> FALSE]
      <4>1. \/ callLog' = callLog
            \/ \E new \in Nat \ DOMAIN callLog, c \in Calls :
                 /\ c = work[h].call
                 /\ DOMAIN callLog' = DOMAIN callLog \cup {new}
                 /\ \A id \in DOMAIN callLog : callLog'[id] = callLog[id]
                 /\ callLog'[new] = [call |-> c, phone |-> Caller[c], callee |-> Dialled[c], ended |-> FALSE]
                 /\ c \in Inbound /\ Dialled[c] \in users
        BY <1>7, <1>0, InsertedForCall
      <4>2. QED
        BY <2>6, <4>1
    <3>2. callLog'[new].call # d
      BY <2>3, <3>1
    <3>3. QED
      BY <2>4, <3>1, <3>2 DEF Closed
  <2>7. QED
    BY <2>5, <2>6
<1>8. ASSUME NEW h \in Handlers, NEW c \in Calls, Take(h, c) PROVE Closed(d)'
  <2>1. /\ UNCHANGED <<callLog, forgotten, late>> /\ At(h, "idle")
        /\ DOMAIN active' = DOMAIN active \ {c}
        /\ work'[h].call = c
        /\ \/ c \in DOMAIN active => active[c] = None
           \/ work'[h].at = "update"
        /\ \A g \in Handlers : g # h => work'[g] = work[g]
    BY <1>8, <1>0, TakeMoves DEF Take, history
  <2>2. Closing(d) => Closing(d)'
    BY <2>1 DEF Closing, At
  <2>3. CASE d # c \/ c \notin DOMAIN active
    BY <1>1, <2>1, <2>2, <2>3
  <2>4. CASE d = c /\ c \in DOMAIN active /\ active[c] = None
    BY <1>0, <2>1, <2>4 DEF Closed, LinesInv, RowsHaveALine, CalleesAreDialled, IsCallee
  <2>5. CASE d = c /\ work'[h].at = "update"
    BY <2>1, <2>5 DEF Closing, At
  <2>6. QED
    BY <2>1, <2>3, <2>4, <2>5
<1>9. ASSUME NEW h \in Handlers, Update(h) PROVE Closed(d)'
  <2>1. UNCHANGED <<stage, active, forgotten, late>>
    BY <1>9 DEF Update, history
  <2>2. /\ At(h, "update") /\ work[h].call \in Calls /\ work[h].callee = Dialled[work[h].call]
        /\ \A g \in Handlers : g # h => work'[g] = work[g]
    BY <1>9, <1>0, UpdatedForCall
  <2>3. CASE d = work[h].call
    <3>1. ASSUME NEW id \in DOMAIN callLog, callLog[id].call = d
          PROVE  callLog[id].ended \/ id \in OpenOfLine(Caller[work[h].call], work[h].callee)
      BY <1>0, <2>2, <2>3, <3>1 DEF OpenOfLine, OpenRows, RowsWhere, LinesInv, RowsHaveALine
    <3>2. QED
      BY <1>9, <1>0, <3>1, UpdatedRows DEF Closed
  <2>4. CASE d # work[h].call
    <3>1. Closing(d) => Closing(d)'
      BY <2>2, <2>4 DEF Closing, At
    <3>2. Closed(d)
      BY <2>1, <3>1 DEF ClosedInv
    <3>3. QED
      BY <1>9, <1>0, <3>2, UpdatedRows DEF Closed
  <2>5. QED
    BY <2>3, <2>4
<1>10. ASSUME NEW k \in Keys, DeleteUser(k) PROVE Closed(d)'
  <2>1. UNCHANGED <<work, active, forgotten, late>>
    BY <1>10 DEF DeleteUser, history
  <2>2. Closed(d)
    BY <2>1 DEF ClosedInv, Closing, At
  <2>3. QED
    BY <1>10, <1>0, <2>2, DeletedAccount DEF Closed
<1>11. ASSUME Restart PROVE Closed(d)'
  \* What the crash does not forget has no handler at work and is new or over.
  <2>1. d \notin forgotten \cup late /\ d \notin UnderWay /\ callLog' = callLog
    BY <1>11 DEF Restart
  <2>2. ~Closing(d)
    BY <2>1 DEF Closing, UnderWay, At
  <2>3. d \notin DOMAIN active
    BY <1>0, <2>1 DEF UnderWay, Begun, StageInv, TrackingFitsTheStage, TypeInd, TypeOK
  <2>4. QED
    BY <2>1, <2>2, <2>3 DEF ClosedInv, Closed
<1>12. CASE UNCHANGED vars
  BY <1>1, <1>12 DEF vars, Closing, At
<1>13. QED
  BY <1>2, <1>3, <1>4, <1>5, <1>6, <1>7, <1>8, <1>9, <1>10, <1>11, <1>12
     DEF Next, Initiated, Hangup

LEMMA EndedNext == IInv /\ EndedInv /\ [Next]_vars => EndedInv'
<1> SUFFICES ASSUME IInv, EndedInv, [Next]_vars PROVE EndedInv'
  OBVIOUS
<1>0. TypeInd /\ LinesInv /\ StageInv
  BY DEF IInv
<1>1. \A c \in Calls : stage[c] \in Ended => stage'[c] \in Ended
  <2>1. ASSUME NEW h \in Handlers, Respond(h) PROVE \A c \in Calls : stage[c] \in Ended => stage'[c] \in Ended
    BY <1>0, <2>1, ResponseMoves DEF Ended
  <2>2. ASSUME NEW c \in Calls, Initiate(c) \/ HangUp(c)
        PROVE  \A d \in Calls : stage[d] \in Ended => stage'[d] \in Ended
    BY <1>0, <2>2 DEF Initiate, HangUp, Ended, TypeInd, TypeOK
  <2>3. CASE UNCHANGED stage
    BY <2>3
  <2>4. QED
    BY <2>1, <2>2, <2>3 DEF Next, vars, Initiated, Hangup, Resolve, Store, FindOwner, Insert, Take,
       Update, DeleteUser, Restart
<1>2. CASE DOMAIN callLog' \subseteq DOMAIN callLog
           /\ \A id \in DOMAIN callLog' : callLog'[id] = callLog[id]
  BY <1>1, <1>2 DEF EndedInv
<1>3. ASSUME NEW h \in Handlers, Insert(h) PROVE EndedInv'
  <2>1. CASE callLog' = callLog
    BY <1>2, <2>1
  <2>2. CASE callLog' # callLog
    <3>1. PICK new \in Nat \ DOMAIN callLog, c \in Calls :
            /\ DOMAIN callLog' = DOMAIN callLog \cup {new}
            /\ \A id \in DOMAIN callLog : callLog'[id] = callLog[id]
            /\ callLog'[new] = [call |-> c, phone |-> Caller[c], callee |-> Dialled[c], ended |-> FALSE]
      BY <1>0, <1>3, <2>2, InsertedForCall
    <3>2. QED
      BY <1>1, <3>1 DEF EndedInv
  <2>3. QED
    BY <2>1, <2>2
<1>4. ASSUME NEW h \in Handlers, Update(h) PROVE EndedInv'
  <2> DEFINE c == work[h].call
  <2>1. c \in Calls /\ stage[c] \in Ended /\ work[h].callee = Dialled[c]
    BY <1>0, <1>4, UpdatedForCall DEF StageInv, HandlersFitTheStage
  <2>2. \A id \in OpenOfLine(Caller[c], work[h].callee) :
          callLog[id].phone = Caller[c] /\ callLog[id].callee = Dialled[c]
    BY <2>1 DEF OpenOfLine
  <2>3. /\ DOMAIN callLog' = DOMAIN callLog
        /\ \A id \in DOMAIN callLog :
             /\ callLog'[id].phone = callLog[id].phone
             /\ callLog'[id].callee = callLog[id].callee
             /\ callLog'[id].ended =>
                  callLog[id].ended \/ id \in OpenOfLine(Caller[c], work[h].callee)
    BY <1>0, <1>4, UpdatedRows
  <2> HIDE DEF c
  <2>4. QED
    BY <1>1, <2>1, <2>2, <2>3 DEF EndedInv
<1>5. ASSUME NEW k \in Keys, DeleteUser(k) PROVE EndedInv'
  BY <1>0, <1>2, <1>5, DeletedAccount
<1>6. CASE UNCHANGED callLog
  BY <1>2, <1>6
<1>7. QED
  BY <1>3, <1>4, <1>5, <1>6 DEF Next, vars, Initiate, HangUp, Respond, Initiated, Hangup, Resolve,
     Store, FindOwner, Take, Restart

LEMMA InvHolds == Spec => [](IInv /\ ClosedInv /\ EndedInv)
<1>1. Init => IInv
  BY TypeInit, CourseInit DEF IInv
<1>2. IInv /\ [Next]_vars => IInv'
  BY TypeNext, LinesNext, StageNext DEF IInv
<1>3. Init => ClosedInv /\ EndedInv
  BY NoRows DEF Init, ClosedInv, EndedInv, Closed
<1>4. QED
  BY <1>1, <1>2, <1>3, ClosedNext, EndedNext, PTL DEF Spec

(***************************************************************************)
(* The theorems.                                                           *)
(***************************************************************************)

\* The bridge's state has its types, and a row of the log belongs to an account
\* that exists.
THEOREM TypeCorrect == Spec => []TypeInv
<1>1. IInv => TypeInv
  BY DEF IInv, TypeInd, TypeInv, LinesInv, RowsHaveALine
<1>2. QED
  BY <1>1, InvHolds, PTL

\* A call that is shown although its hangup has been answered is one of which a
\* call.initiated was handled when the hangup had happened; nothing else brings a
\* call back.
THEOREM OtherCallsStayOver == Spec => []OnlyLateCallsComeBack
<1>1. IInv => OnlyLateCallsComeBack
  BY DEF IInv, TypeInd, TypeOK, StageInv, TrackingFitsTheStage, OnlyLateCallsComeBack
<1>2. QED
  BY <1>1, InvHolds, PTL

\* A call that is up is shown until its own hangup, unless the server has crashed
\* under it and has not been told of it again.
THEOREM UpCallsStayTracked == Spec => []UpCallsAreTracked
<1>1. IInv => UpCallsAreTracked
  BY DEF IInv, StageInv, TrackingFitsTheStage, UpCallsAreTracked
<1>2. QED
  BY <1>1, InvHolds, PTL

\* When the hangup of a call is answered no row of it is open, unless another hangup
\* handler of it has its UPDATE to do, or the server forgot the call in a crash or
\* was told of it too late.
THEOREM OverCallsGetClosed == Spec => []OverCallsAreClosed
<1>1. IInv /\ ClosedInv => OverCallsAreClosed
  <2> SUFFICES ASSUME IInv, ClosedInv, NEW id \in OpenRows, NEW c \in Calls, c = callLog[id].call,
                      stage[c] = "over", c \notin forgotten \cup late, ~Closing(c)
               PROVE  FALSE
    BY DEF OverCallsAreClosed, Closing, OpenRows, RowsWhere, IInv, TypeInd, TypeOK, Row
  <2>1. id \in DOMAIN callLog /\ ~callLog[id].ended
    BY DEF OpenRows, RowsWhere
  <2>2. c \notin DOMAIN active
    BY DEF IInv, StageInv, TrackingFitsTheStage
  <2>3. QED
    BY <2>1, <2>2 DEF ClosedInv, Closed
<1>2. QED
  BY <1>1, InvHolds, PTL

\* A row is ended by nothing but a hangup between its caller and its callee.
THEOREM RowsEndByHangup == Spec => []EndedRowsHadAHangup
<1>1. EndedInv => EndedRowsHadAHangup
  BY DEF EndedInv, EndedRowsHadAHangup, OpenRows, RowsWhere
<1>2. QED
  BY <1>1, InvHolds, PTL

===============================================================================
