--------------------------- MODULE CallTrackingProofs ---------------------------
(***************************************************************************)
(* Theorems about CallTracking for any sets of users and goroutines, and   *)
(* any bounds on calls and restarts.                                       *)
(***************************************************************************)
EXTENDS CallTracking, TablesProofs, FiniteSetTheorems

USE NoneIsNobody, CallBounds

(***************************************************************************)
(* The invariant.  A call is known by its number; whoever will end it, an  *)
(* entry of activeCalls or a hangup that has taken the entry, is its only  *)
(* holder and knows its row.                                               *)
(***************************************************************************)
Inserting(p) == step[p].at = "insert"
Updating(p)  == step[p].at = "update"

\* Between the look into activeCalls and the INSERT nobody else tracks a call.
InsertIsDue == \A p \in Procs : Inserting(p) => /\ step[p].pair \notin DOMAIN active
                                                /\ calls < MaxCalls

RowsAreNumbered == /\ \A i \in DOMAIN callLog : callLog[i].call <= calls
                   /\ \A i, j \in DOMAIN callLog : callLog[i].call = callLog[j].call => i = j

HoldersAreNumbered == /\ \A a \in DOMAIN active : active[a].call \in (before + 1)..calls
                      /\ \A p \in Procs : Updating(p) => step[p].call \in (before + 1)..calls

OneHolder ==
  /\ \A a, b \in DOMAIN active : active[a].call = active[b].call => a = b
  /\ \A p, q \in Procs : Updating(p) /\ Updating(q) /\ step[p].call = step[q].call => p = q
  /\ \A a \in DOMAIN active, p \in Procs : Updating(p) => active[a].call # step[p].call

HoldersKnowTheirRow ==
  \A i \in DOMAIN callLog :
    /\ \A a \in DOMAIN active : callLog[i].call = active[a].call => active[a].id = i /\ callLog[i].pair = a
    /\ \A p \in Procs : Updating(p) /\ callLog[i].call = step[p].call => step[p].id = i

OpenRowsAreHeld ==
  \A i \in DOMAIN callLog : ~callLog[i].ended /\ callLog[i].call > before =>
    \/ \E a \in DOMAIN active : active[a].call = callLog[i].call
    \/ \E p \in Procs : Updating(p) /\ step[p].call = callLog[i].call

IInv == /\ TypeInv
        /\ IsTable(callLog)
        /\ InsertIsDue
        /\ RowsAreNumbered
        /\ HoldersAreNumbered
        /\ OneHolder
        /\ HoldersKnowTheirRow
        /\ OpenRowsAreHeld

LEMMA InvInit == Init => IInv
<1> SUFFICES ASSUME Init PROVE IInv
  OBVIOUS
<1>1. IsTable(callLog) /\ DOMAIN callLog = {} /\ DOMAIN active = {}
  BY NoRows DEF Init
<1>2. TypeInv
  <2>1. step \in [Procs -> Step] /\ \A p \in Procs : step[p].at = "idle"
    BY DEF Init, Idle, Step
  <2>2. LockHeld
    BY <2>1 DEF Init, LockHeld
  <2>3. TypeOK
    <3>1. removed \in BOOLEAN
      BY Zenon DEF Init
    <3>2. QED
      BY <1>1, <2>1, <3>1 DEF Init, TypeOK
  <2>4. QED
    BY <2>2, <2>3 DEF TypeInv
<1>3. QED
  BY <1>1, <1>2 DEF Init, IInv, InsertIsDue, RowsAreNumbered, HoldersAreNumbered, OneHolder,
       HoldersKnowTheirRow, OpenRowsAreHeld, Idle, Inserting, Updating

\* trackCallStart up to its INSERT.
LEMMA InvStartLock ==
  ASSUME IInv, NEW p \in Procs, NEW from \in Keys, NEW to \in Keys, StartLock(p, from, to)
  PROVE  IInv'
<1> DEFINE pair == CallKey(from, to)
<1>1. /\ pair \in Pairs /\ Owner(from, to) \in Keys
      /\ pair \notin DOMAIN active
      /\ callMu = None /\ callMu' = p /\ step[p] = Idle
      /\ step' = [step EXCEPT ![p] = [at |-> "insert", pair |-> pair, owner |-> Owner(from, to)]]
      /\ UNCHANGED <<users, callLog, active, calls, starts, before, removed>>
  BY DEF StartLock, Untracked, HolderUntilInsert, Owner, Pairs, history
<1>2. {q \in Procs : step[q].at = "insert"} = {}
  BY <1>1 DEF IInv, TypeInv, LockHeld
<1>3. calls < MaxCalls
  <2>1. Cardinality({q \in Procs : step[q].at = "insert"}) = 0
    BY <1>2, FS_EmptySet
  <2>2. QED
    BY <2>1 DEF StartLock, IInv, TypeInv, TypeOK
<1>4. step \in [Procs -> Step]
  BY DEF IInv, TypeInv, TypeOK
<1>5. TypeInv'
  BY <1>1, <1>4 DEF IInv, TypeInv, TypeOK, LockHeld, Step, Idle
<1>6. \A q \in Procs : /\ Updating(q)' <=> Updating(q)
                       /\ Updating(q) => step'[q] = step[q]
                       /\ Inserting(q)' => q = p
  BY <1>1, <1>2, <1>4 DEF Updating, Inserting, Idle
<1>7. InsertIsDue'
  BY <1>1, <1>3, <1>4, <1>6 DEF InsertIsDue
<1>8. (RowsAreNumbered /\ HoldersAreNumbered /\ OneHolder)'
  BY <1>1, <1>6 DEF IInv, RowsAreNumbered, HoldersAreNumbered, OneHolder
<1>9. (HoldersKnowTheirRow /\ OpenRowsAreHeld)'
  BY <1>1, <1>6 DEF IInv, HoldersKnowTheirRow, OpenRowsAreHeld
<1>10. QED
  BY <1>1, <1>5, <1>7, <1>8, <1>9 DEF IInv

\* Its INSERT: the new row has a new number, and activeCalls holds it.
LEMMA InvStartInsert ==
  ASSUME IInv, NEW p \in Procs, StartInsert(p)
  PROVE  IInv'
<1> DEFINE s == step[p]
           row == [pair |-> s.pair, owner |-> s.owner, ended |-> FALSE, call |-> calls + 1]
           id == NextRowid(callLog)
<1>1. /\ Inserting(p) /\ callMu = p /\ callMu' = None
      /\ s.pair \in Pairs /\ s.owner \in Keys /\ s.pair \notin DOMAIN active
      /\ step' = [step EXCEPT ![p] = Idle]
      /\ calls \in Nat /\ calls < MaxCalls
      /\ UNCHANGED <<users, starts, before, removed>>
  BY DEF StartInsert, IInv, TypeInv, TypeOK, LockHeld, Inserting, InsertIsDue, Step, history
<1>2. step \in [Procs -> Step] /\ (\A i \in DOMAIN callLog : callLog[i] \in Row) /\ DOMAIN callLog \subseteq Nat
  BY DEF IInv, TypeInv, TypeOK
<1>3. \A q \in Procs : /\ Updating(q)' <=> Updating(q)
                       /\ Updating(q) => step'[q] = step[q]
                       /\ ~Inserting(q)'
  BY <1>1, <1>2 DEF IInv, TypeInv, LockHeld, Updating, Inserting, Idle
<1>4. InsertIsDue'
  BY <1>3 DEF InsertIsDue
<1>5. CASE s.owner \notin users
  <2>1. UNCHANGED <<calls, callLog, active>>
    BY <1>5 DEF StartInsert
  <2>2. TypeInv'
    BY <2>1, <1>1, <1>2, <1>3 DEF IInv, TypeInv, TypeOK, LockHeld, Step, Idle, Inserting
  <2>3. (RowsAreNumbered /\ HoldersAreNumbered /\ OneHolder)'
    BY <2>1, <1>1, <1>3 DEF IInv, RowsAreNumbered, HoldersAreNumbered, OneHolder
  <2>4. (HoldersKnowTheirRow /\ OpenRowsAreHeld)'
    BY <2>1, <1>1, <1>3 DEF IInv, HoldersKnowTheirRow, OpenRowsAreHeld
  <2>5. QED
    BY <2>1, <2>2, <2>3, <2>4, <1>4 DEF IInv
<1>6. CASE s.owner \in users
  <2>1. /\ calls' = calls + 1
        /\ callLog' = InsertRow(callLog, row)
        /\ active' = [pair \in DOMAIN active \cup {s.pair} |->
                        IF pair = s.pair THEN [id |-> id, call |-> calls + 1] ELSE active[pair]]
    BY <1>6 DEF StartInsert
  <2>2. /\ IsTable(callLog')
        /\ DOMAIN callLog' = DOMAIN callLog \cup {id}
        /\ \A i \in DOMAIN callLog : callLog'[i] = callLog[i]
        /\ callLog'[id] = row
    <3>1. IsTable(callLog)
      BY DEF IInv
    <3>2. /\ IsTable(InsertRow(callLog, row))
          /\ DOMAIN InsertRow(callLog, row) = DOMAIN callLog \cup {id}
          /\ \A i \in DOMAIN callLog : InsertRow(callLog, row)[i] = callLog[i]
          /\ InsertRow(callLog, row)[id] = row
      <4> HIDE DEF row
      <4> QED
        BY <3>1, InsertedRow
    <3> HIDE DEF row, id
    <3>3. QED
      BY <2>1, <3>2
  <2>3. id \in Nat /\ id \notin DOMAIN callLog
    BY NextRowidIsFresh DEF IInv
  <2>4. /\ DOMAIN active' = DOMAIN active \cup {s.pair}
        /\ active'[s.pair] = [id |-> id, call |-> calls + 1]
        /\ \A a \in DOMAIN active : active'[a] = active[a]
    BY <2>1, <1>1
  <2>5. row \in Row
    BY <1>1, <2>1 DEF Row
  <2>6. TypeInv'
    <3>1. \A i \in DOMAIN callLog' : callLog'[i] \in Row
      BY <2>2, <2>5, <1>2
    <3>2. \A a \in DOMAIN active' : active'[a] \in [id : Nat, call : 1..MaxCalls]
      BY <2>4, <2>3, <1>1 DEF IInv, TypeInv, TypeOK
    <3>3. step' \in [Procs -> Step] /\ LockHeld'
      BY <1>1, <1>2, <1>3 DEF LockHeld, Step, Idle, Inserting
    <3>4. DOMAIN callLog' \subseteq Nat /\ DOMAIN active' \subseteq Pairs
      BY <2>2, <2>3, <2>4, <1>1, <1>2 DEF IInv, TypeInv, TypeOK
    <3>5. calls' \in 0..MaxCalls /\ before' \in 0..calls'
      BY <2>1, <1>1 DEF IInv, TypeInv, TypeOK
    <3>6. QED
      BY <3>1, <3>2, <3>3, <3>4, <3>5, <1>1 DEF IInv, TypeInv, TypeOK
  <2>7. RowsAreNumbered'
    <3>1. \A i \in DOMAIN callLog : callLog[i].call \in Nat /\ callLog[i].call <= calls
      BY <1>2 DEF IInv, RowsAreNumbered, Row
    <3>2. callLog'[id].call = calls + 1
      BY <2>2
    <3>3. \A i \in DOMAIN callLog : callLog'[i].call = callLog[i].call
      BY <2>2
    <3>4. \A i, j \in DOMAIN callLog : callLog[i].call = callLog[j].call => i = j
      BY DEF IInv, RowsAreNumbered
    <3>5. DOMAIN callLog' = DOMAIN callLog \cup {id} /\ calls' = calls + 1 /\ calls \in Nat
      BY <2>1, <2>2, <1>1
    <3> HIDE DEF id
    <3>6. QED
      BY <3>1, <3>2, <3>3, <3>4, <3>5 DEF RowsAreNumbered
  <2>8. HoldersAreNumbered'
    BY <2>1, <2>4, <1>1, <1>3 DEF IInv, TypeInv, TypeOK, HoldersAreNumbered
  <2>9. OneHolder'
    BY <2>4, <1>1, <1>3 DEF IInv, TypeInv, TypeOK, HoldersAreNumbered, OneHolder
  <2>10. HoldersKnowTheirRow'
    <3>1. \A a \in DOMAIN active : active[a].call < calls + 1
      BY <1>1 DEF IInv, TypeInv, TypeOK, HoldersAreNumbered
    <3>2. \A q \in Procs : Updating(q) => step[q].call < calls + 1
      BY <1>1 DEF IInv, TypeInv, TypeOK, HoldersAreNumbered
    <3>3. \A i \in DOMAIN callLog : callLog[i].call < calls + 1
      BY <1>1, <1>2 DEF IInv, RowsAreNumbered, Row
    <3>4. QED
      <4>1. ASSUME NEW i \in DOMAIN callLog, NEW a \in DOMAIN active', callLog'[i].call = active'[a].call
            PROVE  active'[a].id = i /\ callLog'[i].pair = a
        BY <4>1, <3>3, <2>2, <2>4, <1>1 DEF IInv, HoldersKnowTheirRow
      <4>2. ASSUME NEW a \in DOMAIN active', callLog'[id].call = active'[a].call
            PROVE  active'[a].id = id /\ callLog'[id].pair = a
        BY <4>2, <3>1, <2>2, <2>4, <1>1
      <4>3. ASSUME NEW i \in DOMAIN callLog', NEW q \in Procs, Updating(q)', callLog'[i].call = step'[q].call
            PROVE  step'[q].id = i
        BY <4>3, <3>2, <2>2, <1>1, <1>3 DEF IInv, HoldersKnowTheirRow
      <4>4. QED
        BY <4>1, <4>2, <4>3, <2>2 DEF HoldersKnowTheirRow
  <2>11. OpenRowsAreHeld'
    BY <2>2, <2>4, <1>1, <1>3 DEF IInv, OpenRowsAreHeld
  <2>12. QED
    BY <2>2, <2>6, <2>7, <2>8, <2>9, <2>10, <2>11, <1>4 DEF IInv
<1>7. QED
  BY <1>5, <1>6

\* The critical section of trackCallEnd: the hangup takes the call over.
LEMMA InvEndTake ==
  ASSUME IInv, NEW p \in Procs, NEW from \in Keys, NEW to \in Keys, EndTake(p, from, to)
  PROVE  IInv'
<1> DEFINE taken == CallKey(from, to)
<1>1. /\ taken \in Pairs /\ taken \in DOMAIN active
      /\ step[p] = Idle
      /\ step' = [step EXCEPT ![p] = [at |-> "update", pair |-> taken,
                                      id |-> active[taken].id, call |-> active[taken].call]]
      /\ UNCHANGED <<users, callLog, callMu, calls, starts, before, removed>>
  BY DEF EndTake, Pairs, history
<1>2. active' = [a \in DOMAIN active \ {taken} |-> active[a]]
  BY DEF EndTake, ActiveAfterTake, Restrict
<1>3. /\ step \in [Procs -> Step]
      /\ active[taken] \in [id : Nat, call : 1..MaxCalls]
  BY <1>1 DEF IInv, TypeInv, TypeOK
<1>4. /\ Updating(p)' /\ step'[p].id = active[taken].id /\ step'[p].call = active[taken].call
      /\ ~Updating(p) /\ ~Inserting(p)'
  BY <1>1, <1>3 DEF Updating, Inserting, Idle
<1>5. \A q \in Procs : q # p => step'[q] = step[q]
  BY <1>1, <1>3
<1>6. /\ DOMAIN active' = DOMAIN active \ {taken}
      /\ \A a \in DOMAIN active' : active'[a] = active[a] /\ a # taken
  BY <1>2
<1>7. TypeInv'
  <2>1. step' \in [Procs -> Step]
    BY <1>1, <1>3 DEF Step
  <2>2. LockHeld'
    BY <1>1, <1>3, <1>4, <1>5 DEF IInv, TypeInv, LockHeld, Inserting, Idle
  <2>3. QED
    BY <2>1, <2>2, <1>1, <1>6 DEF IInv, TypeInv, TypeOK
<1>8. InsertIsDue'
  BY <1>1, <1>4, <1>5, <1>6 DEF IInv, InsertIsDue, Inserting
<1>9. RowsAreNumbered' /\ IsTable(callLog')
  BY <1>1 DEF IInv, RowsAreNumbered
<1>10. HoldersAreNumbered'
  BY <1>1, <1>4, <1>5, <1>6 DEF IInv, HoldersAreNumbered, Updating
<1>11. OneHolder'
  BY <1>1, <1>4, <1>5, <1>6 DEF IInv, OneHolder, Updating
<1>12. HoldersKnowTheirRow'
  BY <1>1, <1>4, <1>5, <1>6 DEF IInv, HoldersKnowTheirRow, Updating
<1>13. OpenRowsAreHeld'
  BY <1>1, <1>4, <1>5, <1>6 DEF IInv, OpenRowsAreHeld, Updating
<1>14. QED
  BY <1>7, <1>8, <1>9, <1>10, <1>11, <1>12, <1>13 DEF IInv

\* Its UPDATE: the row of the call is ended, if it is there, so nobody need hold
\* the call any longer.  A row that has got the id meanwhile is ended with it.
LEMMA InvEndUpdate ==
  ASSUME IInv, NEW p \in Procs, EndUpdate(p)
  PROVE  IInv'
<1>1. /\ Updating(p)
      /\ step' = [step EXCEPT ![p] = Idle]
      /\ UNCHANGED <<users, active, callMu, calls, starts, before, removed>>
  BY DEF EndUpdate, Updating, history
<1>2. /\ step \in [Procs -> Step]
      /\ \A i \in DOMAIN callLog : callLog[i] \in Row
  BY DEF IInv, TypeInv, TypeOK
<1>3. /\ DOMAIN callLog' = DOMAIN callLog
      /\ \A i \in DOMAIN callLog : /\ callLog'[i] \in Row
                                   /\ callLog'[i].call = callLog[i].call
                                   /\ callLog'[i].pair = callLog[i].pair
                                   /\ i # step[p].id => callLog'[i] = callLog[i]
                                   /\ i = step[p].id => callLog'[i].ended
  <2>1. CASE step[p].id \in DOMAIN callLog
    <3>1. callLog' = [callLog EXCEPT ![step[p].id].ended = TRUE]
      BY <2>1 DEF EndUpdate, Close
    <3>2. QED
      BY <3>1, <2>1, <1>2 DEF Row
  <2>2. CASE step[p].id \notin DOMAIN callLog
    BY <2>2, <1>2 DEF EndUpdate, Close
  <2>3. QED
    BY <2>1, <2>2
<1>4. \A q \in Procs : /\ Updating(q)' <=> Updating(q) /\ q # p
                       /\ q # p => step'[q] = step[q]
                       /\ Inserting(q)' <=> Inserting(q)
                       /\ Inserting(q) => step'[q] = step[q]
  BY <1>1, <1>2 DEF Updating, Inserting, Idle
<1>5. TypeInv'
  <2>1. step' \in [Procs -> Step]
    BY <1>1, <1>2 DEF Step, Idle
  <2>2. LockHeld'
    BY <1>1, <1>4 DEF IInv, TypeInv, LockHeld, Inserting
  <2>3. QED
    BY <2>1, <2>2, <1>1, <1>3 DEF IInv, TypeInv, TypeOK
<1>6. InsertIsDue'
  BY <1>1, <1>4 DEF IInv, InsertIsDue
<1>7. RowsAreNumbered' /\ IsTable(callLog')
  BY <1>1, <1>3, SameIds DEF IInv, RowsAreNumbered
<1>8. HoldersAreNumbered' /\ OneHolder'
  BY <1>1, <1>4 DEF IInv, HoldersAreNumbered, OneHolder
<1>9. HoldersKnowTheirRow'
  BY <1>1, <1>3, <1>4 DEF IInv, HoldersKnowTheirRow
<1>10. OpenRowsAreHeld'
  BY <1>1, <1>3, <1>4 DEF IInv, HoldersKnowTheirRow, OpenRowsAreHeld
<1>11. QED
  BY <1>5, <1>6, <1>7, <1>8, <1>9, <1>10 DEF IInv

\* Rows are deleted, with an account or by the pruning.
LEMMA InvRemoved ==
  ASSUME IInv, NEW ids, callLog' = DeleteRows(callLog, ids), users' \subseteq Keys,
         removed' \in BOOLEAN, UNCHANGED <<active, callMu, step, calls, starts, before>>
  PROVE  IInv'
<1>1. /\ IsTable(callLog')
      /\ DOMAIN callLog' \subseteq DOMAIN callLog
      /\ \A i \in DOMAIN callLog' : callLog'[i] = callLog[i]
  <2>1. IsTable(callLog)
    BY DEF IInv
  <2>2. /\ IsTable(DeleteRows(callLog, ids))
        /\ DOMAIN DeleteRows(callLog, ids) = DOMAIN callLog \ ids
        /\ \A i \in DOMAIN callLog \ ids : DeleteRows(callLog, ids)[i] = callLog[i]
    BY <2>1, DeletedRows
  <2>3. callLog' = DeleteRows(callLog, ids)
    OBVIOUS
  <2>4. QED
    BY <2>2, <2>3
<1>2. TypeInv'
  BY <1>1 DEF IInv, TypeInv, TypeOK, LockHeld
<1>3. QED
  BY <1>1, <1>2 DEF IInv, InsertIsDue, RowsAreNumbered, HoldersAreNumbered, OneHolder,
       HoldersKnowTheirRow, OpenRowsAreHeld, Inserting, Updating

\* The server starts again: nobody holds a call, and those in the log are of
\* earlier runs.
LEMMA InvRestart ==
  ASSUME IInv, Restart
  PROVE  IInv'
<1>1. /\ DOMAIN active' = {}
      /\ \A p \in Procs : step'[p].at = "idle"
      /\ step' \in [Procs -> Step]
      /\ callMu' = None /\ before' = calls
      /\ UNCHANGED <<users, callLog, calls, removed>>
  BY NoRows DEF Restart, Idle, Step
<1>2. starts' \in 0..MaxStarts /\ before' \in 0..calls'
  BY <1>1 DEF Restart, IInv, TypeInv, TypeOK
<1>3. TypeInv'
  BY <1>1, <1>2 DEF IInv, TypeInv, TypeOK, LockHeld
<1>4. \A i \in DOMAIN callLog : ~(callLog[i].call > calls)
  BY DEF IInv, TypeInv, TypeOK, Row, RowsAreNumbered
<1>5. QED
  BY <1>1, <1>3, <1>4 DEF IInv, InsertIsDue, RowsAreNumbered, HoldersAreNumbered, OneHolder,
       HoldersKnowTheirRow, OpenRowsAreHeld, Inserting, Updating

\* Every step keeps the invariant.
LEMMA InvNext == IInv /\ [Next]_vars => IInv'
<1> SUFFICES ASSUME IInv, [Next]_vars PROVE IInv'
  OBVIOUS
<1>1. ASSUME NEW p \in Procs, Start(p) PROVE IInv'
  BY <1>1, InvStartLock, InvStartInsert DEF Start
<1>2. ASSUME NEW p \in Procs, End(p) PROVE IInv'
  BY <1>2, InvEndTake, InvEndUpdate DEF End
<1>3. ASSUME NEW k \in Keys, CreateUser(k) PROVE IInv'
  BY <1>3 DEF CreateUser, history, IInv, TypeInv, TypeOK, LockHeld, InsertIsDue, RowsAreNumbered,
       HoldersAreNumbered, OneHolder, HoldersKnowTheirRow, OpenRowsAreHeld, Inserting, Updating
<1>4. ASSUME NEW k \in Keys, DeleteUser(k) PROVE IInv'
  BY <1>4, InvRemoved DEF DeleteUser, Remove, IInv, TypeInv, TypeOK
<1>5. ASSUME NEW n \in 1..MaxCalls, Prune(n) PROVE IInv'
  BY <1>5, InvRemoved DEF Prune, Remove, IInv, TypeInv, TypeOK
<1>6. CASE UNCHANGED vars
  BY <1>6 DEF vars, IInv, TypeInv, TypeOK, LockHeld, InsertIsDue, RowsAreNumbered,
       HoldersAreNumbered, OneHolder, HoldersKnowTheirRow, OpenRowsAreHeld, Inserting, Updating
<1>7. QED
  BY <1>1, <1>2, <1>3, <1>4, <1>5, <1>6, InvRestart DEF Next

LEMMA InvHolds == Spec => []IInv
BY InvInit, InvNext, PTL DEF Spec

(***************************************************************************)
(* The theorems.                                                           *)
(***************************************************************************)

\* The tables, activeCalls and the goroutines' states have their types, and
\* callMu is held exactly between the look into activeCalls and the INSERT.
THEOREM TypeCorrect == Spec => []TypeInv
<1>1. IInv => TypeInv
  BY DEF IInv
<1>2. QED
  BY <1>1, InvHolds, PTL

\* Somebody will end every open row of this run: its entry in activeCalls, or
\* exactly one hangup that has taken the entry.
THEOREM OpenRowsTracked == Spec => []OpenRowsAreTracked
<1>1. IInv => OpenRowsAreTracked
  <2> SUFFICES ASSUME IInv, NEW id \in OpenRows
               PROVE  \/ /\ callLog[id].pair \in DOMAIN active
                         /\ active[callLog[id].pair] = [id |-> id, call |-> callLog[id].call]
                      \/ Cardinality(Ending(callLog[id].call)) = 1
    BY DEF OpenRowsAreTracked
  <2>1. id \in DOMAIN callLog /\ ~callLog[id].ended /\ callLog[id].call > before
    BY DEF OpenRows, RowsWhere
  <2>2. CASE \E a \in DOMAIN active : active[a].call = callLog[id].call
    BY <2>1, <2>2 DEF IInv, HoldersKnowTheirRow, TypeInv, TypeOK
  <2>3. CASE \E p \in Procs : Updating(p) /\ step[p].call = callLog[id].call
    <3>1. PICK p \in Procs : Updating(p) /\ step[p].call = callLog[id].call
      BY <2>3
    <3>2. Ending(callLog[id].call) = {p}
      BY <3>1 DEF IInv, OneHolder, Ending, Updating
    <3>3. Cardinality({p}) = 1
      BY FS_Singleton
    <3>4. QED
      BY <3>2, <3>3
  <2>4. QED
    BY <2>1, <2>2, <2>3 DEF IInv, OpenRowsAreHeld
<1>2. QED
  BY <1>1, InvHolds, PTL

\* The log never shows two calls of one pair in progress: a call in progress is
\* the one activeCalls has for the pair.
THEOREM OneCallOfEachPair == Spec => []OneCallPerPair
<1>1. IInv => OneCallPerPair
  <2> SUFFICES ASSUME IInv, NEW pair \in Pairs
               PROVE  Cardinality(InProgress(pair)) <= 1
    BY DEF OneCallPerPair
  <2>1. InProgress(pair) \subseteq {active[pair].id}
    <3> SUFFICES ASSUME NEW id \in InProgress(pair)
                 PROVE  id = active[pair].id
      OBVIOUS
    <3>1. /\ id \in DOMAIN callLog /\ ~callLog[id].ended /\ callLog[id].call > before
          /\ callLog[id].pair = pair
      BY DEF InProgress, OpenRows, RowsWhere
    <3>2. ~\E p \in Procs : Updating(p) /\ step[p].call = callLog[id].call
      BY DEF InProgress, Ending, Updating
    <3>3. PICK a \in DOMAIN active : active[a].call = callLog[id].call
      BY <3>1, <3>2 DEF IInv, OpenRowsAreHeld
    <3>4. QED
      BY <3>1, <3>3 DEF IInv, HoldersKnowTheirRow
  <2>2. CASE InProgress(pair) = {}
    <3>1. Cardinality({}) = 0
      BY FS_EmptySet
    <3>2. QED
      BY <2>2, <3>1
  <2>3. CASE InProgress(pair) # {}
    <3>1. InProgress(pair) = {active[pair].id}
      BY <2>1, <2>3
    <3>2. Cardinality({active[pair].id}) = 1
      BY FS_Singleton
    <3>3. QED
      BY <3>1, <3>2
  <2>4. QED
    BY <2>2, <2>3
<1>2. QED
  BY <1>1, InvHolds, PTL

(***************************************************************************)
(* While no row has been removed, whoever holds a call finds its row in    *)
(* the log, and finds it open.                                             *)
(***************************************************************************)
OpenRow(i, n) == i \in DOMAIN callLog /\ callLog[i].call = n /\ ~callLog[i].ended

HeldRowsAreOpen ==
  ~removed => /\ \A a \in DOMAIN active : OpenRow(active[a].id, active[a].call)
              /\ \A p \in Procs : Updating(p) => OpenRow(step[p].id, step[p].call)

LEMMA HeldNext == IInv /\ HeldRowsAreOpen /\ [Next]_vars => HeldRowsAreOpen'
<1> SUFFICES ASSUME IInv, HeldRowsAreOpen, [Next]_vars, ~removed' PROVE HeldRowsAreOpen'
  BY DEF HeldRowsAreOpen
<1>0. /\ step \in [Procs -> Step]
      /\ \A i \in DOMAIN callLog : callLog[i] \in Row
  BY DEF IInv, TypeInv, TypeOK
<1>1. ASSUME NEW p \in Procs, NEW from \in Keys, NEW to \in Keys, StartLock(p, from, to)
      PROVE  HeldRowsAreOpen'
  <2>1. UNCHANGED <<callLog, active, removed>>
    BY <1>1 DEF StartLock, history
  <2>2. \A q \in Procs : Updating(q)' => Updating(q) /\ step'[q] = step[q]
    BY <1>0, <1>1 DEF StartLock, Updating
  <2>3. QED
    BY <2>1, <2>2 DEF HeldRowsAreOpen, OpenRow
<1>2. ASSUME NEW p \in Procs, StartInsert(p)
      PROVE  HeldRowsAreOpen'
  <2>1. \A q \in Procs : Updating(q)' => Updating(q) /\ step'[q] = step[q]
    BY <1>0, <1>2 DEF StartInsert, Updating, Idle
  <2>2. removed' = removed
    BY <1>2 DEF StartInsert, history
  <2>3. CASE UNCHANGED <<callLog, active>>
    BY <2>1, <2>2, <2>3 DEF HeldRowsAreOpen, OpenRow
  <2>4. CASE /\ callLog' = InsertRow(callLog, [pair |-> step[p].pair, owner |-> step[p].owner,
                                               ended |-> FALSE, call |-> calls + 1])
             /\ active' = [pair \in DOMAIN active \cup {step[p].pair} |->
                              IF pair = step[p].pair
                              THEN [id |-> NextRowid(callLog), call |-> calls + 1]
                              ELSE active[pair]]
    <3> DEFINE row == [pair |-> step[p].pair, owner |-> step[p].owner,
                       ended |-> FALSE, call |-> calls + 1]
               id == NextRowid(callLog)
    <3>1. row.call = calls + 1 /\ ~row.ended
      OBVIOUS
    <3>2. /\ DOMAIN InsertRow(callLog, row) = DOMAIN callLog \cup {id}
          /\ \A i \in DOMAIN callLog : InsertRow(callLog, row)[i] = callLog[i]
          /\ InsertRow(callLog, row)[id] = row
      <4> HIDE DEF row
      <4> QED
        BY InsertedRow DEF IInv
    <3>3. callLog' = InsertRow(callLog, row)
      BY <2>4
    <3> HIDE DEF row, id
    <3>4. id \in DOMAIN callLog' /\ callLog'[id].call = calls + 1 /\ ~callLog'[id].ended
      BY <3>1, <3>2, <3>3
    <3>5. \A i \in DOMAIN callLog : i \in DOMAIN callLog' /\ callLog'[i] = callLog[i]
      BY <3>2, <3>3
    <3>6. /\ DOMAIN active' = DOMAIN active \cup {step[p].pair}
          /\ active'[step[p].pair] = [id |-> id, call |-> calls + 1]
          /\ \A a \in DOMAIN active : a # step[p].pair => active'[a] = active[a]
      BY <2>4 DEF id
    <3>7. QED
      BY <2>1, <2>2, <3>4, <3>5, <3>6 DEF HeldRowsAreOpen, OpenRow
  <2>5. QED
    BY <1>2, <2>3, <2>4 DEF StartInsert
<1>3. ASSUME NEW p \in Procs, NEW from \in Keys, NEW to \in Keys, EndTake(p, from, to)
      PROVE  HeldRowsAreOpen'
  <2> DEFINE taken == CallKey(from, to)
  <2>1. /\ taken \in DOMAIN active
        /\ active' = [a \in DOMAIN active \ {taken} |-> active[a]]
        /\ UNCHANGED <<callLog, removed>>
    BY <1>3 DEF EndTake, ActiveAfterTake, Restrict, history
  <2>2. \A q \in Procs : Updating(q)' =>
          \/ Updating(q) /\ step'[q] = step[q]
          \/ step'[q].id = active[taken].id /\ step'[q].call = active[taken].call
    BY <1>0, <1>3 DEF EndTake, Updating
  <2>3. QED
    BY <2>1, <2>2 DEF HeldRowsAreOpen, OpenRow
<1>4. ASSUME NEW p \in Procs, EndUpdate(p)
      PROVE  HeldRowsAreOpen'
  <2>1. /\ Updating(p) /\ ~removed
        /\ OpenRow(step[p].id, step[p].call)
        /\ UNCHANGED <<active, removed>>
    BY <1>4 DEF EndUpdate, Updating, HeldRowsAreOpen, history
  <2>2. callLog' = [callLog EXCEPT ![step[p].id].ended = TRUE]
    BY <1>4, <2>1 DEF EndUpdate, Close, OpenRow
  <2>3. \A q \in Procs : Updating(q)' => Updating(q) /\ q # p /\ step'[q] = step[q]
    BY <1>0, <1>4 DEF EndUpdate, Updating, Idle
  <2>4. \A i \in DOMAIN callLog : i # step[p].id => callLog'[i] = callLog[i]
    BY <2>2
  <2>5. \A a \in DOMAIN active : active[a].id # step[p].id
    BY <2>1 DEF HeldRowsAreOpen, OpenRow, IInv, OneHolder
  <2>6. \A q \in Procs : Updating(q) /\ q # p => step[q].id # step[p].id
    BY <2>1 DEF HeldRowsAreOpen, OpenRow, IInv, OneHolder
  <2>7. DOMAIN callLog' = DOMAIN callLog
    BY <2>2
  <2>8. QED
    BY <2>1, <2>3, <2>4, <2>5, <2>6, <2>7 DEF HeldRowsAreOpen, OpenRow
<1>5. CASE UNCHANGED <<callLog, active, step, removed>>
  BY <1>5 DEF HeldRowsAreOpen, OpenRow, Updating
<1>6. ASSUME Restart PROVE HeldRowsAreOpen'
  BY <1>6, NoRows DEF Restart, HeldRowsAreOpen, Updating, Idle
<1>7. ~(\E k \in Keys : DeleteUser(k)) /\ ~(\E n \in 1..MaxCalls : Prune(n))
  BY DEF DeleteUser, Prune, Remove
<1>8. ASSUME NEW k \in Keys, CreateUser(k) PROVE HeldRowsAreOpen'
  BY <1>8, <1>5 DEF CreateUser, history
<1>9. CASE UNCHANGED vars
  BY <1>9, <1>5 DEF vars
<1>10. QED
  BY <1>1, <1>2, <1>3, <1>4, <1>6, <1>7, <1>8, <1>9 DEF Next, Start, End

\* As long as no row is removed each call is ended once, by the hangup that took
\* it: its UPDATE finds the row of that call, and finds it open.
THEOREM EndsItsOwnCall == Spec => EndsItsOwnCallOnce
<1>1. Init => HeldRowsAreOpen
  BY NoRows DEF Init, HeldRowsAreOpen, Updating, Idle
<1>2. Spec => [](IInv /\ HeldRowsAreOpen)
  BY <1>1, InvInit, InvNext, HeldNext, PTL DEF Spec
<1>3. IInv /\ HeldRowsAreOpen =>
        \A p \in Procs : EndUpdate(p) /\ ~removed =>
          /\ step[p].id \in DOMAIN callLog
          /\ callLog[step[p].id].call = step[p].call
          /\ ~callLog[step[p].id].ended
  BY DEF HeldRowsAreOpen, OpenRow, EndUpdate, Updating
<1>4. QED
  BY <1>2, <1>3, PTL DEF EndsItsOwnCallOnce

(***************************************************************************)
(* Liveness.  Fairness speaks of ENABLED, which the prover cannot expand:  *)
(* that a goroutine in the middle of tracking can go on is a hypothesis.   *)
(***************************************************************************)
CanGoOn == \A p \in Procs : Inserting(p) \/ Updating(p) => ENABLED <<StartInsert(p) \/ EndUpdate(p)>>_vars

\* While the goroutine of a hangup has not ended its call, that call keeps its
\* number and its row; a restart makes it a call of an earlier run.
LEMMA EndingStays ==
  ASSUME IInv, NEW p \in Procs, NEW n \in 1..MaxCalls, p \in Ending(n), [Next]_vars
  PROVE  p \in Ending(n)' \/ Over(n)'
<1>1. step \in [Procs -> Step] /\ Updating(p) /\ step[p].call = n
  BY DEF IInv, TypeInv, TypeOK, Ending, Updating
<1>2. CASE step'[p] = step[p]
  BY <1>1, <1>2 DEF Ending, Updating
<1>3. CASE EndUpdate(p)
  <2>1. \A i \in DOMAIN callLog : callLog[i].call = n => step[p].id = i
    BY <1>1 DEF IInv, HoldersKnowTheirRow
  <2>2. callLog' = Close(step[p].id) /\ \A i \in DOMAIN callLog : callLog[i] \in Row
    BY <1>3 DEF EndUpdate, IInv, TypeInv, TypeOK
  <2>3. \A i \in DOMAIN callLog' : /\ i \in DOMAIN callLog /\ callLog'[i].call = callLog[i].call
                                   /\ i = step[p].id => callLog'[i].ended
    BY <2>2 DEF Close, Row
  <2>4. QED
    BY <2>1, <2>3 DEF Over
<1>4. CASE Restart
  <2>1. n <= calls
    BY <1>1 DEF IInv, HoldersAreNumbered, TypeInv, TypeOK
  <2>2. QED
    BY <1>4, <2>1 DEF Restart, Over
<1>5. ASSUME NEW q \in Procs, Start(q) \/ End(q), ~EndUpdate(p)
      PROVE  step'[p] = step[p]
  <2>1. ~Start(p) /\ ~End(p)
    <3>1. step[p] # Idle /\ step[p].at = "update"
      BY <1>1 DEF Updating, Idle
    <3>2. QED
      BY <1>5, <3>1 DEF Start, End, StartLock, StartInsert, EndTake
  <2>2. QED
    BY <1>1, <1>5, <2>1 DEF Start, End, StartLock, StartInsert, EndTake, EndUpdate
<1>6. ASSUME \/ \E k \in Keys : CreateUser(k) \/ DeleteUser(k)
             \/ \E k \in 1..MaxCalls : Prune(k)
             \/ UNCHANGED vars
      PROVE  step'[p] = step[p]
  BY <1>6 DEF CreateUser, DeleteUser, Prune, vars
<1>7. QED
  BY <1>2, <1>3, <1>4, <1>5, <1>6 DEF Next

\* ... and its own next step is the UPDATE.
LEMMA UpdateIsEnd ==
  ASSUME IInv, NEW p \in Procs, NEW n \in 1..MaxCalls, p \in Ending(n),
         StartInsert(p) \/ EndUpdate(p)
  PROVE  Over(n)'
<1>1. [Next]_vars /\ EndUpdate(p)
  BY DEF Next, Start, End, StartInsert, Ending
<1>2. p \notin Ending(n)'
  BY <1>1 DEF EndUpdate, Ending, Idle, IInv, TypeInv, TypeOK
<1>3. QED
  BY <1>1, <1>2, EndingStays

\* A hangup that has taken a call ends its row, whatever others do to the log
\* meanwhile, if the goroutines that have begun to track go on.
THEOREM HangupsEndCalls == FairSpec /\ []CanGoOn => HangupEndsCall
<1>1. ASSUME NEW p \in Procs, NEW n \in 1..MaxCalls
      PROVE  FairSpec /\ []CanGoOn => ((p \in Ending(n)) ~> Over(n))
  <2>1. IInv /\ p \in Ending(n) /\ [Next]_vars => (p \in Ending(n))' \/ Over(n)'
    BY EndingStays
  <2>2. IInv /\ p \in Ending(n) /\ <<StartInsert(p) \/ EndUpdate(p)>>_vars => Over(n)'
    BY UpdateIsEnd
  <2>3. CanGoOn /\ p \in Ending(n) => ENABLED <<StartInsert(p) \/ EndUpdate(p)>>_vars
    BY DEF CanGoOn, Ending, Updating
  <2>4. FairSpec => Spec /\ GoesOn(p)
    BY DEF FairSpec
  <2>5. QED
    BY <2>1, <2>2, <2>3, <2>4, InvHolds, PTL DEF Spec, GoesOn
<1>2. QED
  BY <1>1 DEF HangupEndsCall

===============================================================================
