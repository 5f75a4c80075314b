----------------------------- MODULE CallTracking -----------------------------
(***************************************************************************)
(* Call duration logging of the signaling server: activeCalls, the call    *)
(* being tracked for each pair of users, and the call_log table            *)
(* (internal/signaling/signaling.go, trackCallStart and trackCallEnd).     *)
(*                                                                         *)
(* Handlers track calls concurrently: callMu covers the whole of           *)
(* trackCallStart, but of trackCallEnd only the look into activeCalls.     *)
(* Meanwhile the API deletes and creates users, the cleanup service prunes *)
(* old rows, and the server may crash and start again.                     *)
(***************************************************************************)
EXTENDS Naturals, FiniteSets, Tables, Functions

CONSTANTS Keys,     \* public keys, with or without an account
          Procs,    \* goroutines that relay offers and hangups
          None,     \* nobody
          MaxCalls, \* bound: calls logged
          MaxStarts \* bound: times the server is started again

ASSUME NoneIsNobody  == None \notin Keys \cup Procs
ASSUME CallBounds    == MaxCalls \in Nat /\ MaxStarts \in Nat

VARIABLES
  users,    \* keys that have a row in the users table
  callLog,  \* the call_log table
  active,   \* s.activeCalls, by pair of users
  callMu,   \* the goroutine that holds s.callMu between two steps, or None
  step,     \* what each goroutine is in the middle of
  calls,    \* calls logged so far; a call's number tells it from the others
  starts,   \* restarts so far
  before,   \* history: calls logged before the present run of the server
  removed   \* history: has a row been removed from the call_log?

vars == <<users, callLog, active, callMu, step, calls, starts, before, removed>>
history == <<starts, before, removed>>

\* callKey: both directions give the same key.
CallKey(a, b) == {a, b}
Pairs == {CallKey(a, b) : a \in Keys, b \in Keys}

Row == [pair : Pairs, owner : Keys, ended : BOOLEAN, call : 1..MaxCalls]

Idle == [at |-> "idle"]
Step == [at : {"idle"}] \cup [at : {"insert"}, pair : Pairs, owner : Keys]
          \cup [at : {"update"}, pair : Pairs, id : Nat, call : 1..MaxCalls]

TypeOK == /\ users \subseteq Keys
          /\ DOMAIN callLog \subseteq Nat
          /\ \A id \in DOMAIN callLog : callLog[id] \in Row
          /\ DOMAIN active \subseteq Pairs
          /\ \A pair \in DOMAIN active : active[pair] \in [id : Nat, call : 1..MaxCalls]
          /\ callMu \in Procs \cup {None}
          /\ step \in [Procs -> Step]
          /\ calls \in 0..MaxCalls
          /\ starts \in 0..MaxStarts /\ before \in 0..calls /\ removed \in BOOLEAN

Init == /\ users \in SUBSET Keys
        /\ callLog = EmptyTable
        /\ active = EmptyTable
        /\ callMu = None
        /\ step = [p \in Procs |-> Idle]
        /\ calls = 0
        /\ starts = 0 /\ before = 0 /\ removed = FALSE

(***************************************************************************)
(* trackCallStart.                                                         *)
(***************************************************************************)

\* The call log belongs to the callee, or to the caller if only the caller
\* has an account.
Owner(from, to) == IF to \in users THEN to ELSE from

\* Mutant: track every offer of a pair as a call of its own.
AlwaysUntracked(pair) == TRUE

\* The dedupe: nothing is logged for a pair that is being tracked.
Untracked(pair) == pair \notin DOMAIN active

\* Mutant: drop the lock before the INSERT.
UnlockEarly(p) == None

HolderUntilInsert(p) == p

\* Lock callMu, see that the pair is not tracked, find the owner.  When the
\* pair is tracked or neither party has an account nothing happens.  The SELECTs
\* of the two parties' accounts are one step, and an account is named by its key:
\* a statement of another handler in between has the effect it has before or after
\* both.
StartLock(p, from, to) ==
  /\ step[p] = Idle
  /\ callMu = None
  /\ Untracked(CallKey(from, to))
  /\ {from, to} \cap users # {}
  /\ calls + Cardinality({q \in Procs : step[q].at = "insert"}) < MaxCalls
  /\ callMu' = HolderUntilInsert(p)
  /\ step' = [step EXCEPT ![p] = [at |-> "insert", pair |-> CallKey(from, to),
                                  owner |-> Owner(from, to)]]
  /\ UNCHANGED <<users, callLog, active, calls, history>>

\* INSERT the row, track the call under the id it got, unlock.  Once the owner
\* is gone the foreign key fails the INSERT and the call is not tracked.
StartInsert(p) ==
  LET s == step[p]
      row == [pair |-> s.pair, owner |-> s.owner, ended |-> FALSE, call |-> calls + 1]
  IN  /\ s.at = "insert"
      /\ IF s.owner \in users
         THEN /\ calls' = calls + 1
              /\ callLog' = InsertRow(callLog, row)
              /\ active' = [pair \in DOMAIN active \cup {s.pair} |->
                              IF pair = s.pair
                              THEN [id |-> NextRowid(callLog), call |-> calls + 1]
                              ELSE active[pair]]
         ELSE UNCHANGED <<calls, callLog, active>>
      /\ callMu' = None
      /\ step' = [step EXCEPT ![p] = Idle]
      /\ UNCHANGED <<users, history>>

(***************************************************************************)
(* trackCallEnd.                                                           *)
(***************************************************************************)

\* Mutant: leave the entry for the next hangup to find.
KeepTaken(pair) == active

\* activeCalls once a hangup has taken the call of a pair.
ActiveAfterTake(pair) == Restrict(active, DOMAIN active \ {pair})

\* Take the call of the pair out of activeCalls.  A hangup for a pair that is
\* not tracked does nothing.
EndTake(p, from, to) ==
  LET pair == CallKey(from, to)
  IN  /\ step[p] = Idle
      /\ callMu = None
      /\ pair \in DOMAIN active
      /\ active' = ActiveAfterTake(pair)
      /\ step' = [step EXCEPT ![p] = [at |-> "update", pair |-> pair,
                                      id |-> active[pair].id, call |-> active[pair].call]]
      /\ UNCHANGED <<users, callLog, callMu, calls, history>>

\* Mutant: forget the UPDATE.
ForgetClose(id) == callLog

\* UPDATE call_log SET ended_at = now, duration_sec = .. WHERE id = id.
Close(id) == IF id \in DOMAIN callLog
             THEN [callLog EXCEPT ![id].ended = TRUE]
             ELSE callLog

\* The UPDATE, with no lock held.
EndUpdate(p) == /\ step[p].at = "update"
                /\ callLog' = Close(step[p].id)
                /\ step' = [step EXCEPT ![p] = Idle]
                /\ UNCHANGED <<users, active, callMu, calls, history>>

(***************************************************************************)
(* What else happens to the two tables and to the server.                  *)
(***************************************************************************)

\* POST /api/v1/users.
CreateUser(k) == /\ k \notin users
                 /\ users' = users \cup {k}
                 /\ UNCHANGED <<callLog, active, callMu, step, calls, history>>

\* DELETE FROM call_log, of the rows for which Test holds.
Remove(Test(_)) == /\ callLog' = DeleteRows(callLog, RowsWhere(callLog, Test))
                   /\ removed' = TRUE

\* DELETE /api/v1/users/{id}; ON DELETE CASCADE takes the user's call log along.
DeleteUser(k) ==
  /\ k \in users
  /\ users' = users \ {k}
  /\ Remove(LAMBDA row : row.owner = k)
  /\ UNCHANGED <<active, callMu, step, calls, starts, before>>

\* pruneOldCallLogs: the rows that have become old enough go, oldest first.
Prune(n) ==
  /\ n \in 1..calls
  /\ Remove(LAMBDA row : row.call <= n)
  /\ UNCHANGED <<users, active, callMu, step, calls, starts, before>>

\* The process ends and New starts over with empty maps on the same database.
Restart == /\ starts < MaxStarts
           /\ starts' = starts + 1
           /\ before' = calls
           /\ active' = EmptyTable
           /\ callMu' = None
           /\ step' = [p \in Procs |-> Idle]
           /\ UNCHANGED <<users, callLog, calls, removed>>

(***************************************************************************)
(* The specification.                                                      *)
(***************************************************************************)
Start(p) == StartInsert(p) \/ \E from, to \in Keys : StartLock(p, from, to)
End(p)   == EndUpdate(p) \/ \E from, to \in Keys : EndTake(p, from, to)

Next == \/ \E p \in Procs : Start(p) \/ End(p)
        \/ \E k \in Keys : CreateUser(k) \/ DeleteUser(k)
        \/ \E n \in 1..MaxCalls : Prune(n)
        \/ Restart

Spec == Init /\ [][Next]_vars

\* A goroutine that has begun to track goes on.
GoesOn(p) == WF_vars(StartInsert(p) \/ EndUpdate(p))

FairSpec == Spec /\ \A p \in Procs : GoesOn(p)

(***************************************************************************)
(* Properties.                                                             *)
(***************************************************************************)

\* The goroutine between its INSERT and its locks holds callMu, and nobody else.
LockHeld == \A p \in Procs : step[p].at = "insert" <=> callMu = p

TypeInv == TypeOK /\ LockHeld

\* Goroutines that still owe call n its UPDATE.
Ending(n) == {p \in Procs : step[p].at = "update" /\ step[p].call = n}

\* The open rows of the calls that began in the present run of the server.
\* (Those of earlier runs stay open for ever: nothing is left that knows them.)
OpenRows == RowsWhere(callLog, LAMBDA row : ~row.ended /\ row.call > before)

\* Calls in progress of a pair: rows that are open and that no hangup has taken.
InProgress(pair) == {id \in OpenRows : callLog[id].pair = pair /\ Ending(callLog[id].call) = {}}

\* However offers, hangups and reconnects interleave, and while rows are being
\* removed, the log never shows two calls of one pair in progress: the look
\* into activeCalls and the INSERT are one critical section (369-397).
OneCallPerPair ==
  \A pair \in Pairs : Cardinality(InProgress(pair)) <= 1

\* Every open row has somebody who will end it, though the ids of removed rows
\* are given out again: its entry in activeCalls, or one hangup that has taken
\* the entry (397, 414-418).
OpenRowsAreTracked ==
  \A id \in OpenRows :
    LET row == callLog[id]
    IN  \/ row.pair \in DOMAIN active /\ active[row.pair] = [id |-> id, call |-> row.call]
        \/ Cardinality(Ending(row.call)) = 1

\* As long as no row is removed each call is ended once, by the hangup that took
\* it, across restarts too: no UPDATE finds another call's row, or one that has
\* ended before and whose duration it would overwrite (424-428).
EndsItsOwnCallOnce ==
  [][\A p \in Procs : EndUpdate(p) /\ ~removed =>
       /\ step[p].id \in DOMAIN callLog
       /\ callLog[step[p].id].call = step[p].call
       /\ ~callLog[step[p].id].ended]_vars

\* Each row of call n has ended, or the server it was a call of has.
Over(n) == \/ \A id \in DOMAIN callLog : callLog[id].call = n => callLog[id].ended
           \/ n <= before

\* A hangup that has taken a call ends its row, unless the row is removed or the
\* server ends first.
HangupEndsCall ==
  \A p \in Procs, n \in 1..MaxCalls : (p \in Ending(n)) ~> Over(n)

===============================================================================
