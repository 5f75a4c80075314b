------------------------------ MODULE CallRouting ------------------------------
(***************************************************************************)
(* Who may ring: the routing rules and AI settings users keep through the  *)
(* API (internal/api/api.go) and the triage engine that decides what       *)
(* happens to an incoming call (internal/triage/triage.go).                *)
(*                                                                         *)
(* Requests run concurrently and nothing holds a transaction.  The server  *)
(* has one database connection (store/db.go:30), so each SQL statement is  *)
(* one step: a PUT is up to one UPDATE per field, and an evaluation reads  *)
(* the rules in one statement and the AI settings in a later one.          *)
(***************************************************************************)
EXTENDS Integers, FiniteSets, Tables

CONSTANTS Users,      \* user ids
          Engines,    \* goroutines that serve POST /api/v1/triage/evaluate
          Editors,    \* goroutines that serve PUT /api/v1/routing/{id}
          Callers,    \* callers, as records of what is known of them
          NewRules,   \* rules that POST /api/v1/routing is asked to create
          Changes,    \* what a PUT may ask for: functions from fields to values
          IllTyped,   \* a condition's value of the wrong JSON type
          Malformed,  \* conditions that are not a JSON object
          MaxRules    \* bound: rows of routing_rules

\* The action column's CHECK.
Actions == {"ring", "ai_screen", "voicemail", "reject", "forward"}

\* What a caller record tells, under the names conditions use.
Facts == {"is_contact", "time_of_day", "day_of_week", "has_phone"}

Fields == {"priority", "conditions", "action", "enabled"}

ASSUME CallersHaveFacts ==
  \A c \in Callers : Facts \cup {"is_blocked"} \subseteq DOMAIN c /\ c.is_contact \in BOOLEAN
\* The JSON decoder refuses a request whose priority is no number, or whose
\* `enabled` is neither true nor false.
ASSUME RulesAreTyped == \A new \in NewRules : new.priority \in Int
ASSUME ChangesAreOfFields ==
  \A ch \in Changes : /\ DOMAIN ch \subseteq Fields
                      /\ "priority" \in DOMAIN ch => ch["priority"] \in Int
                      /\ "enabled" \in DOMAIN ch => ch["enabled"] \in BOOLEAN
ASSUME RuleBound == MaxRules \in Nat

VARIABLES
  users,    \* ids of the users table
  rules,    \* routing_rules
  config,   \* users that have a row of ai_config
  edit,     \* the PUT each editor is serving
  eval,     \* the evaluation each engine is serving
  right,    \* history: decisions that were right at some moment of an evaluation
  changed,  \* history: changes since it began: none (0), one, or more (2)
  own       \* history: the rule a PUT is updating, as long as nobody else has
            \* changed it since the PUT began, and whether it was enabled then

vars == <<users, rules, config, edit, eval, right, changed, own>>
tables == <<users, rules, config>>

IdleEdit == [at |-> "idle"]
IdleEval == [at |-> "idle"]
NotOwn   == [alone |-> FALSE]

Init == /\ users \in SUBSET Users
        /\ rules = EmptyTable
        /\ config = {}
        /\ edit = [e \in Editors |-> IdleEdit]
        /\ eval = [e \in Engines |-> IdleEval]
        /\ right = [e \in Engines |-> {}]
        /\ changed = [e \in Engines |-> 0]
        /\ own = [e \in Editors |-> NotOwn]

(***************************************************************************)
(* Matching and deciding.                                                  *)
(***************************************************************************)

\* json.Unmarshal into an empty map; its error is ignored.
Parsed(conditions) == IF conditions = Malformed THEN [key \in {} |-> key] ELSE conditions

\* A condition rules a caller out.  Values of the wrong type and unknown keys
\* rule nobody out; of the groups only "family" means anything.
RulesOut(caller, key, value) ==
  \/ key = "caller_group" /\ value = "family" /\ ~caller.is_contact
  \/ key \in Facts /\ value # IllTyped /\ value # caller[key]

MatchesConditions(caller, conditions) ==
  \A key \in DOMAIN conditions : ~RulesOut(caller, key, conditions[key])

InferPriority(caller, rule) ==
  IF caller.is_contact THEN 2 ELSE IF rule.action = "reject" THEN 4 ELSE 3

ByRule(caller, rule) == [action |-> rule.action, priority |-> InferPriority(caller, rule)]
Blocked  == [action |-> "reject", priority |-> 4]
Known    == [action |-> "ring", priority |-> 2]
Unknown  == [action |-> "ring", priority |-> 3]
Screened == [action |-> "ai_screen", priority |-> 3]

\* loadRules: the user's rules ORDER BY priority, ties in index order.
LoadRules(u) == RowsWhere(rules, LAMBDA row : row.owner = u)

Before(i, j) == \/ rules[i].priority < rules[j].priority
                \/ rules[i].priority = rules[j].priority /\ i < j

\* Mutant: evaluate disabled rules too.
UsableOrOff(caller, rule) == MatchesConditions(caller, Parsed(rule.conditions))

\* The test in the loop of Evaluate.
Usable(caller, rule) == rule.enabled /\ MatchesConditions(caller, Parsed(rule.conditions))

Candidates(u, caller) == {id \in LoadRules(u) : Usable(caller, rules[id])}

\* The rule for which the loop returns.
IsFirst(id, found) == id \in found /\ \A other \in found \ {id} : Before(id, other)

(***************************************************************************)
(* Evaluate.                                                               *)
(***************************************************************************)
Answer(e, decision) ==
  eval' = [eval EXCEPT ![e] = [at |-> "answered", decision |-> decision]]

EvaluateBegin(e, u, caller) ==
  /\ eval[e].at = "idle"
  /\ eval' = [eval EXCEPT ![e] = [at |-> "begun", user |-> u, caller |-> caller]]
  /\ UNCHANGED <<tables, edit>>

\* A blocked caller is answered from the request alone.
EvaluateBlocked(e) == /\ eval[e].at = "begun"
                      /\ eval[e].caller.is_blocked
                      /\ Answer(e, Blocked)
                      /\ UNCHANGED <<tables, edit>>

\* Load the rules and try them; without one that matches a contact rings.
EvaluateRules(e) ==
  /\ eval[e].at = "begun"
  /\ ~eval[e].caller.is_blocked
  /\ LET caller == eval[e].caller
         found  == Candidates(eval[e].user, caller)
     IN  \/ \E id \in found : IsFirst(id, found) /\ Answer(e, ByRule(caller, rules[id]))
         \/ found = {} /\ caller.is_contact /\ Answer(e, Known)
         \/ found = {} /\ ~caller.is_contact /\ eval' = [eval EXCEPT ![e].at = "config"]
  /\ UNCHANGED <<tables, edit>>

\* Screen an unknown caller if the user has AI settings by now.
EvaluateConfig(e) ==
  /\ eval[e].at = "config"
  /\ Answer(e, IF eval[e].user \in config THEN Screened ELSE Unknown)
  /\ UNCHANGED <<tables, edit>>

EvaluateEnd(e) == /\ eval[e].at = "answered"
                  /\ eval' = [eval EXCEPT ![e] = IdleEval]
                  /\ UNCHANGED <<tables, edit>>

(***************************************************************************)
(* Users, rules and settings: requests of one statement.                   *)
(***************************************************************************)

\* Mutant: a connection without PRAGMA foreign_keys.
NoForeignKeys(u) == TRUE

\* REFERENCES users(id): an INSERT for an absent user fails.
ForeignKey(u) == u \in users

CreateUser(u) == /\ u \notin users
                 /\ users' = users \cup {u}
                 /\ UNCHANGED <<rules, config, edit, eval>>

\* ON DELETE CASCADE takes the rules and the settings along.
DeleteUser(u) == /\ u \in users
                 /\ users' = users \ {u}
                 /\ rules' = DeleteRows(rules, RowsWhere(rules, LAMBDA row : row.owner = u))
                 /\ config' = config \ {u}
                 /\ UNCHANGED <<edit, eval>>

\* A rule is enabled when it is created; the CHECK refuses unknown actions.
CreateRouting(u, new) ==
  /\ ForeignKey(u)
  /\ new.action \in Actions
  /\ Cardinality(DOMAIN rules) < MaxRules
  /\ rules' = InsertRow(rules, [owner |-> u, enabled |-> TRUE, priority |-> new.priority,
                                conditions |-> new.conditions, action |-> new.action])
  /\ UNCHANGED <<users, config, edit, eval>>

DeleteRouting(id) == /\ id \in DOMAIN rules
                     /\ rules' = DeleteRows(rules, {id})
                     /\ UNCHANGED <<users, config, edit, eval>>

\* SetConfig inserts the row or updates the one there is.
SetAIConfig(u) == /\ ForeignKey(u)
                  /\ config' = config \cup {u}
                  /\ UNCHANGED <<users, rules, edit, eval>>

(***************************************************************************)
(* handleUpdateRouting: one UPDATE for each field the request names.  Their *)
(* errors are ignored, the row may be gone, and the answer is always 200.  *)
(***************************************************************************)
Rank == [priority |-> 1, conditions |-> 2, action |-> 3, enabled |-> 4]

\* Mutant: switch the rule on before the other fields are written.
EnabledFirst(todo) == IF "enabled" \in todo THEN "enabled" ELSE CHOOSE f \in todo : TRUE

\* The order of the UPDATEs.
NextField(todo) == CHOOSE f \in todo : \A g \in todo : Rank[f] <= Rank[g]

\* UPDATE routing_rules SET field = value WHERE id = id: no row, no effect, and
\* the CHECK refuses an unknown action.
Updated(id, field, value) ==
  IF id \in DOMAIN rules /\ (field = "action" => value \in Actions)
  THEN [rules EXCEPT ![id] = [@ EXCEPT ![field] = value]]
  ELSE rules

UpdateBegin(e, id, change) ==
  /\ edit[e].at = "idle"
  /\ edit' = [edit EXCEPT ![e] = [at |-> "updating", id |-> id, change |-> change,
                                  todo |-> DOMAIN change]]
  /\ UNCHANGED <<tables, eval>>

UpdateField(e) ==
  /\ edit[e].at = "updating"
  /\ edit[e].todo # {}
  /\ LET field == NextField(edit[e].todo)
     IN  /\ rules' = Updated(edit[e].id, field, edit[e].change[field])
         /\ edit' = [edit EXCEPT ![e].todo = @ \ {field}]
  /\ UNCHANGED <<users, config, eval>>

UpdateEnd(e) == /\ edit[e].at = "updating"
                /\ edit[e].todo = {}
                /\ edit' = [edit EXCEPT ![e] = IdleEdit]
                /\ UNCHANGED <<tables, eval>>

(***************************************************************************)
(* The specification, with the history of each evaluation.                 *)
(***************************************************************************)

\* What a decision should be by the tables as they are, told without loops: the
\* enabled rules that match and that no other one precedes decide; among rules
\* of one priority none is promised to come first.
RightDecisions(u, caller) ==
  LET matching == {id \in DOMAIN rules : /\ rules[id].owner = u /\ rules[id].enabled
                                         /\ MatchesConditions(caller, Parsed(rules[id].conditions))}
      first    == {id \in matching : \A other \in matching :
                                       rules[id].priority <= rules[other].priority}
  IN  CASE caller.is_blocked -> {Blocked}
        [] ~caller.is_blocked /\ first # {} -> {ByRule(caller, rules[id]) : id \in first}
        [] ~caller.is_blocked /\ first = {} /\ caller.is_contact -> {Known}
        [] OTHER -> {IF u \in config THEN Screened ELSE Unknown}

Running(e) == eval[e].at \in {"begun", "config"}
RightNow(e) == RightDecisions(eval[e].user, eval[e].caller)

\* Of an answered evaluation only what concerns its answer is remembered.
RightAfter(e) == CASE Running(e)' -> right[e] \cup RightNow(e)'
                   [] eval'[e].at = "answered" -> right[e] \cap {eval'[e].decision}
                   [] OTHER -> {}

ChangedAfter(e) ==
  CASE eval'[e].at = "idle" \/ (eval'[e].at = "answered" /\ RightAfter(e) # {}) -> 0
    [] Running(e) /\ tables' # tables /\ changed[e] < 2 -> changed[e] + 1
    [] OTHER -> changed[e]

Row(id) == IF id \in DOMAIN rules THEN rules[id] ELSE NotOwn

\* The rule e's PUT is at, after a step: its own if only this PUT has touched it.
OwnAfter(e) ==
  LET id == edit'[e].id
      begins == edit[e].at = "idle"
      spoilt == edit'[e] = edit[e] /\ Row(edit[e].id)' # Row(edit[e].id)
  IN  CASE edit'[e].at = "idle" -> NotOwn
        [] edit'[e].at # "idle" /\ begins /\ id \in DOMAIN rules ->
             [alone |-> TRUE, wasOn |-> rules[id].enabled, row |-> rules[id]]
        [] edit'[e].at # "idle" /\ ~begins /\ own[e].alone /\ ~spoilt ->
             [own[e] EXCEPT !.row = rules'[id]]
        [] OTHER -> NotOwn

History == /\ right' = [e \in Engines |-> RightAfter(e)]
           /\ changed' = [e \in Engines |-> ChangedAfter(e)]
           /\ own' = [e \in Editors |-> OwnAfter(e)]

Evaluate(e) == \/ \E u \in Users, caller \in Callers : EvaluateBegin(e, u, caller)
               \/ EvaluateBlocked(e)
               \/ EvaluateRules(e)
               \/ EvaluateConfig(e)
               \/ EvaluateEnd(e)

UpdateRouting(e) == \/ \E id \in 1..MaxRules, change \in Changes : UpdateBegin(e, id, change)
                    \/ UpdateField(e)
                    \/ UpdateEnd(e)

Next == /\ \/ \E e \in Engines : Evaluate(e)
           \/ \E e \in Editors : UpdateRouting(e)
           \/ \E u \in Users : CreateUser(u) \/ DeleteUser(u) \/ SetAIConfig(u)
           \/ \E u \in Users, new \in NewRules : CreateRouting(u, new)
           \/ \E id \in 1..MaxRules : DeleteRouting(id)
        /\ History

Spec == Init /\ [][Next]_vars

(***************************************************************************)
(* Properties.                                                             *)
(***************************************************************************)
RowOK(row) == /\ row.owner \in users
              /\ row.action \in Actions
              /\ row.enabled \in BOOLEAN
              /\ row.priority \in Int

\* Types, and no rule or setting outlives its user, though requests for a user
\* race with the user's deletion.
TypeInv == /\ users \subseteq Users
           /\ config \subseteq users
           /\ DOMAIN rules \subseteq Nat
           /\ \A id \in DOMAIN rules : RowOK(rules[id])
           /\ \A e \in Editors : edit[e].at \in {"idle", "updating"}
           /\ \A e \in Engines : eval[e].at \in {"idle", "begun", "config", "answered"}

\* An evaluation that reads the rules and, later, the AI settings answers what
\* was right at one moment while it ran, unless two changes fell into it and its
\* answer is the default for an unknown caller (triage.go:71, 101).
DecisionOfOneMoment ==
  \A e \in Engines :
    eval[e].at = "answered" /\ eval[e].decision \notin right[e] =>
      /\ changed[e] = 2
      /\ eval[e].decision \in {Screened, Unknown}

\* A rule that a PUT switches on is never in force half-written, and a PUT that
\* nobody interferes with leaves what it was asked for, save an action that the
\* table refuses: `enabled` is the last UPDATE (api.go:752-775).
SwitchedOnWhole ==
  \A e \in Editors :
    own[e].alone /\ (edit[e].todo = {} \/ (~own[e].wasOn /\ own[e].row.enabled)) =>
      \A f \in DOMAIN edit[e].change :
        \/ f = "action" /\ edit[e].change[f] \notin Actions
        \/ own[e].row[f] = edit[e].change[f]

===============================================================================
