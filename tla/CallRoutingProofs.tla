---------------------------- MODULE CallRoutingProofs ----------------------------
(***************************************************************************)
(* Theorems about CallRouting for any users, callers, rules and requests,  *)
(* and any number of evaluations and updates at once.                      *)
(***************************************************************************)
EXTENDS CallRouting, TablesProofs

(***************************************************************************)
(* Types.  A rule has all its fields, so that each UPDATE finds its own;   *)
(* a PUT has fields to write only of what it was asked to change.          *)
(***************************************************************************)
RowFields == {"owner"} \cup Fields

\* Changes whole: the row's fields and their types.
IsRow(row) == row = [f \in RowFields |-> row[f]] /\ RowOK(row)

Edits == {IdleEdit} \cup [at : {"updating"}, id : 1..MaxRules, change : Changes, todo : SUBSET Fields]

EditOK(e) == /\ edit[e] \in Edits
             /\ edit[e].at = "updating" => edit[e].todo \subseteq DOMAIN edit[e].change

Decisions == [action : Actions, priority : 2..4]

Evals == {IdleEval} \cup [at : {"begun", "config"}, user : Users, caller : Callers]
           \cup [at : {"answered"}, decision : Decisions]

TypeInd == /\ users \subseteq Users /\ config \subseteq users
           /\ IsTable(rules) /\ \A id \in DOMAIN rules : IsRow(rules[id])
           /\ edit \in [Editors -> Edits] /\ \A e \in Editors : EditOK(e)
           /\ eval \in [Engines -> Evals]

LEMMA TypeInit == Init => TypeInd
BY NoRows DEF Init, TypeInd, EditOK, Edits, Evals, IdleEdit, IdleEval

\* The next UPDATE is of a field that is due, and of `enabled` only as the last.
LEMMA EnabledIsLast ==
  ASSUME NEW todo \in SUBSET Fields, todo # {}
  PROVE  NextField(todo) \in todo /\ (NextField(todo) = "enabled" => todo = {"enabled"})
<1>1. \E f \in todo : \A g \in todo : Rank[f] <= Rank[g]
  <2>1. CASE "priority" \in todo
    BY <2>1 DEF Fields, Rank
  <2>2. CASE "priority" \notin todo /\ "conditions" \in todo
    BY <2>2 DEF Fields, Rank
  <2>3. CASE "priority" \notin todo /\ "conditions" \notin todo /\ "action" \in todo
    BY <2>3 DEF Fields, Rank
  <2>4. CASE todo = {"enabled"}
    BY <2>4 DEF Rank
  <2>5. QED
    BY <2>1, <2>2, <2>3, <2>4 DEF Fields
<1>2. NextField(todo) \in todo /\ \A g \in todo : Rank[NextField(todo)] <= Rank[g]
  BY <1>1 DEF NextField
<1>3. \A g \in Fields : 4 <= Rank[g] => g = "enabled"
  BY DEF Fields, Rank
<1>4. Rank["enabled"] = 4
  BY DEF Rank
<1>5. QED
  BY <1>2, <1>3, <1>4

\* An UPDATE of one field of one rule.
LEMMA UpdatedRules ==
  ASSUME TypeInd, NEW id, NEW field \in Fields, NEW change \in Changes, field \in DOMAIN change
  PROVE  /\ DOMAIN Updated(id, field, change[field]) = DOMAIN rules
         /\ \A i \in DOMAIN rules : /\ IsRow(Updated(id, field, change[field])[i])
                                    /\ i # id => Updated(id, field, change[field])[i] = rules[i]
         /\ id \in DOMAIN rules => \A f \in RowFields :
              Updated(id, field, change[field])[id][f] =
                IF f = field /\ (f = "action" => change[f] \in Actions)
                THEN change[f] ELSE rules[id][f]
<1> DEFINE value == change[field]
<1>1. \A i \in DOMAIN rules : IsRow(rules[i])
  BY DEF TypeInd
<1>2. CASE id \in DOMAIN rules /\ (field = "action" => value \in Actions)
  <2> DEFINE new == [rules[id] EXCEPT ![field] = value]
  <2>1. Updated(id, field, value) = [rules EXCEPT ![id] = new]
    BY <1>2 DEF Updated
  <2>2. /\ new = [f \in RowFields |-> new[f]]
        /\ \A f \in RowFields : new[f] = IF f = field THEN value ELSE rules[id][f]
    BY <1>1, <1>2 DEF IsRow, RowFields
  <2>3. RowOK(new)
    <3>1. field = "priority" => value \in Int
      BY ChangesAreOfFields
    <3>2. field = "enabled" => value \in BOOLEAN
      BY ChangesAreOfFields
    <3>3. QED
      BY <1>1, <1>2, <2>2, <3>1, <3>2 DEF RowOK, IsRow, RowFields, Fields
  <2>4. QED
    BY <1>1, <1>2, <2>1, <2>2, <2>3 DEF IsRow
<1>3. CASE ~(id \in DOMAIN rules /\ (field = "action" => value \in Actions))
  <2>1. Updated(id, field, value) = rules
    BY <1>3 DEF Updated
  <2>2. QED
    BY <1>1, <1>3, <2>1
<1>4. QED
  BY <1>2, <1>3

LEMMA UpdatedField ==
  ASSUME TypeInd
  PROVE  \A i : \A f \in Fields, ch \in Changes : f \in DOMAIN ch =>
           /\ DOMAIN Updated(i, f, ch[f]) = DOMAIN rules
           /\ i \in DOMAIN rules => \A g \in RowFields :
                Updated(i, f, ch[f])[i][g] = IF g = f /\ (g = "action" => ch[g] \in Actions)
                                             THEN ch[g] ELSE rules[i][g]
BY UpdatedRules

(***************************************************************************)
(* One lemma for each kind of step.                                        *)
(***************************************************************************)

\* Rules lose rows when a user or a rule is deleted.
LEMMA TypeDelete ==
  ASSUME TypeInd, NEW ids, rules' = DeleteRows(rules, ids),
         users' \subseteq Users, config' \subseteq users', UNCHANGED <<edit, eval>>,
         \A id \in DOMAIN rules \ ids : rules[id].owner \in users'
  PROVE  TypeInd'
<1>1. /\ IsTable(rules') /\ DOMAIN rules' = DOMAIN rules \ ids
      /\ \A id \in DOMAIN rules' : rules'[id] = rules[id]
  <2>1. IsTable(rules)
    BY DEF TypeInd
  <2>2. /\ IsTable(DeleteRows(rules, ids))
        /\ DOMAIN DeleteRows(rules, ids) = DOMAIN rules \ ids
        /\ \A id \in DOMAIN rules \ ids : DeleteRows(rules, ids)[id] = rules[id]
    BY <2>1, DeletedRows
  <2>3. QED
    BY <2>2
<1>2. (\A id \in DOMAIN rules : IsRow(rules[id]))'
  <2> SUFFICES ASSUME NEW id \in DOMAIN rules' PROVE IsRow(rules[id])'
    OBVIOUS
  <2>1. IsRow(rules[id]) /\ rules'[id] = rules[id] /\ rules[id].owner \in users'
    BY <1>1 DEF TypeInd
  <2>2. QED
    BY <2>1 DEF IsRow, RowOK
<1>3. QED
  BY <1>1, <1>2 DEF TypeInd, EditOK

LEMMA TypeCreate ==
  ASSUME TypeInd, NEW u \in Users, NEW new \in NewRules, CreateRouting(u, new)
  PROVE  TypeInd'
<1> DEFINE row == [owner |-> u, enabled |-> TRUE, priority |-> new.priority,
                   conditions |-> new.conditions, action |-> new.action]
<1>1. /\ rules' = InsertRow(rules, row) /\ u \in users /\ new.action \in Actions
      /\ UNCHANGED <<users, config, edit, eval>>
  BY DEF CreateRouting, ForeignKey
<1>2. IsRow(row)
  BY <1>1, RulesAreTyped DEF IsRow, RowOK, RowFields, Fields
<1> HIDE DEF row
<1>3. /\ IsTable(rules') /\ DOMAIN rules' = DOMAIN rules \cup {NextRowid(rules)}
      /\ \A id \in DOMAIN rules : rules'[id] = rules[id]
      /\ rules'[NextRowid(rules)] = row
  <2>1. IsTable(rules)
    BY DEF TypeInd
  <2>2. /\ IsTable(InsertRow(rules, row))
        /\ DOMAIN InsertRow(rules, row) = DOMAIN rules \cup {NextRowid(rules)}
        /\ \A id \in DOMAIN rules : InsertRow(rules, row)[id] = rules[id]
        /\ InsertRow(rules, row)[NextRowid(rules)] = row
    BY <2>1, InsertedRow
  <2>3. QED
    BY <1>1, <2>2
<1>4. \A id \in DOMAIN rules' : IsRow(rules'[id])
  BY <1>2, <1>3 DEF TypeInd
<1>5. QED
  BY <1>1, <1>3, <1>4 DEF TypeInd, EditOK, IsRow, RowOK

LEMMA TypeUpdate ==
  ASSUME TypeInd, NEW e \in Editors, UpdateRouting(e)
  PROVE  TypeInd'
<1>0. edit \in [Editors -> Edits] /\ EditOK(e)
  BY DEF TypeInd
<1>1. ASSUME NEW id \in 1..MaxRules, NEW change \in Changes, UpdateBegin(e, id, change)
      PROVE  TypeInd'
  <2>1. edit' = [edit EXCEPT ![e] = [at |-> "updating", id |-> id, change |-> change,
                                     todo |-> DOMAIN change]]
        /\ UNCHANGED <<users, rules, config, eval>>
    BY <1>1 DEF UpdateBegin, tables
  <2>2. [at |-> "updating", id |-> id, change |-> change, todo |-> DOMAIN change] \in Edits
    BY ChangesAreOfFields DEF Edits
  <2>3. QED
    BY <2>1, <2>2 DEF TypeInd, EditOK, IsRow, RowOK
<1>2. CASE UpdateField(e)
  <2> DEFINE s == edit[e]
             field == NextField(s.todo)
  <2>1. /\ s.at = "updating" /\ s.todo # {} /\ UNCHANGED <<users, config, eval>>
        /\ rules' = Updated(s.id, field, s.change[field])
        /\ edit' = [edit EXCEPT ![e].todo = s.todo \ {field}]
    BY <1>2 DEF UpdateField
  <2>2. /\ s \in [at : {"updating"}, id : 1..MaxRules, change : Changes, todo : SUBSET Fields]
        /\ s.todo \subseteq DOMAIN s.change
    BY <1>0, <2>1 DEF EditOK, Edits, IdleEdit
  <2>3. field \in Fields /\ field \in DOMAIN s.change /\ s.change \in Changes
    BY <2>1, <2>2, EnabledIsLast
  <2> HIDE DEF field, s
  <2>4. DOMAIN rules' = DOMAIN rules /\ \A i \in DOMAIN rules' : IsRow(rules'[i])
    <3>1. \A id : \A f \in Fields, ch \in Changes : f \in DOMAIN ch =>
            /\ DOMAIN Updated(id, f, ch[f]) = DOMAIN rules
            /\ \A i \in DOMAIN rules : IsRow(Updated(id, f, ch[f])[i])
      BY UpdatedRules
    <3>2. QED
      BY <2>1, <2>3, <3>1
  <2>5. IsTable(rules')
    BY <2>4, SameIds DEF TypeInd
  <2>6. edit' \in [Editors -> Edits] /\ \A d \in Editors : EditOK(d)'
    BY <2>1, <2>2 DEF TypeInd, EditOK, Edits, s
  <2>7. QED
    BY <2>1, <2>4, <2>5, <2>6 DEF TypeInd, IsRow, RowOK
<1>3. CASE UpdateEnd(e)
  <2>1. edit' = [edit EXCEPT ![e] = IdleEdit] /\ UNCHANGED <<users, rules, config, eval>>
    BY <1>3 DEF UpdateEnd, tables
  <2>2. QED
    BY <2>1 DEF TypeInd, EditOK, Edits, IdleEdit, IsRow, RowOK
<1>4. QED
  BY <1>1, <1>2, <1>3 DEF UpdateRouting

\* What an evaluation answers is a decision.
LEMMA DecisionTypes ==
  /\ Blocked \in Decisions /\ Known \in Decisions /\ Unknown \in Decisions /\ Screened \in Decisions
  /\ \A caller \in Callers : \A rule : rule.action \in Actions => ByRule(caller, rule) \in Decisions
BY DEF Blocked, Known, Unknown, Screened, ByRule, InferPriority, Decisions, Actions

LEMMA TypeEvaluate ==
  ASSUME TypeInd, NEW e \in Engines, Evaluate(e)
  PROVE  TypeInd'
<1>1. UNCHANGED <<users, rules, config, edit>>
  BY DEF Evaluate, EvaluateBegin, EvaluateBlocked, EvaluateRules, EvaluateConfig, EvaluateEnd, tables
<1>2. \E s \in Evals : eval' = [eval EXCEPT ![e] = s]
  <2>1. ASSUME NEW d \in Decisions, Answer(e, d) PROVE \E s \in Evals : eval' = [eval EXCEPT ![e] = s]
    BY <2>1 DEF Answer, Evals
  <2>2. CASE \E u \in Users, caller \in Callers : EvaluateBegin(e, u, caller)
    BY <2>2 DEF EvaluateBegin, Evals
  <2>3. CASE EvaluateBlocked(e)
    BY <2>1, <2>3, DecisionTypes DEF EvaluateBlocked
  <2>4. CASE EvaluateRules(e)
    <3>1. eval[e] \in [at : {"begun"}, user : Users, caller : Callers]
      BY <2>4 DEF EvaluateRules, TypeInd, Evals, IdleEval
    <3>2. CASE \E id \in Candidates(eval[e].user, eval[e].caller) :
                 Answer(e, ByRule(eval[e].caller, rules[id]))
      <4>1. PICK id \in DOMAIN rules : Answer(e, ByRule(eval[e].caller, rules[id]))
        BY <3>2 DEF Candidates, LoadRules, RowsWhere
      <4>2. rules[id].action \in Actions
        BY DEF TypeInd, IsRow, RowOK
      <4>3. QED
        BY <2>1, <3>1, <4>1, <4>2, DecisionTypes
    <3>3. CASE Answer(e, Known)
      BY <2>1, <3>3, DecisionTypes
    <3>4. CASE eval' = [eval EXCEPT ![e].at = "config"]
      <4>1. [eval[e] EXCEPT !.at = "config"] \in Evals
        BY <3>1 DEF Evals
      <4>2. eval' = [eval EXCEPT ![e] = [eval[e] EXCEPT !.at = "config"]]
        BY <3>4
      <4>3. QED
        BY <4>1, <4>2
    <3>5. QED
      BY <2>4, <3>2, <3>3, <3>4 DEF EvaluateRules
  <2>5. CASE EvaluateConfig(e)
    BY <2>1, <2>5, DecisionTypes DEF EvaluateConfig
  <2>6. CASE EvaluateEnd(e)
    BY <2>6 DEF EvaluateEnd, Evals
  <2>7. QED
    BY <2>2, <2>3, <2>4, <2>5, <2>6 DEF Evaluate
<1>3. QED
  BY <1>1, <1>2 DEF TypeInd, EditOK, IsRow, RowOK

LEMMA TypeNext == TypeInd /\ [Next]_vars => TypeInd'
<1> SUFFICES ASSUME TypeInd, [Next]_vars PROVE TypeInd'
  OBVIOUS
<1>1. ASSUME NEW u \in Users, CreateUser(u) PROVE TypeInd'
  BY <1>1 DEF CreateUser, TypeInd, EditOK, IsRow, RowOK
<1>2. ASSUME NEW u \in Users, DeleteUser(u) PROVE TypeInd'
  BY <1>2, TypeDelete DEF DeleteUser, RowsWhere, TypeInd, IsRow, RowOK
<1>3. ASSUME NEW u \in Users, SetAIConfig(u) PROVE TypeInd'
  BY <1>3 DEF SetAIConfig, ForeignKey, TypeInd, EditOK, IsRow, RowOK
<1>4. ASSUME NEW id \in 1..MaxRules, DeleteRouting(id) PROVE TypeInd'
  BY <1>4, TypeDelete DEF DeleteRouting, TypeInd, IsRow, RowOK
<1>5. CASE UNCHANGED vars
  BY <1>5 DEF vars, TypeInd, EditOK, IsRow, RowOK
<1>6. QED
  BY <1>1, <1>2, <1>3, <1>4, <1>5, TypeCreate, TypeUpdate, TypeEvaluate DEF Next

\* Whatever requests for a user race with the user's deletion, no rule and no
\* setting outlives its user, and the rows keep the types of their columns.
THEOREM TypeCorrect == Spec => []TypeInv
<1>1. TypeInd => TypeInv
  <2>1. ASSUME TypeInd PROVE TypeInv
    <3>1. DOMAIN rules \subseteq Nat /\ \A id \in DOMAIN rules : RowOK(rules[id])
      BY <2>1 DEF TypeInd, IsTable, IsRow
    <3>2. \A e \in Editors : edit[e].at \in {"idle", "updating"}
      BY <2>1 DEF TypeInd, Edits, IdleEdit
    <3>3. \A e \in Engines : eval[e].at \in {"idle", "begun", "config", "answered"}
      BY <2>1 DEF TypeInd, Evals, IdleEval
    <3>4. QED
      BY <2>1, <3>1, <3>2, <3>3 DEF TypeInd, TypeInv
  <2>2. QED
    BY <2>1
<1>2. QED
  BY <1>1, TypeInit, TypeNext, PTL DEF Spec

(***************************************************************************)
(* Switching a rule on.  As long as nobody else touches the rule, what the *)
(* PUT has no longer to do is written, or refused, and `enabled` is the    *)
(* last that it has to do.                                                 *)
(***************************************************************************)
IsWritten(row, change, f) == \/ f = "action" /\ change[f] \notin Actions
                             \/ row[f] = change[f]

OwnInv ==
  \A e \in Editors : own[e].alone =>
    LET s == edit[e]
    IN  /\ s.at = "updating"
        /\ s.id \in DOMAIN rules /\ own[e].row = rules[s.id]
        /\ own[e] = [alone |-> TRUE, wasOn |-> own[e].wasOn, row |-> own[e].row]
        /\ \A f \in DOMAIN s.change \ s.todo : IsWritten(own[e].row, s.change, f)
        /\ "enabled" \in DOMAIN s.change \ s.todo => s.todo = {}
        /\ ~own[e].wasOn /\ own[e].row.enabled => "enabled" \in DOMAIN s.change \ s.todo

LEMMA OwnInit == Init => OwnInv
BY DEF Init, OwnInv, NotOwn

\* What a PUT does to its own rule and to the history of it.
LEMMA OwnUpdateBegin ==
  ASSUME TypeInd, NEW e \in Editors, NEW id \in 1..MaxRules, NEW change \in Changes,
         UpdateBegin(e, id, change), own' = [d \in Editors |-> OwnAfter(d)], own'[e].alone
  PROVE  /\ edit'[e].at = "updating" /\ id \in DOMAIN rules /\ rules' = rules
         /\ edit'[e].id = id /\ edit'[e].change = change /\ edit'[e].todo = DOMAIN change
         /\ own'[e] = [alone |-> TRUE, wasOn |-> rules[id].enabled, row |-> rules[id]]
<1>1. /\ edit' = [edit EXCEPT ![e] = [at |-> "updating", id |-> id, change |-> change,
                                      todo |-> DOMAIN change]]
      /\ edit[e].at = "idle" /\ rules' = rules /\ edit \in [Editors -> Edits]
  BY DEF UpdateBegin, tables, TypeInd
<1>2. edit'[e] = [at |-> "updating", id |-> id, change |-> change, todo |-> DOMAIN change]
  BY <1>1
<1>3. own'[e] = OwnAfter(e)
  OBVIOUS
<1>4. CASE id \in DOMAIN rules
  BY <1>1, <1>2, <1>3, <1>4 DEF OwnAfter
<1>5. CASE id \notin DOMAIN rules
  <2>1. own'[e] = NotOwn
    BY <1>1, <1>2, <1>3, <1>5 DEF OwnAfter
  <2>2. QED
    BY <2>1 DEF NotOwn
<1>6. QED
  BY <1>1, <1>2, <1>4, <1>5

\* After the PUT has begun its rule is its own only if it was before, and only if
\* it is the PUT that writes it or nobody does.
LEMMA OwnLater ==
  ASSUME NEW e \in Editors, edit[e].at # "idle", own' = [d \in Editors |-> OwnAfter(d)],
         own'[e].alone
  PROVE  /\ edit'[e].at # "idle" /\ own[e].alone
         /\ edit'[e] = edit[e] => Row(edit[e].id)' = Row(edit[e].id)
         /\ own'[e] = [own[e] EXCEPT !.row = rules'[edit'[e].id]]
<1>1. own'[e] = OwnAfter(e)
  OBVIOUS
<1>2. ~NotOwn.alone
  BY DEF NotOwn
<1>3. QED
  BY <1>1, <1>2 DEF OwnAfter

\* Only its own steps change what an editor does.
LEMMA EditSteps ==
  ASSUME TypeInd, Next, NEW e \in Editors
  PROVE  edit'[e] = edit[e] \/ UpdateRouting(e)
<1>0. edit \in [Editors -> Edits]
  BY DEF TypeInd
<1>1. ASSUME NEW d \in Editors, UpdateRouting(d), d # e PROVE edit'[e] = edit[e]
  BY <1>0, <1>1 DEF UpdateRouting, UpdateBegin, UpdateField, UpdateEnd
<1>2. ASSUME NEW d \in Engines, Evaluate(d) PROVE edit' = edit
  BY <1>2 DEF Evaluate, EvaluateBegin, EvaluateBlocked, EvaluateRules, EvaluateConfig, EvaluateEnd
<1>3. ASSUME NEW u \in Users, CreateUser(u) \/ DeleteUser(u) \/ SetAIConfig(u) PROVE edit' = edit
  BY <1>3 DEF CreateUser, DeleteUser, SetAIConfig
<1>4. ASSUME NEW u \in Users, NEW new \in NewRules, CreateRouting(u, new) PROVE edit' = edit
  BY <1>4 DEF CreateRouting
<1>5. ASSUME NEW id \in 1..MaxRules, DeleteRouting(id) PROVE edit' = edit
  BY <1>5 DEF DeleteRouting
<1>6. QED
  BY <1>1, <1>2, <1>3, <1>4, <1>5 DEF Next

\* Its own UPDATE brings the rule one field nearer to what the PUT asks for.
LEMMA OwnField ==
  ASSUME TypeInd, OwnInv, NEW e \in Editors, UpdateField(e), own[e].alone,
         own'[e] = [own[e] EXCEPT !.row = rules'[edit'[e].id]]
  PROVE  LET s == edit'[e]
         IN  /\ s.at = "updating"
             /\ s.id \in DOMAIN rules' /\ own'[e].row = rules'[s.id]
             /\ own'[e] = [alone |-> TRUE, wasOn |-> own'[e].wasOn, row |-> own'[e].row]
             /\ \A f \in DOMAIN s.change \ s.todo : IsWritten(own'[e].row, s.change, f)
             /\ "enabled" \in DOMAIN s.change \ s.todo => s.todo = {}
             /\ ~own'[e].wasOn /\ own'[e].row.enabled => "enabled" \in DOMAIN s.change \ s.todo
<1> DEFINE field == NextField(edit[e].todo)
           id == edit[e].id
           change == edit[e].change
           todo == edit[e].todo
<1>1. /\ edit[e].at = "updating" /\ todo # {}
      /\ rules' = Updated(id, field, change[field])
      /\ edit' = [edit EXCEPT ![e].todo = todo \ {field}]
  BY DEF UpdateField
<1>2. /\ edit[e] \in [at : {"updating"}, id : 1..MaxRules, change : Changes, todo : SUBSET Fields]
      /\ todo \subseteq DOMAIN change /\ edit \in [Editors -> Edits]
  BY <1>1 DEF TypeInd, EditOK, Edits, IdleEdit
<1>3. /\ edit'[e].at = "updating" /\ edit'[e].id = id /\ edit'[e].change = change
      /\ edit'[e].todo = todo \ {field}
  BY <1>1, <1>2
<1>4. /\ field \in todo /\ (field = "enabled" => todo = {"enabled"})
      /\ field \in Fields /\ change \in Changes /\ field \in DOMAIN change
      /\ DOMAIN change \subseteq Fields
  <2>1. field \in todo /\ (field = "enabled" => todo = {"enabled"})
    BY <1>1, <1>2, EnabledIsLast
  <2>2. QED
    BY <1>2, <2>1, ChangesAreOfFields
<1>5. /\ id \in DOMAIN rules /\ own[e].row = rules[id]
      /\ own[e] = [alone |-> TRUE, wasOn |-> own[e].wasOn, row |-> own[e].row]
      /\ \A f \in DOMAIN change \ todo : IsWritten(rules[id], change, f)
      /\ "enabled" \in DOMAIN change \ todo => todo = {}
      /\ ~own[e].wasOn /\ rules[id].enabled => "enabled" \in DOMAIN change \ todo
  BY DEF OwnInv
<1>6. own'[e] = [alone |-> TRUE, wasOn |-> own[e].wasOn, row |-> rules'[id]]
  BY <1>3, <1>5
<1> HIDE DEF field, id, change, todo
<1>7. /\ DOMAIN rules' = DOMAIN rules
      /\ \A f \in RowFields : rules'[id][f] = IF f = field /\ (f = "action" => change[f] \in Actions)
                                              THEN change[f] ELSE rules[id][f]
  <2>1. \A i : \A f \in Fields, ch \in Changes : f \in DOMAIN ch =>
          /\ DOMAIN Updated(i, f, ch[f]) = DOMAIN rules
          /\ i \in DOMAIN rules => \A g \in RowFields :
               Updated(i, f, ch[f])[i][g] = IF g = f /\ (g = "action" => ch[g] \in Actions)
                                            THEN ch[g] ELSE rules[i][g]
    BY UpdatedField
  <2>2. QED
    BY <1>1, <1>4, <1>5, <2>1
<1>8. \A f \in DOMAIN change \ (todo \ {field}) : IsWritten(rules'[id], change, f)
  <2> SUFFICES ASSUME NEW f \in DOMAIN change, f \notin todo \/ f = field
               PROVE  IsWritten(rules'[id], change, f)
    OBVIOUS
  <2>1. f \in RowFields
    BY <1>4 DEF RowFields
  <2>2. CASE f = field
    BY <1>7, <2>1, <2>2 DEF IsWritten
  <2>3. CASE f # field
    BY <1>5, <1>7, <2>1, <2>3 DEF IsWritten
  <2>4. QED
    BY <2>2, <2>3
<1>9. "enabled" \in DOMAIN change \ (todo \ {field}) => todo \ {field} = {}
  BY <1>4, <1>5
<1>10. ~own[e].wasOn /\ rules'[id].enabled => "enabled" \in DOMAIN change \ (todo \ {field})
  <2>1. rules'[id]["enabled"] = IF field = "enabled" THEN change["enabled"] ELSE rules[id]["enabled"]
    BY <1>7 DEF RowFields, Fields
  <2>2. CASE field = "enabled"
    BY <1>4, <2>2
  <2>3. CASE field # "enabled"
    BY <1>5, <2>1, <2>3
  <2>4. QED
    BY <2>2, <2>3
<1>11. QED
  BY <1>3, <1>5, <1>6, <1>7, <1>8, <1>9, <1>10

LEMMA OwnNext == TypeInd /\ OwnInv /\ [Next]_vars => OwnInv'
<1> SUFFICES ASSUME TypeInd, OwnInv, [Next]_vars, NEW e \in Editors, own'[e].alone
             PROVE  LET s == edit'[e]
                    IN  /\ s.at = "updating"
                        /\ s.id \in DOMAIN rules' /\ own'[e].row = rules'[s.id]
                        /\ own'[e] = [alone |-> TRUE, wasOn |-> own'[e].wasOn, row |-> own'[e].row]
                        /\ \A f \in DOMAIN s.change \ s.todo : IsWritten(own'[e].row, s.change, f)
                        /\ "enabled" \in DOMAIN s.change \ s.todo => s.todo = {}
                        /\ ~own'[e].wasOn /\ own'[e].row.enabled =>
                             "enabled" \in DOMAIN s.change \ s.todo
  BY DEF OwnInv, IsWritten
<1>1. CASE UNCHANGED vars
  BY <1>1 DEF vars, OwnInv
<1>2. CASE Next /\ edit[e].at = "idle"
  <2>1. own' = [d \in Editors |-> OwnAfter(d)]
    BY <1>2 DEF Next, History
  <2>2. edit'[e].at # "idle"
    BY <2>1 DEF OwnAfter, NotOwn
  <2>3. UpdateRouting(e)
    BY <1>2, <2>2, EditSteps
  <2>4. PICK id \in 1..MaxRules, change \in Changes : UpdateBegin(e, id, change)
    BY <1>2, <2>3 DEF UpdateRouting, UpdateField, UpdateEnd
  <2>5. QED
    BY <2>1, <2>4, OwnUpdateBegin
<1>3. CASE Next /\ edit[e].at # "idle"
  <2>1. own' = [d \in Editors |-> OwnAfter(d)]
    BY <1>3 DEF Next, History
  <2>2. /\ edit'[e].at # "idle" /\ own[e].alone
        /\ edit'[e] = edit[e] => Row(edit[e].id)' = Row(edit[e].id)
        /\ own'[e] = [own[e] EXCEPT !.row = rules'[edit'[e].id]]
    BY <1>3, <2>1, OwnLater
  <2>3. CASE UpdateRouting(e)
    <3>1. UpdateField(e)
      BY <1>3, <2>2, <2>3 DEF UpdateRouting, UpdateBegin, UpdateEnd, IdleEdit, TypeInd
    <3>2. QED
      BY <2>2, <3>1, OwnField
  <2>4. CASE edit'[e] = edit[e]
    <3>1. edit[e].id \in DOMAIN rules /\ rules[edit[e].id] = own[e].row
      BY <2>2 DEF OwnInv
    <3>2. "owner" \in DOMAIN rules[edit[e].id] /\ "owner" \notin DOMAIN NotOwn
      BY <3>1 DEF TypeInd, IsRow, RowFields, NotOwn
    <3>3. edit[e].id \in DOMAIN rules' /\ rules'[edit[e].id] = rules[edit[e].id]
      BY <2>2, <2>4, <3>1, <3>2 DEF Row
    <3>4. own'[e] = own[e]
      <4>1. own[e] = [alone |-> TRUE, wasOn |-> own[e].wasOn, row |-> own[e].row]
        BY <2>2 DEF OwnInv
      <4>2. own'[e] = [own[e] EXCEPT !.row = own[e].row]
        BY <2>2, <2>4, <3>1, <3>3
      <4>3. own'[e] = [alone |-> TRUE, wasOn |-> own[e].wasOn, row |-> own[e].row]
        BY <4>1, <4>2
      <4>4. QED
        BY <4>1, <4>3
    <3>5. QED
      BY <2>2, <2>4, <3>3, <3>4 DEF OwnInv
  <2>5. QED
    BY <1>3, <2>3, <2>4, EditSteps
<1>4. QED
  BY <1>1, <1>2, <1>3

\* A rule that a PUT switches on is in force only as the PUT wants it, and a PUT with
\* which nobody interferes leaves what it was asked for (api.go:752-775).
THEOREM SwitchedOnAsAsked == Spec => []SwitchedOnWhole
<1>1. OwnInv => SwitchedOnWhole
  BY DEF OwnInv, IsWritten, SwitchedOnWhole
<1>2. QED
  BY <1>1, TypeInit, TypeNext, OwnInit, OwnNext, PTL DEF Spec

(***************************************************************************)
(* The decision of one moment.                                             *)
(***************************************************************************)

\* The answer for an unknown caller whom no rule concerns.
Default(u) == IF u \in config THEN Screened ELSE Unknown

\* The tables at one moment decide as the loop over the rules does.
LEMMA RightByRule ==
  ASSUME TypeInd, NEW u \in Users, NEW caller \in Callers, ~caller.is_blocked,
         NEW id, IsFirst(id, Candidates(u, caller))
  PROVE  ByRule(caller, rules[id]) \in RightDecisions(u, caller)
<1> DEFINE matching == {i \in DOMAIN rules : /\ rules[i].owner = u /\ rules[i].enabled
                                             /\ MatchesConditions(caller, Parsed(rules[i].conditions))}
           first == {i \in matching : \A other \in matching : rules[i].priority <= rules[other].priority}
<1>1. Candidates(u, caller) = matching
  BY DEF Candidates, LoadRules, RowsWhere, Usable
<1>2. \A i \in matching : rules[i].priority \in Int
  BY DEF TypeInd, IsRow, RowOK
<1> HIDE DEF matching
<1>3. id \in first
  BY <1>1, <1>2 DEF IsFirst, Before
<1>4. RightDecisions(u, caller) = {ByRule(caller, rules[i]) : i \in first}
  BY <1>3 DEF RightDecisions, matching
<1>5. QED
  BY <1>3, <1>4

DefaultIsRight ==
  \A u \in Users, caller \in Callers : ~caller.is_blocked /\ Candidates(u, caller) = {} =>
    RightDecisions(u, caller) = IF caller.is_contact THEN {Known} ELSE {Default(u)}

LEMMA RightByDefault == DefaultIsRight
<1> SUFFICES ASSUME NEW u \in Users, NEW caller \in Callers, ~caller.is_blocked,
                    Candidates(u, caller) = {}
             PROVE  RightDecisions(u, caller) = IF caller.is_contact THEN {Known} ELSE {Default(u)}
  BY DEF DefaultIsRight
<1> DEFINE matching == {i \in DOMAIN rules : /\ rules[i].owner = u /\ rules[i].enabled
                                             /\ MatchesConditions(caller, Parsed(rules[i].conditions))}
           first == {i \in matching : \A other \in matching : rules[i].priority <= rules[other].priority}
<1>1. first = {}
  BY DEF Candidates, LoadRules, RowsWhere, Usable
<1>2. caller.is_contact \in BOOLEAN
  BY CallersHaveFacts
<1>3. RightDecisions(u, caller) = CASE caller.is_blocked -> {Blocked}
        [] ~caller.is_blocked /\ first # {} -> {ByRule(caller, rules[id]) : id \in first}
        [] ~caller.is_blocked /\ first = {} /\ caller.is_contact -> {Known}
        [] OTHER -> {Default(u)}
  BY DEF RightDecisions, Default
<1> HIDE DEF first
<1>4. QED
  BY <1>1, <1>2, <1>3

LEMMA RightIfBlocked ==
  ASSUME NEW u, NEW caller, caller.is_blocked
  PROVE  RightDecisions(u, caller) = {Blocked}
BY DEF RightDecisions

(* While an evaluation runs, what would be right is remembered.  When it has found
   no rule it owes the default: by the tables of now that is right, or was right, or
   two changes have fallen into it; and rules that match now have come meanwhile. *)
EvalOK(e) ==
  /\ changed[e] \in 0..2
  /\ Running(e) => RightNow(e) \subseteq right[e]
  /\ eval[e].at = "config" =>
       /\ ~eval[e].caller.is_contact /\ ~eval[e].caller.is_blocked
       /\ Candidates(eval[e].user, eval[e].caller) = {} \/ changed[e] >= 1
       /\ Default(eval[e].user) \in right[e] \/ changed[e] = 2
  /\ eval[e].at = "answered" /\ eval[e].decision \notin right[e] =>
       changed[e] = 2 /\ eval[e].decision \in {Screened, Unknown}

EvalInv == \A e \in Engines : EvalOK(e)

LEMMA EvalInit == Init => EvalInv
BY DEF Init, EvalInv, EvalOK, IdleEval, Running

\* Only its own steps move an evaluation, and they change no table.
LEMMA EvalSteps ==
  ASSUME TypeInd, Next, NEW e \in Engines
  PROVE  \/ eval'[e] = eval[e]
         \/ Evaluate(e) /\ UNCHANGED tables
<1>0. eval \in [Engines -> Evals]
  BY DEF TypeInd
<1>1. ASSUME NEW d \in Engines, Evaluate(d), d # e PROVE eval'[e] = eval[e]
  BY <1>0, <1>1 DEF Evaluate, EvaluateBegin, EvaluateBlocked, EvaluateRules, EvaluateConfig,
     EvaluateEnd, Answer
<1>2. ASSUME Evaluate(e) PROVE UNCHANGED tables
  BY <1>2 DEF Evaluate, EvaluateBegin, EvaluateBlocked, EvaluateRules, EvaluateConfig, EvaluateEnd
<1>3. ASSUME NEW d \in Editors, UpdateRouting(d) PROVE eval' = eval
  BY <1>3 DEF UpdateRouting, UpdateBegin, UpdateField, UpdateEnd
<1>4. ASSUME NEW u \in Users, CreateUser(u) \/ DeleteUser(u) \/ SetAIConfig(u) PROVE eval' = eval
  BY <1>4 DEF CreateUser, DeleteUser, SetAIConfig
<1>5. ASSUME NEW u \in Users, NEW new \in NewRules, CreateRouting(u, new) PROVE eval' = eval
  BY <1>5 DEF CreateRouting
<1>6. ASSUME NEW id \in 1..MaxRules, DeleteRouting(id) PROVE eval' = eval
  BY <1>6 DEF DeleteRouting
<1>7. QED
  BY <1>1, <1>2, <1>3, <1>4, <1>5, <1>6 DEF Next

\* The history that a step writes.
LEMMA HistoryOfStep ==
  ASSUME Next, NEW e \in Engines
  PROVE  right'[e] = RightAfter(e) /\ changed'[e] = ChangedAfter(e)
BY DEF Next, History

\* The default changes with the settings alone, or with the deletion of the user and
\* of all the user's rules.
LEMMA DefaultChanges ==
  ASSUME TypeInd, Next, NEW u \in Users, NEW caller \in Callers, Default(u)' # Default(u)
  PROVE  rules' = rules \/ Candidates(u, caller)' = {}
<1>0. config' # config
  BY DEF Default, Screened, Unknown
<1>1. ASSUME NEW v \in Users, SetAIConfig(v) PROVE rules' = rules
  BY <1>1 DEF SetAIConfig
<1>2. ASSUME NEW v \in Users, DeleteUser(v) PROVE Candidates(u, caller)' = {}
  <2>1. v = u
    BY <1>2 DEF DeleteUser, Default
  <2>2. IsTable(rules) /\ rules' = DeleteRows(rules, {id \in DOMAIN rules : rules[id].owner = u})
    BY <1>2, <2>1 DEF DeleteUser, RowsWhere, TypeInd
  <2>3. /\ DOMAIN rules' = DOMAIN rules \ {id \in DOMAIN rules : rules[id].owner = u}
        /\ \A id \in DOMAIN rules' : rules'[id] = rules[id]
    BY <2>2 DEF DeleteRows, Restrict
  <2>4. QED
    BY <2>3 DEF Candidates, LoadRules, RowsWhere
<1>3. ASSUME NEW v \in Users, CreateUser(v) PROVE FALSE
  BY <1>0, <1>3 DEF CreateUser
<1>4. ASSUME NEW d \in Engines, Evaluate(d) PROVE FALSE
  BY <1>0, <1>4 DEF Evaluate, EvaluateBegin, EvaluateBlocked, EvaluateRules, EvaluateConfig,
     EvaluateEnd, tables
<1>5. ASSUME NEW d \in Editors, UpdateRouting(d) PROVE FALSE
  BY <1>0, <1>5 DEF UpdateRouting, UpdateBegin, UpdateField, UpdateEnd, tables
<1>6. ASSUME NEW v \in Users, NEW new \in NewRules, CreateRouting(v, new) PROVE FALSE
  BY <1>0, <1>6 DEF CreateRouting
<1>7. ASSUME NEW id \in 1..MaxRules, DeleteRouting(id) PROVE FALSE
  BY <1>0, <1>7 DEF DeleteRouting
<1>8. QED
  BY <1>1, <1>2, <1>3, <1>4, <1>5, <1>6, <1>7 DEF Next

\* The tables change under an evaluation.
LEMMA EvalOthers ==
  ASSUME TypeInd, EvalInv, Next, NEW e \in Engines, eval'[e] = eval[e]
  PROVE  EvalOK(e)'
<1>0. /\ right'[e] = RightAfter(e) /\ changed'[e] = ChangedAfter(e)
      /\ EvalOK(e) /\ eval[e] \in Evals
  BY HistoryOfStep DEF EvalInv, TypeInd
<1>1. Running(e)' <=> Running(e)
  BY DEF Running
<1>2. CASE Running(e)
  <2>1. right'[e] = right[e] \cup RightNow(e)'
    BY <1>0, <1>1, <1>2 DEF RightAfter, Running
  <2>2. /\ tables' # tables /\ changed[e] < 2 => changed'[e] = changed[e] + 1
        /\ tables' = tables \/ changed[e] = 2 => changed'[e] = changed[e]
    BY <1>0, <1>2 DEF ChangedAfter, Running, EvalOK
  <2>3. changed'[e] \in 0..2 /\ changed'[e] >= changed[e] /\ (tables' # tables => changed'[e] >= 1)
    BY <1>0, <2>2 DEF EvalOK
  <2>4. ASSUME eval[e].at = "config"
        PROVE  /\ Candidates(eval[e].user, eval[e].caller)' = {} \/ changed'[e] >= 1
               /\ Default(eval[e].user)' \in right'[e] \/ changed'[e] = 2
    <3> DEFINE u == eval[e].user
               caller == eval[e].caller
    <3>1. /\ u \in Users /\ caller \in Callers /\ ~caller.is_contact /\ ~caller.is_blocked
          /\ Candidates(u, caller) = {} \/ changed[e] >= 1
          /\ Default(u) \in right[e] \/ changed[e] = 2
      BY <1>0, <2>4 DEF EvalOK, Evals, IdleEval
    <3>2. eval'[e].user = u /\ eval'[e].caller = caller
      OBVIOUS
    <3>3. CASE Candidates(u, caller)' = {}
      <4>1. DefaultIsRight'
        BY RightByDefault, PTL
      <4>2. RightNow(e)' = {Default(u)'}
        BY <3>1, <3>2, <3>3, <4>1 DEF DefaultIsRight, RightNow
      <4>3. QED
        BY <2>1, <3>3, <4>2
    <3>4. CASE Candidates(u, caller)' # {}
      <4>1. tables' = tables => Candidates(u, caller)' = Candidates(u, caller)
        BY DEF tables, Candidates, LoadRules, RowsWhere
      <4>2. changed'[e] >= 1
        BY <1>0, <2>3, <3>1, <3>4, <4>1 DEF EvalOK
      <4>3. CASE Default(u)' = Default(u)
        BY <1>0, <2>1, <2>3, <3>1, <4>2, <4>3 DEF EvalOK
      <4>4. CASE Default(u)' # Default(u)
        <5>1. rules' = rules /\ tables' # tables
          BY <3>1, <3>4, <4>4, DefaultChanges DEF tables, Default
        <5>2. changed[e] >= 1
          BY <3>1, <3>4, <5>1 DEF Candidates, LoadRules, RowsWhere
        <5>3. changed'[e] = 2
          BY <1>0, <2>2, <5>1, <5>2 DEF EvalOK
        <5>4. QED
          BY <4>2, <5>3
      <4>5. QED
        BY <4>3, <4>4
    <3>5. QED
      BY <3>3, <3>4
  <2>5. QED
    BY <1>0, <1>2, <2>1, <2>3, <2>4 DEF EvalOK, Running
<1>3. CASE eval[e].at = "answered"
  <2>1. right'[e] = right[e] \cap {eval[e].decision}
    BY <1>0, <1>1, <1>3 DEF RightAfter, Running
  <2>2. changed'[e] = IF right'[e] # {} THEN 0 ELSE changed[e]
    BY <1>0, <1>3 DEF ChangedAfter, Running
  <2>3. QED
    BY <1>0, <1>3, <2>1, <2>2 DEF EvalOK, Running
<1>4. CASE eval[e].at = "idle"
  <2>1. changed'[e] = 0
    BY <1>0, <1>4 DEF ChangedAfter, Running
  <2>2. QED
    BY <1>4, <2>1 DEF EvalOK, Running
<1>5. QED
  BY <1>0, <1>2, <1>3, <1>4 DEF Evals, IdleEval, Running

\* An answer that is right by the tables of now.
LEMMA AnsweredNow ==
  ASSUME NEW e \in Engines, EvalOK(e), NEW d, eval[e].at = "begun", d \in RightNow(e),
         eval \in [Engines -> Evals], Answer(e, d),
         right'[e] = RightAfter(e), changed'[e] = ChangedAfter(e), UNCHANGED tables
  PROVE  EvalOK(e)'
<1>1. eval'[e] = [at |-> "answered", decision |-> d]
  BY DEF Answer
<1>2. right'[e] = {d}
  BY <1>1 DEF EvalOK, Running, RightAfter
<1>3. changed'[e] = 0
  <2>1. RightAfter(e) = {d} /\ tables' = tables
    BY <1>2
  <2>2. QED
    BY <1>1, <2>1 DEF ChangedAfter
<1>4. QED
  BY <1>1, <1>2, <1>3 DEF EvalOK, Running

\* The evaluation takes a step.
LEMMA EvalOwn ==
  ASSUME TypeInd, EvalInv, Next, NEW e \in Engines, Evaluate(e), UNCHANGED tables
  PROVE  EvalOK(e)'
<1> DEFINE u == eval[e].user
           caller == eval[e].caller
<1>0. /\ right'[e] = RightAfter(e) /\ changed'[e] = ChangedAfter(e)
      /\ EvalOK(e) /\ eval[e] \in Evals /\ eval \in [Engines -> Evals]
  BY HistoryOfStep DEF EvalInv, TypeInd
<1>1. ASSUME eval'[e].at = "begun"
      PROVE  EvalOK(e)'
  <2>1. RightNow(e)' \subseteq right'[e]
    BY <1>0, <1>1 DEF RightAfter, Running
  <2>2. changed'[e] \in 0..2
    BY <1>0, <1>1 DEF ChangedAfter, Running, EvalOK
  <2>3. QED
    BY <1>1, <2>1, <2>2 DEF EvalOK
<1>2. CASE \E v \in Users, c \in Callers : EvaluateBegin(e, v, c)
  BY <1>0, <1>1, <1>2 DEF EvaluateBegin
<1>3. ASSUME eval[e].at = "begun"
      PROVE  u \in Users /\ caller \in Callers /\ RightNow(e) = RightDecisions(u, caller)
  BY <1>0, <1>3 DEF Evals, IdleEval, RightNow
<1>4. CASE EvaluateBlocked(e)
  <2>1. Blocked \in RightNow(e)
    BY <1>3, <1>4, RightIfBlocked DEF EvaluateBlocked
  <2>2. QED
    BY <1>0, <1>4, <2>1, AnsweredNow DEF EvaluateBlocked
<1>5. CASE EvaluateRules(e)
  <2>1. eval[e].at = "begun" /\ ~caller.is_blocked
    BY <1>5 DEF EvaluateRules
  <2>2. ASSUME NEW id, IsFirst(id, Candidates(u, caller)), Answer(e, ByRule(caller, rules[id]))
        PROVE  EvalOK(e)'
    BY <1>0, <1>3, <2>1, <2>2, RightByRule, AnsweredNow
  <2>3. CASE Candidates(u, caller) = {} /\ caller.is_contact /\ Answer(e, Known)
    BY <1>0, <1>3, <2>1, <2>3, RightByDefault, AnsweredNow DEF DefaultIsRight
  <2>4. CASE /\ Candidates(u, caller) = {} /\ ~caller.is_contact
             /\ eval' = [eval EXCEPT ![e].at = "config"]
    <3>1. /\ eval'[e] = [at |-> "config", user |-> u, caller |-> caller]
      BY <1>0, <2>1, <2>4 DEF Evals, IdleEval
    <3>2. RightNow(e) = {Default(u)}
      BY <1>3, <2>1, <2>4, RightByDefault DEF DefaultIsRight
    <3>3. RightNow(e)' \subseteq right'[e] /\ right[e] \subseteq right'[e]
      BY <1>0, <3>1 DEF RightAfter, Running
    <3>4. Default(u) \in right'[e]
      BY <1>0, <2>1, <3>2, <3>3 DEF EvalOK, Running
    <3>5. changed'[e] = changed[e]
      BY <1>0, <3>1 DEF ChangedAfter
    <3>6. Candidates(u, caller)' = {} /\ Default(u)' = Default(u)
      BY <2>4 DEF tables, Candidates, LoadRules, RowsWhere, Default
    <3>7. QED
      BY <1>0, <2>1, <2>4, <3>1, <3>3, <3>4, <3>5, <3>6 DEF EvalOK
  <2>5. QED
    BY <1>5, <2>2, <2>3, <2>4 DEF EvaluateRules
<1>6. CASE EvaluateConfig(e)
  <2>1. eval'[e] = [at |-> "answered", decision |-> Default(u)] /\ eval[e].at = "config"
    BY <1>0, <1>6 DEF EvaluateConfig, Answer, Default
  <2>2. right'[e] = right[e] \cap {Default(u)}
    BY <1>0, <2>1 DEF RightAfter, Running
  <2>3. changed'[e] = IF right'[e] # {} THEN 0 ELSE changed[e]
    BY <1>0, <2>1 DEF ChangedAfter
  <2>4. QED
    BY <1>0, <2>1, <2>2, <2>3 DEF EvalOK, Running, Default
<1>7. CASE EvaluateEnd(e)
  <2>1. eval'[e] = IdleEval
    BY <1>0, <1>7 DEF EvaluateEnd
  <2>2. changed'[e] = 0
    BY <1>0, <2>1 DEF ChangedAfter, Running, IdleEval
  <2>3. QED
    BY <2>1, <2>2 DEF EvalOK, Running, IdleEval
<1>8. QED
  BY <1>2, <1>4, <1>5, <1>6, <1>7 DEF Evaluate

LEMMA EvalNext == TypeInd /\ EvalInv /\ [Next]_vars => EvalInv'
<1> SUFFICES ASSUME TypeInd, EvalInv, [Next]_vars, NEW e \in Engines
             PROVE  EvalOK(e)'
  BY DEF EvalInv
<1>1. CASE Next
  BY <1>1, EvalSteps, EvalOthers, EvalOwn
<1>2. CASE UNCHANGED vars
  <2>1. /\ UNCHANGED <<users, rules, config, eval, right, changed>>
        /\ EvalOK(e)
    BY <1>2 DEF vars, EvalInv
  <2>2. QED
    BY <2>1 DEF EvalOK, Running, RightNow, RightDecisions, Candidates, LoadRules, RowsWhere, Default
<1>3. QED
  BY <1>1, <1>2

\* An evaluation that reads the rules in one statement and the settings in a later
\* one answers what was right at one moment while it ran, unless two changes fell into
\* it and its answer is the default (triage.go:71, 101).
THEOREM DecisionIsOfOneMoment == Spec => []DecisionOfOneMoment
<1>1. EvalInv => DecisionOfOneMoment
  BY DEF EvalInv, EvalOK, DecisionOfOneMoment
<1>2. QED
  BY <1>1, TypeInit, TypeNext, EvalInit, EvalNext, PTL DEF Spec

===============================================================================
