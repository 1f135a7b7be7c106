------------------------ MODULE TaskLifecycleProofs -------------------------
(***************************************************************************)
(* What the workflow rules guarantee for every definition that             *)
(* validate_workflow_definition accepts, every staff and every sequence of *)
(* tool calls and edits: proofs about TaskLifecycle.                       *)
(*                                                                         *)
(* The argument is about one call: whichever rule prepare_existing_action  *)
(* selects is one of the definition that starts from the state of the      *)
(* card, its patch stays within the fields of a card, and what validate_rule *)
(* checked of the merged card is what is written.  The last three results, *)
(* on stranded cards, repeated calls and offers, ask more of a definition  *)
(* than the validation does; each names what it needs.                     *)
(***************************************************************************)
EXTENDS TaskLifecycle, TLAPS, WellFoundedInduction

\* A definition that is valid: of a rule, the parts the proofs use.
LEMMA RuleFacts ==
  ASSUME NEW k \in Actions, NEW i \in DOMAIN Rules[k]
  PROVE  LET rule == Rules[k][i] IN
         /\ rule.from \subseteq State \ Terminal
         /\ rule.to \in State \cup {Blank} /\ (k = "create" => rule.to = InitialState)
         /\ rule.writable \subseteq Field /\ rule.clear \subseteq Field
         /\ DOMAIN rule.defaults \subseteq Field /\ DOMAIN rule.fixed \subseteq Field
         /\ rule.prefix # Blank => "result_evidence" \in rule.writable
<1> DEFINE rule == Rules[k][i]
<1>1. ValidRule(k, rule)
  BY DefinitionValid
<1>2. InitialState \in State
  BY DefinitionValid DEF ValidLifecycle
<1>3. rule.to \in State \cup {Blank} /\ (k = "create" => rule.to = InitialState)
  BY <1>1, <1>2 DEF ValidRule
<1>4. /\ rule.from \subseteq State \ Terminal /\ rule.writable \subseteq Writable
      /\ rule.clear \subseteq Field
      /\ DOMAIN rule.defaults \subseteq Writable /\ DOMAIN rule.fixed \subseteq Writable
      /\ rule.prefix # Blank => "result_evidence" \in rule.writable
  BY <1>1 DEF ValidRule
<1>5. Writable \subseteq Field
  BY DEF Writable
<1> HIDE DEF rule
<1>6. QED
  BY <1>3, <1>4, <1>5 DEF rule

\* No state is blank.
LEMMA StatesNamed ==
  /\ Blank \notin State /\ Terminal \subseteq State /\ Values["status"] = State
  /\ Guarded \subseteq State
<1>1. Blank \notin State /\ Values["status"] = State
  BY BoardAssumption
<1>2. Terminal \subseteq State
  BY DefinitionValid DEF ValidLifecycle
<1>3. Guarded \subseteq State
  BY RuleFacts DEF Guarded, RulesOf
<1>4. QED
  BY <1>1, <1>2, <1>3

\* The first of some rules is one of them.
LEMMA FirstIn ==
  ASSUME NEW at, at \subseteq Nat, at # {}
  PROVE  First(at) \in at
<1> DEFINE R == {r \in Nat \X Nat : r[1] < r[2]}
<1>1. OpToRel(<, Nat) = R
  BY DEF OpToRel
<1>2. IsWellFoundedOn(R, Nat)
  BY <1>1, NatLessThanWellFounded
<1> HIDE DEF R
<1>3. PICK x \in at : \A y \in at : ~ (<<y, x>> \in R)
  BY <1>2, WFMin
<1>4. \A y \in at : y \in Nat /\ x \in Nat /\ ~(y < x)
  BY <1>3 DEF R
<1>5. \A y \in at : x <= y
  BY <1>4
<1>6. QED
  BY <1>5 DEF First

-----------------------------------------------------------------------------
(* One call.                                                                *)

\* Over: what the later fields are.
LEMMA OverFacts ==
  ASSUME NEW new, NEW old
  PROVE  /\ DOMAIN Over(new, old) = DOMAIN new \cup DOMAIN old
         /\ \A f \in DOMAIN new : Over(new, old)[f] = new[f]
         /\ \A f \in DOMAIN old \ DOMAIN new : Over(new, old)[f] = old[f]
BY DEF Over

\* action_patch writes fields of a card, and a status exactly if the rule has one.
LEMMA PatchFacts ==
  ASSUME NEW k \in Actions, NEW i \in DOMAIN Rules[k], NEW a, NEW payload,
         DOMAIN payload \subseteq Rules[k][i].writable
  PROVE  LET patch == Patch(a, Rules[k][i], payload) IN
         /\ DOMAIN patch \subseteq Field \cup {"status"}
         /\ Rules[k][i].to # Blank => "status" \in DOMAIN patch /\ patch["status"] = Rules[k][i].to
         /\ Rules[k][i].to = Blank => "status" \notin DOMAIN patch
<1> DEFINE rule == Rules[k][i]
           given == Over(rule.fixed, Over(payload, rule.defaults))
           prefixed == IF /\ rule.prefix # Blank /\ "result_evidence" \in DOMAIN given
                          /\ given["result_evidence"] # Blank
                       THEN Over(Pay("result_evidence", rule.prefix), given) ELSE given
           bound == IF rule.binds THEN Over(Pay("agent_id", a), prefixed) ELSE prefixed
           cleared == Over([f \in rule.clear |-> Blank], bound)
           patch == IF rule.to = Blank THEN cleared ELSE Over(Pay("status", rule.to), cleared)
<1>1. Patch(a, rule, payload) = patch
  BY DEF Patch
<1>2. \A f, v : DOMAIN Pay(f, v) = {f} /\ Pay(f, v)[f] = v
  BY DEF Pay
<1>3. "result_evidence" \in Field /\ "agent_id" \in Field /\ "status" \notin Field
  BY DEF Field
<1>4. /\ DOMAIN rule.fixed \subseteq Field /\ DOMAIN rule.defaults \subseteq Field
      /\ rule.clear \subseteq Field /\ DOMAIN payload \subseteq Field
  BY RuleFacts
<1> HIDE DEF rule
<1>5. DOMAIN given \subseteq Field
  <2>1. DOMAIN given = DOMAIN rule.fixed \cup (DOMAIN payload \cup DOMAIN rule.defaults)
    BY DEF Over
  <2>2. QED
    BY <1>4, <2>1
<1> HIDE DEF given
<1>6. DOMAIN prefixed \subseteq Field
  <2>1. DOMAIN prefixed \subseteq {"result_evidence"} \cup DOMAIN given
    BY <1>2 DEF Over
  <2>2. QED
    BY <1>3, <1>5, <2>1
<1> HIDE DEF prefixed
<1>7. DOMAIN bound \subseteq Field
  <2>1. DOMAIN bound \subseteq {"agent_id"} \cup DOMAIN prefixed
    BY <1>2 DEF Over
  <2>2. QED
    BY <1>3, <1>6, <2>1
<1> HIDE DEF bound
<1>8. DOMAIN cleared \subseteq Field
  <2>1. DOMAIN cleared = DOMAIN [f \in rule.clear |-> Blank] \cup DOMAIN bound
    BY DEF Over
  <2>2. QED
    BY <1>4, <1>7, <2>1
<1> HIDE DEF cleared
<1>9. /\ DOMAIN patch \subseteq Field \cup {"status"}
      /\ rule.to # Blank => "status" \in DOMAIN patch /\ patch["status"] = rule.to
      /\ rule.to = Blank => "status" \notin DOMAIN patch
  <2>1. CASE rule.to = Blank
    BY <1>3, <1>8, <2>1
  <2>2. CASE rule.to # Blank
    <3>1. DOMAIN patch = {"status"} \cup DOMAIN cleared /\ patch["status"] = rule.to
      BY <2>2 DEF Over, Pay
    <3>2. QED
      BY <1>8, <2>2, <3>1
  <2>3. QED
    BY <2>1, <2>2
<1>10. QED
  BY <1>1, <1>9 DEF rule

\* The fields of a card.
Typed(c) == /\ DOMAIN c = Field \cup {"status"}
            /\ \A f \in DOMAIN c : c[f] \in Values[f] \cup {Blank}

\* The card that validate_rule has accepted is complete for the state it is in.
LEMMA Validated ==
  ASSUME NEW k \in Actions, NEW i \in DOMAIN Rules[k], NEW a, NEW payload, NEW known,
         NEW task, Typed(task), task["status"] # Blank \/ Rules[k][i].to # Blank,
         ValidateRule(a, Rules[k][i], task, payload, known)
  PROVE  LET next == Over(Patch(a, Rules[k][i], payload), task) IN
         /\ Typed(next) /\ next["status"] # Blank
         /\ \A f \in Required[next["status"]] : next[f] # Blank
<1> DEFINE rule == Rules[k][i]
           patch == Patch(a, rule, payload)
           next == Over(patch, task)
<1>1. /\ DOMAIN payload \subseteq rule.writable
      /\ \A f \in DOMAIN patch : patch[f] \in Values[f] \cup {Blank}
      /\ \A f \in RequiredFields(rule, next) : next[f] # Blank
  BY DEF ValidateRule
<1>2. /\ DOMAIN patch \subseteq Field \cup {"status"}
      /\ rule.to # Blank => "status" \in DOMAIN patch /\ patch["status"] = rule.to
      /\ rule.to = Blank => "status" \notin DOMAIN patch
  BY <1>1, PatchFacts
<1> HIDE DEF patch, rule
<1>3. /\ DOMAIN next = DOMAIN patch \cup DOMAIN task
      /\ \A f \in DOMAIN patch : next[f] = patch[f]
      /\ \A f \in DOMAIN task \ DOMAIN patch : next[f] = task[f]
  BY OverFacts
<1> HIDE DEF next
<1>4. Typed(next)
  BY <1>1, <1>2, <1>3 DEF Typed
<1>5. next["status"] = IF rule.to # Blank THEN rule.to ELSE task["status"]
  BY <1>2, <1>3 DEF Typed
<1>6. Required[next["status"]] \subseteq RequiredFields(rule, next)
  BY <1>5 DEF RequiredFields
<1>7. next["status"] # Blank
  BY <1>5 DEF rule
<1>8. QED
  BY <1>1, <1>4, <1>6, <1>7 DEF rule, patch, next

\* prepare_existing_action: what is written is the patch of a rule that starts
\* from the state of the card and that validate_rule accepts.
LEMMA Prepared ==
  ASSUME NEW call, call.action \in Actions, NEW task, NEW known,
         Prepare(call, task, known).ok, ~Prepare(call, task, known).already
  PROVE  \E i \in DOMAIN Rules[call.action] :
           LET rule == Rules[call.action][i] IN
           /\ task.status \in rule.from
           /\ ValidateRule(call.agent, rule, task, call.payload, known)
           /\ Prepare(call, task, known).patch = Patch(call.agent, rule, call.payload)
<1> DEFINE a == call.agent
           all == Rules[call.action]
           rules == [i \in {j \in DOMAIN all : call.variant \in {Blank, all[j].key}} |-> all[i]]
           applied == Applied(a, rules, task, call.payload)
           fitting == Candidates(a, rules, task, call.payload)
           accepted(rule, already) ==
             [ok |-> TRUE, already |-> already, rule |-> rule,
              patch |-> IF already THEN << >> ELSE Patch(a, rule, call.payload)]
           i == First(fitting)
<1>1. Prepare(call, task, known) =
        IF call.action = "cancel" /\ ~call.confirmed THEN Refused
        ELSE IF applied # {} THEN accepted(rules[First(applied)], TRUE)
        ELSE IF fitting = {} THEN Refused
        ELSE IF ~ValidateRule(a, rules[i], task, call.payload, known) THEN Refused
        ELSE accepted(rules[i], FALSE)
  BY DEF Prepare
<1>2. ~Refused.ok
  BY DEF Refused
<1>3. fitting \subseteq DOMAIN rules /\ \A j \in fitting : task.status \in rules[j].from
  BY DEF Candidates
<1>4. DOMAIN rules \subseteq DOMAIN all /\ \A j \in DOMAIN rules : rules[j] = all[j]
  OBVIOUS
<1>5. DOMAIN all \subseteq Nat
  BY DefinitionValid DEF ValidLifecycle
<1> HIDE DEF rules, fitting, applied
<1>6. \A rule : accepted(rule, TRUE).already
  OBVIOUS
<1>7. /\ fitting # {} /\ ValidateRule(a, rules[i], task, call.payload, known)
      /\ Prepare(call, task, known) = accepted(rules[i], FALSE)
  <2> HIDE DEF accepted, i, a
  <2>1. QED
    BY <1>1, <1>2, <1>6
<1>8. i \in fitting
  BY <1>3, <1>4, <1>5, <1>7, FirstIn
<1>9. accepted(rules[i], FALSE).patch = Patch(a, rules[i], call.payload)
  OBVIOUS
<1> HIDE DEF accepted, i, a, all
<1>10. i \in DOMAIN all /\ rules[i] = all[i] /\ task.status \in rules[i].from
  BY <1>3, <1>4, <1>8
<1>11. QED
  BY <1>7, <1>9, <1>10 DEF a, all

-----------------------------------------------------------------------------
(* The steps.                                                               *)

\* What create_task writes is a card that is complete.
LEMMA Created ==
  ASSUME CreateTask
  PROVE  /\ Typed(card') /\ card'["status"] # Blank
         /\ \A f \in Required[card'["status"]] : card'[f] # Blank
<1> DEFINE rule == Rules["create"][1]
<1>1. PICK a, p : PrepareCreate(a, p).ok /\ card' = Over(PrepareCreate(a, p).patch, NoCard)
  BY DEF CreateTask
<1>2. \E full : /\ ValidateRule(a, rule, NoCard, full, {})
                /\ PrepareCreate(a, p).patch = Patch(a, rule, full)
  <2> DEFINE full == IF "role" \notin DOMAIN p /\ "brief" \in DOMAIN p
                     THEN Over(Pay("role", DefaultRole), p) ELSE p
  <2>1. PrepareCreate(a, p) = IF ValidateRule(a, rule, NoCard, full, {})
                              THEN [ok |-> TRUE, patch |-> Patch(a, rule, full)] ELSE Refused
    BY DEF PrepareCreate
  <2>2. ~Refused.ok
    BY DEF Refused
  <2> HIDE DEF full, rule
  <2>3. QED
    BY <1>1, <2>1, <2>2
<1>3. "create" \in Actions /\ 1 \in DOMAIN Rules["create"]
  BY DefinitionValid DEF ValidLifecycle, Actions
<1>4. Typed(NoCard)
  BY DEF Typed, NoCard
<1>5. Rules["create"][1].to # Blank
  BY <1>3, RuleFacts, StatesNamed, DefinitionValid DEF ValidLifecycle
<1>6. QED
  BY <1>1, <1>2, <1>3, <1>4, <1>5, Validated

\* What a tool call writes is a complete card, and only a card in a state that is
\* not terminal is written.
LEMMA Called ==
  ASSUME TypeOK, CallTool
  PROVE  /\ card.status \notin Terminal
         /\ Typed(card') /\ card'["status"] # Blank
         /\ \A f \in Required[card'["status"]] : card'[f] # Blank
<1>1. PICK call \in Calls : /\ Prepare(call, card, facts).ok
                            /\ ~Prepare(call, card, facts).already
                            /\ card' = Over(Prepare(call, card, facts).patch, card)
  BY DEF CallTool
<1>2. call.action \in Actions
  <2> DEFINE confirms(k) == IF k = "cancel" THEN BOOLEAN ELSE {TRUE}
             keys(k) == IF k \in Variants THEN {rule.key : rule \in RulesOf(k)} ELSE {Blank}
  <2>1. PICK k \in Actions : call \in [agent : Agent, action : {k}, payload : Payloads(k),
                                       confirmed : confirms(k), variant : keys(k)]
    BY DEF Calls
  <2> HIDE DEF confirms, keys
  <2>2. QED
    BY <2>1
<1>3. PICK i \in DOMAIN Rules[call.action] :
        LET rule == Rules[call.action][i] IN
        /\ card.status \in rule.from
        /\ ValidateRule(call.agent, rule, card, call.payload, facts)
        /\ Prepare(call, card, facts).patch = Patch(call.agent, rule, call.payload)
  BY <1>1, <1>2, Prepared
<1>4. card.status \notin Terminal
  BY <1>2, <1>3, RuleFacts
<1>5. Typed(card) /\ card["status"] # Blank
  BY DEF TypeOK, Typed, CallTool
<1>6. QED
  BY <1>1, <1>2, <1>3, <1>4, <1>5, Validated

\* TypeOK holds of every step.
LEMMA TypeNext ==
  ASSUME TypeOK, [Next]_vars
  PROVE  TypeOK'
<1>1. \A known, c : /\ Kept(known, c) \subseteq known
                    /\ Kept(known, c) # {} => c.status \in Guarded
  BY DEF Kept
<1>2. ASSUME Typed(card'), card'["status"] # Blank, facts' = Kept(facts, card') \/ facts' = {},
             edits' \in 0..MaxEdits
      PROVE  TypeOK'
  BY <1>1, <1>2 DEF TypeOK, Typed
<1>3. CASE CreateTask
  <2>1. card["status"] = Blank
    BY <1>3 DEF CreateTask, NoCard
  <2>2. facts = {}
    BY <2>1, StatesNamed DEF TypeOK
  <2>3. QED
    BY <1>2, <1>3, <2>2, Created DEF CreateTask, TypeOK
<1>4. CASE CallTool
  BY <1>2, <1>4, Called DEF CallTool, TypeOK
<1>5. CASE StopExecution
  <2>1. "execution_stopped" \in Guards
    BY DEF Guards
  <2>2. QED
    BY <1>1, <1>5, <2>1 DEF StopExecution, TypeOK
<1>6. CASE LoseExecutor \/ Continue
  BY <1>6 DEF LoseExecutor, Continue, TypeOK
<1>7. CASE EditCard
  <2>1. PICK f \in DOMAIN card : \E v \in Values[f] \cup (IF f = "status" THEN {} ELSE {Blank}) :
                                   card' = [card EXCEPT ![f] = v]
    BY <1>7 DEF EditCard
  <2>2. PICK v \in Values[f] \cup (IF f = "status" THEN {} ELSE {Blank}) :
              card' = [card EXCEPT ![f] = v]
    BY <2>1
  <2>3. card["status"] # Blank
    BY <1>7 DEF EditCard, TypeOK
  <2>4. DOMAIN card = Field \cup {"status"} /\ DOMAIN card' = DOMAIN card
        /\ card'[f] = v /\ \A g \in DOMAIN card : g # f => card'[g] = card[g]
    BY <2>2 DEF TypeOK
  <2>5. Typed(card')
    BY <2>2, <2>4 DEF TypeOK, Typed
  <2>6. card'["status"] # Blank
    <3>1. CASE f = "status"
      BY <2>2, <2>4, <3>1, StatesNamed
    <3>2. CASE f # "status"
      BY <2>3, <2>4, <3>2
    <3>3. QED
      BY <3>1, <3>2
  <2>7. edits' \in 0..MaxEdits
    BY <1>7, BoardAssumption DEF EditCard, TypeOK
  <2>8. QED
    BY <1>2, <1>7, <2>5, <2>6, <2>7 DEF EditCard
<1>8. CASE UNCHANGED vars
  BY <1>8 DEF vars, TypeOK
<1>9. QED
  BY <1>3, <1>4, <1>5, <1>6, <1>7, <1>8 DEF Next

\* TypeOK holds of every card of every valid definition.
LEMMA TypeInit == Init => TypeOK
BY BoardAssumption DEF Init, TypeOK, NoCard

\* The rules of a valid definition, whichever are used in whichever order, keep a
\* card within the fields and values of the table, and facts about an execution
\* never outlive the guarded state they were established in.
THEOREM WellTyped == Spec => []TypeOK
<1>1. TypeOK /\ [Next]_vars => TypeOK'
  BY TypeNext
<1>2. QED
  BY <1>1, TypeInit, PTL DEF Spec

\* No tool call, allowed by any rule of any valid definition, writes a card that
\* is in a terminal state.
THEOREM TerminalKept == Spec => TerminalFixed
<1>1. TypeOK /\ [Next]_vars =>
        [card.status \in Terminal /\ edits' = edits => card' = card]_vars
  <2> SUFFICES ASSUME TypeOK, Next, card.status \in Terminal, edits' = edits
               PROVE  card' = card
    OBVIOUS
  <2>1. ~CreateTask
    BY StatesNamed DEF CreateTask, NoCard
  <2>2. ~CallTool
    BY Called
  <2>3. ~EditCard
    BY DEF EditCard, TypeOK
  <2>4. QED
    BY <2>1, <2>2, <2>3 DEF Next, StopExecution, LoseExecutor, Continue
<1>2. QED
  BY <1>1, WellTyped, PTL DEF Spec, TerminalFixed

\* A card that only tools have touched has all fields its state requires, in
\* every valid definition: validate_rule checks the merged card against the state
\* it will be in, for updates in place too.
THEOREM AlwaysComplete == Spec => []StateComplete
<1>1. Init => StateComplete
  BY DEF Init, StateComplete
<1>2. TypeOK /\ StateComplete /\ [Next]_vars => StateComplete'
  <2> SUFFICES ASSUME TypeOK, StateComplete, [Next]_vars PROVE StateComplete'
    OBVIOUS
  <2>1. CASE CreateTask
    BY <2>1, Created DEF StateComplete
  <2>2. CASE CallTool
    BY <2>2, Called DEF StateComplete
  <2>3. CASE EditCard
    BY <2>3 DEF EditCard, TypeOK, StateComplete
  <2>4. CASE UNCHANGED <<card, edits>>
    BY <2>4 DEF StateComplete
  <2>5. QED
    BY <2>1, <2>2, <2>3, <2>4 DEF Next, StopExecution, LoseExecutor, Continue, vars
<1>3. QED
  BY <1>1, <1>2, WellTyped, PTL DEF Spec

-----------------------------------------------------------------------------
(* Offers, repeated calls and stranded cards.  They need more of a definition *)
(* than its validation asks: Determined, Repeatable, Cancelable.            *)

\* The rules a call may use, those it is recognised by, and those that fit.
Chosen(call) == [i \in {j \in DOMAIN Rules[call.action] :
                          call.variant \in {Blank, Rules[call.action][j].key}} |->
                   Rules[call.action][i]]
Recognised(call, task) == Applied(call.agent, Chosen(call), task, call.payload)
Fitting(call, task) == Candidates(call.agent, Chosen(call), task, call.payload)
Confirmed(call) == ~(call.action = "cancel" /\ ~call.confirmed)

\* prepare_existing_action, case by case.
LEMMA PrepareCases ==
  ASSUME NEW call, NEW task, NEW known
  PROVE  LET p == Prepare(call, task, known)
             at == Recognised(call, task)
             fit == Fitting(call, task)
             used == Chosen(call)[First(fit)]
             valid == ValidateRule(call.agent, used, task, call.payload, known)
         IN /\ Confirmed(call) /\ at # {} =>
                 /\ p.ok /\ p.already /\ p.patch = << >>
                 /\ p.rule = Chosen(call)[First(at)]
            /\ Confirmed(call) /\ at = {} /\ fit # {} /\ valid =>
                 p.ok /\ ~p.already /\ p.rule = used
            /\ p.ok => Confirmed(call) /\ (at = {} => fit # {} /\ valid)
            /\ p.ok /\ at = {} => p.patch = Patch(call.agent, used, call.payload)
<1> DEFINE at == Recognised(call, task)
           fit == Fitting(call, task)
           used == Chosen(call)[First(fit)]
           valid == ValidateRule(call.agent, used, task, call.payload, known)
           accepted(rule, already) ==
             [ok |-> TRUE, already |-> already, rule |-> rule,
              patch |-> IF already THEN << >> ELSE Patch(call.agent, rule, call.payload)]
           p == Prepare(call, task, known)
<1>1. p = IF ~Confirmed(call) THEN Refused
          ELSE IF at # {} THEN accepted(Chosen(call)[First(at)], TRUE)
          ELSE IF fit = {} THEN Refused
          ELSE IF ~valid THEN Refused
          ELSE accepted(used, FALSE)
  BY DEF Prepare, Confirmed, Recognised, Fitting, Chosen
<1>2. ~Refused.ok
  BY DEF Refused
<1>3. \A rule : /\ accepted(rule, TRUE).ok /\ accepted(rule, TRUE).already
                /\ accepted(rule, TRUE).patch = << >> /\ accepted(rule, TRUE).rule = rule
                /\ accepted(rule, FALSE).ok /\ ~accepted(rule, FALSE).already
                /\ accepted(rule, FALSE).rule = rule
                /\ accepted(rule, FALSE).patch = Patch(call.agent, rule, call.payload)
  OBVIOUS
<1> HIDE DEF at, fit, used, valid, accepted, p
<1>4. /\ Confirmed(call) /\ at # {} =>
           /\ p.ok /\ p.already /\ p.patch = << >>
           /\ p.rule = Chosen(call)[First(at)]
      /\ Confirmed(call) /\ at = {} /\ fit # {} /\ valid =>
           p.ok /\ ~p.already /\ p.rule = used
      /\ p.ok => Confirmed(call) /\ (at = {} => fit # {} /\ valid)
      /\ p.ok /\ at = {} => p.patch = Patch(call.agent, used, call.payload)
  BY <1>1, <1>2, <1>3
<1>5. QED
  BY <1>4 DEF at, fit, used, valid, p

\* The rules a call may use are rules of its action.
LEMMA ChosenFacts ==
  ASSUME NEW call, call.action \in Actions
  PROVE  /\ DOMAIN Chosen(call) \subseteq DOMAIN Rules[call.action]
         /\ DOMAIN Chosen(call) \subseteq Nat
         /\ \A i \in DOMAIN Chosen(call) : Chosen(call)[i] = Rules[call.action][i]
         /\ \A i \in DOMAIN Rules[call.action] :
              call.variant \in {Blank, Rules[call.action][i].key} => i \in DOMAIN Chosen(call)
         /\ \A i \in DOMAIN Chosen(call) : call.variant \in {Blank, Rules[call.action][i].key}
BY DefinitionValid DEF Chosen, ValidLifecycle

\* Where action_patch has the value v of field f from.
Origin(a, rule, payload, f, v) ==
  \/ f = "status" /\ rule.to # Blank /\ v = rule.to
  \/ f \in rule.clear /\ v = Blank
  \/ f = "agent_id" /\ v = a
  \/ f = "result_evidence" /\ rule.prefix # Blank /\ v = rule.prefix
  \/ f \in DOMAIN rule.fixed /\ v = rule.fixed[f]
  \/ f \in DOMAIN payload /\ v = payload[f]
  \/ f \in DOMAIN rule.defaults /\ v = rule.defaults[f]
\* That it is not the payload's, in a patch that does not clear it.
Replaced(rule, f, v) ==
  \/ f \in DOMAIN rule.fixed /\ v = rule.fixed[f]
  \/ rule.prefix # Blank /\ v = rule.prefix

\* action_patch: where the value of a field comes from, and that a payload which
\* the rule does not touch is written as it is.
LEMMA PatchOrigin ==
  ASSUME NEW k \in Actions, NEW i \in DOMAIN Rules[k], NEW a, NEW payload,
         DOMAIN payload \subseteq Rules[k][i].writable
  PROVE  LET rule == Rules[k][i]
             patch == Patch(a, rule, payload) IN
         /\ \A f \in DOMAIN patch : Origin(a, rule, payload, f, patch[f])
         /\ \A f \in DOMAIN payload :
              /\ f \in DOMAIN patch
              /\ f \notin rule.clear =>
                   patch[f] = payload[f] \/ Replaced(rule, f, patch[f])
<1> DEFINE rule == Rules[k][i]
           given == Over(rule.fixed, Over(payload, rule.defaults))
           prefixed == IF /\ rule.prefix # Blank /\ "result_evidence" \in DOMAIN given
                          /\ given["result_evidence"] # Blank
                       THEN Over(Pay("result_evidence", rule.prefix), given) ELSE given
           bound == IF rule.binds THEN Over(Pay("agent_id", a), prefixed) ELSE prefixed
           cleared == Over([f \in rule.clear |-> Blank], bound)
           patch == IF rule.to = Blank THEN cleared ELSE Over(Pay("status", rule.to), cleared)
<1>1. Patch(a, rule, payload) = patch
  BY DEF Patch
<1>3. \A f \in DOMAIN payload : f # "agent_id" /\ f # "status"
  <2>1. ValidRule(k, rule)
    BY DefinitionValid
  <2>2. rule.writable \subseteq Writable
    BY <2>1 DEF ValidRule
  <2>3. QED
    BY <2>2 DEF Writable, Field
<1> HIDE DEF rule
<1>4. /\ \A f \in DOMAIN given : \/ f \in DOMAIN rule.fixed /\ given[f] = rule.fixed[f]
                                 \/ f \in DOMAIN payload /\ given[f] = payload[f]
                                 \/ f \in DOMAIN rule.defaults /\ given[f] = rule.defaults[f]
      /\ \A f \in DOMAIN payload : /\ f \in DOMAIN given
                                   /\ \/ given[f] = payload[f]
                                      \/ f \in DOMAIN rule.fixed /\ given[f] = rule.fixed[f]
  BY DEF Over
<1> HIDE DEF given
<1>5. /\ \A f \in DOMAIN prefixed :
           \/ f \in DOMAIN given /\ prefixed[f] = given[f]
           \/ f = "result_evidence" /\ rule.prefix # Blank /\ prefixed[f] = rule.prefix
      /\ DOMAIN given \subseteq DOMAIN prefixed
  <2>1. CASE prefixed = given
    BY <2>1
  <2>2. CASE prefixed = Over(Pay("result_evidence", rule.prefix), given) /\ rule.prefix # Blank
    <3> HIDE DEF prefixed
    <3>1. /\ DOMAIN prefixed = {"result_evidence"} \cup DOMAIN given /\ prefixed["result_evidence"] = rule.prefix
          /\ \A f \in DOMAIN given : f # "result_evidence" => prefixed[f] = given[f]
      BY <2>2 DEF Over, Pay
    <3>2. QED
      BY <2>2, <3>1
  <2>3. QED
    BY <2>1, <2>2
<1> HIDE DEF prefixed
<1>6. /\ \A f \in DOMAIN bound : \/ f \in DOMAIN prefixed /\ bound[f] = prefixed[f]
                                 \/ f = "agent_id" /\ bound[f] = a
      /\ \A f \in DOMAIN prefixed : f \in DOMAIN bound /\ (f # "agent_id" => bound[f] = prefixed[f])
  <2>1. CASE bound = prefixed
    BY <2>1
  <2>2. CASE bound = Over(Pay("agent_id", a), prefixed)
    <3> HIDE DEF bound
    <3>1. /\ DOMAIN bound = {"agent_id"} \cup DOMAIN prefixed /\ bound["agent_id"] = a
          /\ \A f \in DOMAIN prefixed : f # "agent_id" => bound[f] = prefixed[f]
      BY <2>2 DEF Over, Pay
    <3>2. QED
      BY <2>2, <3>1
  <2>3. QED
    BY <2>1, <2>2
<1> HIDE DEF bound
<1>7. /\ \A f \in DOMAIN cleared : \/ f \in rule.clear /\ cleared[f] = Blank
                                   \/ f \in DOMAIN bound /\ cleared[f] = bound[f]
      /\ \A f \in DOMAIN bound : f \in DOMAIN cleared /\ (f \notin rule.clear => cleared[f] = bound[f])
  BY DEF Over
<1> HIDE DEF cleared
<1>8. /\ \A f \in DOMAIN patch : \/ f = "status" /\ rule.to # Blank /\ patch[f] = rule.to
                                 \/ f \in DOMAIN cleared /\ patch[f] = cleared[f]
      /\ \A f \in DOMAIN cleared : f \in DOMAIN patch /\ (f # "status" => patch[f] = cleared[f])
  <2>1. CASE patch = cleared
    BY <2>1
  <2>2. CASE patch = Over(Pay("status", rule.to), cleared) /\ rule.to # Blank
    <3> HIDE DEF patch
    <3>1. /\ DOMAIN patch = {"status"} \cup DOMAIN cleared /\ patch["status"] = rule.to
          /\ \A f \in DOMAIN cleared : f # "status" => patch[f] = cleared[f]
      BY <2>2 DEF Over, Pay
    <3>2. QED
      BY <2>2, <3>1
  <2>3. QED
    BY <2>1, <2>2
<1> HIDE DEF patch
<1>9. \A f \in DOMAIN patch : Origin(a, rule, payload, f, patch[f])
  BY <1>4, <1>5, <1>6, <1>7, <1>8 DEF Origin
<1>10. ASSUME NEW f \in DOMAIN payload
       PROVE  /\ f \in DOMAIN patch
              /\ f \notin rule.clear =>
                   patch[f] = payload[f] \/ Replaced(rule, f, patch[f])
  <2>1. /\ f \in DOMAIN given /\ f \in DOMAIN prefixed /\ f \in DOMAIN bound
        /\ f \in DOMAIN cleared /\ f \in DOMAIN patch
    BY <1>4, <1>5, <1>6, <1>7, <1>8
  <2>2. f \notin rule.clear => patch[f] = prefixed[f]
    BY <1>3, <1>6, <1>7, <1>8, <2>1
  <2>3. QED
    BY <1>4, <1>5, <2>1, <2>2 DEF Replaced
<1>11. QED
  BY <1>1, <1>9, <1>10 DEF rule

\* What a valid rule writes are values of the fields, if the payload's are.
LEMMA PatchValues ==
  ASSUME NEW k \in Actions, NEW i \in DOMAIN Rules[k], NEW a \in Agent, NEW payload,
         DOMAIN payload \subseteq Rules[k][i].writable,
         \A f \in DOMAIN payload : payload[f] \in Values[f] \cup {Blank}
  PROVE  \A f \in DOMAIN Patch(a, Rules[k][i], payload) :
           Patch(a, Rules[k][i], payload)[f] \in Values[f] \cup {Blank}
<1> DEFINE rule == Rules[k][i]
           patch == Patch(a, rule, payload)
<1>1. ValidRule(k, rule)
  BY DefinitionValid
<1>2. /\ \A f \in DOMAIN rule.defaults : rule.defaults[f] \in Values[f]
      /\ \A f \in DOMAIN rule.fixed : rule.fixed[f] \in Values[f]
  BY <1>1 DEF ValidRule
<1>3. rule.to \in Values["status"] \cup {Blank} /\ a \in Values["agent_id"]
  BY RuleFacts, BoardAssumption
<1>4. rule.prefix \in Values["result_evidence"] \cup {Blank}
  BY BoardAssumption DEF RulesOf
<1>5. \A f \in DOMAIN patch : Origin(a, rule, payload, f, patch[f])
  BY PatchOrigin
<1> HIDE DEF patch, rule
<1>6. \A f \in DOMAIN patch : patch[f] \in Values[f] \cup {Blank}
  BY <1>2, <1>3, <1>4, <1>5 DEF Origin
<1>7. QED
  BY <1>6 DEF patch, rule

\* An agent that may use a rule has one of its roles.
LEMMA ActorRole ==
  ASSUME NEW k \in Actions, NEW i \in DOMAIN Rules[k], NEW a \in Agent, NEW task,
         ActorAllowed(a, Rules[k][i], task)
  PROVE  RoleOf[a] \in RolesOf(Rules[k][i])
<1>1. RoleOf[a] \in Role
  BY BoardAssumption
<1>2. Rules[k][i].actors = {"coordinator"} => RoleOf[a] = Coordinator
  BY DEF ActorAllowed
<1>3. Rules[k][i].roles = {} \/ RoleOf[a] \in Rules[k][i].roles
  BY DEF ActorAllowed
<1>4. QED
  BY <1>1, <1>2, <1>3 DEF RolesOf

-----------------------------------------------------------------------------
(* Stranded cards.                                                          *)

\* The call with which the coordinator cancels a card.
Cancelling(a) == [agent |-> a, action |-> "cancel", payload |-> Pay("result_evidence", "work"),
                  confirmed |-> TRUE, variant |-> Blank]

\* cancel_task takes it.
LEMMA CancelCall ==
  ASSUME NEW a \in Agent
  PROVE  /\ Cancelling(a) \in Calls /\ Confirmed(Cancelling(a))
         /\ Chosen(Cancelling(a)) = [i \in DOMAIN Rules["cancel"] |-> Rules["cancel"][i]]
<1>1. Pay("result_evidence", "work") \in Payloads("cancel")
  BY DEF Payloads
<1>2. "cancel" \in Actions \ {"create"} /\ "cancel" \notin Variants
  BY DEF Actions, Variants
<1> DEFINE payload == Pay("result_evidence", "work")
           set(k) == [agent : Agent, action : {k}, payload : Payloads(k),
                      confirmed : IF k = "cancel" THEN BOOLEAN ELSE {TRUE},
                      variant : IF k \in Variants THEN {rule.key : rule \in RulesOf(k)} ELSE {Blank}]
<1>3. Cancelling(a) \in set("cancel")
  <2> HIDE DEF payload
  <2>1. payload \in Payloads("cancel")
    BY <1>1 DEF payload
  <2>2. Cancelling(a) = [agent |-> a, action |-> "cancel", payload |-> payload,
                         confirmed |-> TRUE, variant |-> Blank]
    BY DEF Cancelling, payload
  <2>3. QED
    BY <1>2, <2>1, <2>2
<1>4. Cancelling(a) \in Calls
  <2>1. Calls = UNION {set(k) : k \in Actions \ {"create"}}
    BY DEF Calls
  <2> HIDE DEF set
  <2>2. QED
    BY <1>2, <1>3, <2>1
<1>5. Cancelling(a).action = "cancel" /\ Cancelling(a).confirmed /\ Cancelling(a).variant = Blank
  BY DEF Cancelling
<1>6. QED
  BY <1>4, <1>5 DEF Confirmed, Chosen

\* A rule for cancelling accepts it from any card that is in one of its states.
LEMMA CancelAccepted ==
  ASSUME Cancelable, NEW a \in Agent, RoleOf[a] = Coordinator, NEW i \in DOMAIN Rules["cancel"],
         NEW task, Typed(task)
  PROVE  LET rule == Rules["cancel"][i]
             payload == Pay("result_evidence", "work") IN
         /\ ActorAllowed(a, rule, task)
         /\ DOMAIN payload \subseteq rule.writable /\ ValuesAllowed(rule, payload)
         /\ ValidateRule(a, rule, task, payload, Guards)
         /\ rule.to \in Terminal
<1> DEFINE rule == Rules["cancel"][i]
           payload == Pay("result_evidence", "work")
           patch == Patch(a, rule, payload)
           merged == Over(patch, task)
<1>1. /\ "coordinator" \in rule.actors /\ Coordinator \in RolesOf(rule)
      /\ rule.to \in Terminal /\ "result_evidence" \in rule.writable \ rule.clear
      /\ rule.inputs \cup rule.fields \cup Required[rule.to] \subseteq {"result_evidence"}
      /\ "result_evidence" \notin DOMAIN rule.values
  BY DEF Cancelable, RulesOf
<1>2. DOMAIN payload = {"result_evidence"} /\ payload["result_evidence"] = "work"
  BY DEF Pay
<1>3. "cancel" \in Actions
  BY DEF Actions
<1>4. ValidRule("cancel", rule)
  BY <1>3, DefinitionValid
<1>5. rule.guards \subseteq Guards
  BY <1>4 DEF ValidRule, Guards
<1>6. ActorAllowed(a, rule, task)
  BY <1>1 DEF ActorAllowed, RolesOf
<1>7. "work" \in Values["result_evidence"] /\ Blank \notin Values["result_evidence"]
  <2>1. "result_evidence" \in DOMAIN Values
    BY BoardAssumption DEF Field
  <2>2. QED
    BY <2>1, BoardAssumption
<1>8. DOMAIN payload \subseteq rule.writable /\ ValuesAllowed(rule, payload)
  <2> HIDE DEF payload
  <2>1. QED
    BY <1>1, <1>2 DEF ValuesAllowed
<1>9. \A f \in DOMAIN payload : payload[f] \in Values[f] \cup {Blank}
  BY <1>2, <1>7
<1> HIDE DEF payload
<1>10. \A f \in DOMAIN patch : patch[f] \in Values[f] \cup {Blank}
  BY <1>3, <1>8, <1>9, PatchValues
<1>11. /\ "result_evidence" \in DOMAIN patch
       /\ \/ patch["result_evidence"] = "work"
          \/ Replaced(rule, "result_evidence", patch["result_evidence"])
  BY <1>1, <1>2, <1>3, <1>8, PatchOrigin
<1>12. \A f \in DOMAIN rule.fixed : rule.fixed[f] \in Values[f]
  BY <1>4 DEF ValidRule
<1> HIDE DEF patch, rule
<1>13. patch["result_evidence"] # Blank
  BY <1>7, <1>11, <1>12 DEF Replaced
<1>14. merged["result_evidence"] # Blank
  BY <1>11, <1>13, OverFacts
<1> HIDE DEF merged
<1>15. rule.to # Blank
  BY <1>1, StatesNamed
<1>16. \A f \in RequiredFields(rule, merged) : merged[f] # Blank
  BY <1>1, <1>14, <1>15 DEF RequiredFields
<1>17. \A f \in rule.inputs : f \in DOMAIN payload /\ payload[f] # Blank
  BY <1>1, <1>2, <1>7
<1>18. ValidateRule(a, rule, task, payload, Guards)
  BY <1>5, <1>6, <1>8, <1>10, <1>16, <1>17 DEF ValidateRule, patch, merged
<1>19. QED
  BY <1>1, <1>6, <1>8, <1>18 DEF rule, payload

\* A card in a state that is not terminal is no card that cancelling is already
\* applied to, and some rule fits it.
LEMMA CancelFits ==
  ASSUME Cancelable, NEW a \in Agent, RoleOf[a] = Coordinator,
         NEW task, Typed(task), task["status"] \in State \ Terminal
  PROVE  Recognised(Cancelling(a), task) = {} /\ Fitting(Cancelling(a), task) # {}
<1> DEFINE payload == Pay("result_evidence", "work")
           rules == Rules["cancel"]
           chosen == Chosen(Cancelling(a))
<1>1. Cancelling(a).agent = a /\ Cancelling(a).payload = payload
  BY DEF Cancelling
<1>2. DOMAIN chosen = DOMAIN rules /\ \A i \in DOMAIN rules : chosen[i] = rules[i]
  BY CancelCall
<1>3. \A i \in DOMAIN rules :
        /\ ActorAllowed(a, rules[i], task)
        /\ DOMAIN payload \subseteq rules[i].writable /\ ValuesAllowed(rules[i], payload)
        /\ rules[i].to \in Terminal
  BY CancelAccepted
<1> HIDE DEF payload, chosen, rules
<1>4. \A i \in DOMAIN chosen : chosen[i].to # Blank /\ task["status"] # chosen[i].to
  BY <1>2, <1>3, StatesNamed
<1>5. Applied(a, chosen, task, payload) = {}
  BY <1>4 DEF Applied
<1>6. PICK i \in DOMAIN rules : task["status"] \in rules[i].from
  BY DEF Cancelable, RulesOf, rules
<1>7. i \in Candidates(a, chosen, task, payload)
  BY <1>2, <1>3, <1>6 DEF Candidates
<1>8. QED
  BY <1>1, <1>5, <1>7 DEF Recognised, Fitting, chosen

\* In every definition whose coordinator may cancel from every open state, no
\* card is ever stranded: whatever tools and people did to it, and whatever
\* fields it has lost, the coordinator can cancel it once its execution stopped.
THEOREM NoneStranded ==
  ASSUME Cancelable
  PROVE  Spec => []NeverStuck
<1>1. TypeOK => NeverStuck
  <2> SUFFICES ASSUME TypeOK, card # NoCard, card["status"] \notin Terminal
               PROVE  \E call \in Calls :
                        /\ RoleOf[call.agent] = Coordinator
                        /\ Prepare(call, card, Guards).ok /\ ~Prepare(call, card, Guards).already
                        /\ Prepare(call, card, Guards).rule.to \notin {Blank, card["status"]}
    BY DEF NeverStuck
  <2>1. Typed(card) /\ card["status"] \in State \ Terminal
    BY StatesNamed DEF TypeOK, Typed
  <2>2. PICK a \in Agent : RoleOf[a] = Coordinator
    BY DEF Cancelable
  <2> DEFINE call == Cancelling(a)
             fit == Fitting(call, card)
             payload == Pay("result_evidence", "work")
             used == Chosen(call)[First(fit)]
             prepared == Prepare(call, card, Guards)
  <2>3. call \in Calls /\ Confirmed(call) /\ Recognised(call, card) = {} /\ fit # {}
    BY <2>1, <2>2, CancelCall, CancelFits
  <2>4. call.agent = a /\ call.payload = payload
    BY DEF Cancelling
  <2>5. First(fit) \in DOMAIN Rules["cancel"] /\ used = Rules["cancel"][First(fit)]
    <3>1. fit \subseteq DOMAIN Chosen(call)
      BY DEF Fitting, Candidates
    <3>2. DOMAIN Chosen(call) = DOMAIN Rules["cancel"]
          /\ \A i \in DOMAIN Rules["cancel"] : Chosen(call)[i] = Rules["cancel"][i]
      BY CancelCall
    <3>3. DOMAIN Rules["cancel"] \subseteq Nat
      BY DefinitionValid DEF ValidLifecycle, Actions
    <3> HIDE DEF fit, call
    <3>4. First(fit) \in fit
      BY <2>3, <3>1, <3>2, <3>3, FirstIn
    <3>5. QED
      BY <3>1, <3>2, <3>4
  <2>6. ValidateRule(a, used, card, payload, Guards) /\ used.to \in Terminal
    BY <2>1, <2>2, <2>5, CancelAccepted
  <2>7. prepared.ok /\ ~prepared.already /\ prepared.rule = used
    <3> HIDE DEF call
    <3>1. QED
      BY <2>3, <2>4, <2>6, PrepareCases
  <2>8. used.to \notin {Blank, card["status"]}
    BY <2>1, <2>6, StatesNamed
  <2>9. QED
    BY <2>2, <2>3, <2>4, <2>7, <2>8
<1>2. QED
  BY <1>1, WellTyped, PTL

-----------------------------------------------------------------------------
(* Repeated calls.                                                          *)

\* The calls of the tools.
LEMMA CallFacts ==
  ASSUME NEW call \in Calls
  PROVE  call.action \in Actions \ {"create"} /\ call.agent \in Agent
<1> DEFINE confirms(k) == IF k = "cancel" THEN BOOLEAN ELSE {TRUE}
           keys(k) == IF k \in Variants THEN {rule.key : rule \in RulesOf(k)} ELSE {Blank}
<1>1. PICK k \in Actions \ {"create"} :
             call \in [agent : Agent, action : {k}, payload : Payloads(k),
                       confirmed : confirms(k), variant : keys(k)]
  BY DEF Calls
<1> HIDE DEF confirms, keys
<1>2. QED
  BY <1>1

\* The rule a call is accepted by: one that may be used, starts from the card's
\* state and is valid.
LEMMA AcceptedBy ==
  ASSUME NEW call, call.action \in Actions, NEW task, NEW known,
         Prepare(call, task, known).ok, Recognised(call, task) = {}
  PROVE  \E i \in DOMAIN Chosen(call) :
           /\ i \in DOMAIN Rules[call.action] /\ Chosen(call)[i] = Rules[call.action][i]
           /\ ValidateRule(call.agent, Rules[call.action][i], task, call.payload, known)
           /\ Prepare(call, task, known).patch
                = Patch(call.agent, Rules[call.action][i], call.payload)
<1> DEFINE fit == Fitting(call, task)
           i == First(fit)
<1>1. fit # {} /\ ValidateRule(call.agent, Chosen(call)[i], task, call.payload, known)
      /\ Prepare(call, task, known).patch = Patch(call.agent, Chosen(call)[i], call.payload)
  BY PrepareCases
<1>2. fit \subseteq DOMAIN Chosen(call)
  BY DEF Fitting, Candidates
<1> HIDE DEF fit
<1>3. i \in DOMAIN Chosen(call)
  BY <1>1, <1>2, ChosenFacts, FirstIn
<1> HIDE DEF i
<1>4. i \in DOMAIN Rules[call.action] /\ Chosen(call)[i] = Rules[call.action][i]
  BY <1>3, ChosenFacts
<1>5. QED
  BY <1>1, <1>3, <1>4

\* matching_applied_rule looks only at the fields of the card.
LEMMA SameRecognised ==
  ASSUME NEW call, call.action \in Actions, NEW t1, NEW t2,
         \A f \in Field \cup {"status"} : t1[f] = t2[f],
         NEW i \in Recognised(call, t1)
  PROVE  i \in Recognised(call, t2)
<1> DEFINE rules == Chosen(call)
           a == call.agent
           payload == call.payload
           patch == Patch(a, rules[i], payload)
           shows(t, expected) == \A f \in DOMAIN expected : t[f] = expected[f]
           neutral == \A j \in DOMAIN rules : rules[j].to = Blank
           applied(t) == /\ ActorAllowed(a, rules[i], t) /\ DOMAIN payload \subseteq rules[i].writable
                         /\ \/ /\ rules[i].to # Blank /\ t["status"] = rules[i].to
                               /\ ValuesAllowed(rules[i], payload) /\ shows(t, patch)
                            \/ neutral /\ shows(t, payload)
<1>1. i \in DOMAIN rules /\ applied(t1)
  BY DEF Recognised, Applied
<1>2. i \in DOMAIN Rules[call.action] /\ rules[i] = Rules[call.action][i]
  BY <1>1, ChosenFacts
<1>3. DOMAIN payload \subseteq rules[i].writable
  BY <1>1
<1>4. DOMAIN payload \subseteq Field
  BY <1>2, <1>3, RuleFacts
<1>5. DOMAIN patch \subseteq Field \cup {"status"}
  BY <1>2, <1>3, PatchFacts
<1>6. t1["role"] = t2["role"] /\ t1["agent_id"] = t2["agent_id"] /\ t1["status"] = t2["status"]
  BY DEF Field
<1>7. ActorAllowed(a, rules[i], t1) => ActorAllowed(a, rules[i], t2)
  BY <1>6 DEF ActorAllowed
<1> HIDE DEF patch, payload, a, rules
<1>8. (shows(t1, patch) => shows(t2, patch)) /\ (shows(t1, payload) => shows(t2, payload))
  BY <1>4, <1>5
<1> HIDE DEF shows, neutral
<1>9. applied(t2)
  BY <1>1, <1>6, <1>7, <1>8
<1>10. QED
  BY <1>1, <1>9 DEF Recognised, Applied, rules, a, payload, patch, shows, neutral

\* Who may use a rule may use it still once it was applied.
LEMMA StillAllowed ==
  ASSUME Repeatable, NEW k \in Actions \ {"create"}, NEW i \in DOMAIN Rules[k], NEW a, NEW payload,
         NEW task, Typed(task), DOMAIN payload \subseteq Rules[k][i].writable,
         ActorAllowed(a, Rules[k][i], task)
  PROVE  ActorAllowed(a, Rules[k][i], Over(Patch(a, Rules[k][i], payload), task))
<1> DEFINE rule == Rules[k][i]
           patch == Patch(a, rule, payload)
           next == Over(patch, task)
<1>1. /\ "task_role" \in rule.actors =>
           "role" \notin rule.writable \cup DOMAIN rule.fixed \cup DOMAIN rule.defaults \cup rule.clear
      /\ "assigned_agent" \in rule.actors => "agent_id" \notin rule.clear
  BY DEF Repeatable, RulesOf
<1>2. /\ "agent_id" \notin rule.writable /\ "agent_id" \notin DOMAIN rule.fixed
      /\ "agent_id" \notin DOMAIN rule.defaults
  <2>1. ValidRule(k, rule)
    BY DefinitionValid
  <2>2. /\ rule.writable \subseteq Writable /\ DOMAIN rule.fixed \subseteq Writable
        /\ DOMAIN rule.defaults \subseteq Writable
    BY <2>1 DEF ValidRule
  <2>3. "agent_id" \notin Writable
    BY DEF Writable
  <2> HIDE DEF rule
  <2>4. QED
    BY <2>2, <2>3
<1>3. \A f \in DOMAIN patch : Origin(a, rule, payload, f, patch[f])
  BY PatchOrigin
<1>4. /\ DOMAIN next = DOMAIN patch \cup DOMAIN task
      /\ \A f \in DOMAIN patch : next[f] = patch[f]
      /\ \A f \in DOMAIN task \ DOMAIN patch : next[f] = task[f]
  <2> HIDE DEF patch
  <2>1. QED
    BY OverFacts
<1>5. "role" \in DOMAIN task /\ "agent_id" \in DOMAIN task
  BY DEF Typed, Field
<1> HIDE DEF next, patch, rule
<1>6. "task_role" \in rule.actors => next["role"] = task["role"]
  <2>1. ASSUME "task_role" \in rule.actors, "role" \in DOMAIN patch PROVE FALSE
    <3>1. Origin(a, rule, payload, "role", patch["role"])
      BY <1>3, <2>1
    <3>2. DOMAIN payload \subseteq rule.writable
      BY DEF rule
    <3>3. QED
      BY <1>1, <2>1, <3>1, <3>2 DEF Origin
  <2>2. QED
    BY <1>4, <1>5, <2>1
<1>7. "assigned_agent" \in rule.actors /\ a = task["agent_id"] => a = next["agent_id"]
  <2>1. ASSUME "assigned_agent" \in rule.actors, "agent_id" \in DOMAIN patch
        PROVE  patch["agent_id"] = a
    <3>1. Origin(a, rule, payload, "agent_id", patch["agent_id"])
      BY <1>3, <2>1
    <3>2. DOMAIN payload \subseteq rule.writable
      BY DEF rule
    <3>3. QED
      BY <1>1, <1>2, <2>1, <3>1, <3>2 DEF Origin
  <2>2. QED
    BY <1>4, <1>5, <2>1
<1>8. ActorAllowed(a, rule, task)
  BY DEF rule
<1>9. ActorAllowed(a, rule, next)
  BY <1>6, <1>7, <1>8 DEF ActorAllowed
<1>10. QED
  BY <1>9 DEF next, patch, rule

\* The card that an accepted call leaves is one on which the rule is recognised.
LEMMA RecognisedAfter ==
  ASSUME Repeatable, NEW call, call.action \in Actions \ {"create"},
         NEW i \in DOMAIN Chosen(call), NEW task, Typed(task), NEW known,
         ValidateRule(call.agent, Rules[call.action][i], task, call.payload, known)
  PROVE  i \in Recognised(call, Over(Patch(call.agent, Rules[call.action][i], call.payload), task))
<1> DEFINE a == call.agent
           k == call.action
           payload == call.payload
           rules == Chosen(call)
           rule == Rules[k][i]
           patch == Patch(a, rule, payload)
           next == Over(patch, task)
<1>1. i \in DOMAIN Rules[k] /\ rules[i] = rule
  BY ChosenFacts
<1>2. /\ ActorAllowed(a, rule, task) /\ DOMAIN payload \subseteq rule.writable
      /\ ValuesAllowed(rule, payload)
  BY DEF ValidateRule
<1>3. ActorAllowed(a, rule, next)
  BY <1>1, <1>2, StillAllowed
<1>4. /\ rule.to # Blank => "status" \in DOMAIN patch /\ patch["status"] = rule.to
      /\ \A f \in DOMAIN payload :
           /\ f \in DOMAIN patch
           /\ f \notin rule.clear => patch[f] = payload[f] \/ Replaced(rule, f, patch[f])
  <2>1. k \in Actions /\ i \in DOMAIN Rules[k] /\ DOMAIN payload \subseteq Rules[k][i].writable
    BY <1>1, <1>2
  <2> HIDE DEF k, a, payload
  <2>2. /\ DOMAIN patch \subseteq Field \cup {"status"}
        /\ rule.to # Blank => "status" \in DOMAIN patch /\ patch["status"] = rule.to
        /\ rule.to = Blank => "status" \notin DOMAIN patch
    BY <2>1, PatchFacts
  <2>3. \A f \in DOMAIN payload :
          /\ f \in DOMAIN patch
          /\ f \notin rule.clear => patch[f] = payload[f] \/ Replaced(rule, f, patch[f])
    BY <2>1, PatchOrigin
  <2>4. QED
    BY <2>2, <2>3
<1>5. \A f \in DOMAIN patch : next[f] = patch[f]
  <2> HIDE DEF patch
  <2>1. QED
    BY OverFacts
<1>6. rule.to = Blank => /\ rule.writable \cap (DOMAIN rule.fixed \cup rule.clear) = {}
                         /\ rule.prefix = Blank
  BY <1>1 DEF Repeatable, RulesOf
<1>7. rule.to = Blank => k = "update"
  <2>1. ValidRule(k, rule)
    BY <1>1, DefinitionValid
  <2>2. QED
    BY <2>1, StatesNamed DEF ValidRule
<1>8. k = "update" => \A j \in DOMAIN rules : rules[j].to = Blank
  <2> SUFFICES ASSUME k = "update", NEW j \in DOMAIN rules PROVE rules[j].to = Blank
    OBVIOUS
  <2>1. j \in DOMAIN Rules[k] /\ rules[j] = Rules[k][j]
    BY ChosenFacts
  <2>2. ValidRule("update", Rules[k][j])
    BY <2>1, DefinitionValid
  <2>3. QED
    BY <2>1, <2>2 DEF ValidRule
<1> HIDE DEF patch, next, rule, rules, a, payload, k
<1>9. rule.to = Blank => \A f \in DOMAIN payload : next[f] = payload[f]
  BY <1>2, <1>4, <1>5, <1>6 DEF Replaced
<1>10. rule.to # Blank => next["status"] = rule.to
  BY <1>4, <1>5
<1>11. i \in Applied(a, rules, next, payload)
  <2>1. i \in DOMAIN rules
    BY DEF rules
  <2>2. CASE rule.to = Blank
    BY <1>1, <1>2, <1>3, <1>7, <1>8, <1>9, <2>1, <2>2 DEF Applied
  <2>3. CASE rule.to # Blank
    BY <1>1, <1>2, <1>3, <1>5, <1>10, <2>1, <2>3 DEF Applied, patch
  <2>4. QED
    BY <2>2, <2>3
<1>12. QED
  BY <1>11 DEF Recognised, a, k, payload, rules, rule, patch, next

\* In every definition whose rules leave a card to those who may use them, and
\* whose update_task writes what it is given, a call that was accepted, made
\* once more on the card as it left it, is recognised as applied, and writes
\* nothing: the answer to the first may be lost.
THEOREM RetriesRecognised ==
  ASSUME Repeatable
  PROVE  Spec => []RetryRecognised
<1>1. TypeOK => RetryRecognised
  <2> SUFFICES ASSUME TypeOK, NEW call \in Calls, Prepare(call, card, facts).ok
               PROVE  LET again == Prepare(call, Over(Prepare(call, card, facts).patch, card), {})
                      IN again.ok /\ again.already
    BY DEF RetryRecognised
  <2> DEFINE first == Prepare(call, card, facts)
             next == Over(first.patch, card)
  <2>1. call.action \in Actions \ {"create"} /\ call.action \in Actions
    BY CallFacts
  <2>2. Confirmed(call)
    BY PrepareCases
  <2>3. Typed(card)
    BY DEF TypeOK, Typed
  <2>4. Recognised(call, next) # {}
    <3>1. CASE Recognised(call, card) # {}
      <4>1. first.patch = << >>
        BY <2>2, <3>1, PrepareCases
      <4>2. DOMAIN << >> = {}
        OBVIOUS
      <4>3. \A f \in Field \cup {"status"} : card[f] = next[f]
        <5> DEFINE patch == first.patch
        <5>1. \A f \in DOMAIN card \ DOMAIN patch : Over(patch, card)[f] = card[f]
          <6> HIDE DEF patch
          <6>1. QED
            BY OverFacts
        <5>2. DOMAIN patch = {}
          BY <4>1, <4>2
        <5> HIDE DEF patch, first
        <5>3. QED
          BY <2>3, <5>1, <5>2 DEF Typed, patch
      <4> HIDE DEF next
      <4>4. QED
        BY <2>1, <3>1, <4>3, SameRecognised
    <3>2. CASE Recognised(call, card) = {}
      <4>1. PICK i \in DOMAIN Chosen(call) :
              /\ ValidateRule(call.agent, Rules[call.action][i], card, call.payload, facts)
              /\ first.patch = Patch(call.agent, Rules[call.action][i], call.payload)
        BY <2>1, <3>2, AcceptedBy
      <4>2. i \in Recognised(call, Over(Patch(call.agent, Rules[call.action][i], call.payload), card))
        BY <2>1, <2>3, <4>1, RecognisedAfter
      <4>3. QED
        BY <4>1, <4>2
    <3>3. QED
      BY <3>1, <3>2
  <2> HIDE DEF next
  <2>5. Prepare(call, next, {}).ok /\ Prepare(call, next, {}).already
    BY <2>2, <2>4, PrepareCases
  <2>6. QED
    BY <2>5 DEF next
<1>2. QED
  BY <1>1, WellTyped, PTL

-----------------------------------------------------------------------------
(* Offers.                                                                  *)

\* The inputs an agent gives for an action it is offered, and its call.
Inputs(rule) == [f \in rule.inputs |->
                   CHOOSE v \in IF f \in DOMAIN rule.values THEN rule.values[f]
                                ELSE Values[f] : TRUE]
Offered(a, k, rule) == [agent |-> a, action |-> k, payload |-> Inputs(rule), confirmed |-> TRUE,
                        variant |-> IF k \in Variants THEN rule.key ELSE Blank]

\* A valid rule has values for the inputs it asks for.
LEMMA InputFacts ==
  ASSUME NEW k \in Actions, NEW i \in DOMAIN Rules[k]
  PROVE  LET rule == Rules[k][i] IN
         /\ DOMAIN Inputs(rule) = rule.inputs /\ rule.inputs \subseteq rule.writable
         /\ \A f \in rule.inputs : Inputs(rule)[f] \in Values[f] /\ Inputs(rule)[f] # Blank
         /\ ValuesAllowed(rule, Inputs(rule))
<1> DEFINE rule == Rules[k][i]
           offers(f) == IF f \in DOMAIN rule.values THEN rule.values[f] ELSE Values[f]
<1>1. ValidRule(k, rule)
  BY DefinitionValid
<1>2. /\ rule.inputs \subseteq rule.writable /\ rule.writable \subseteq Writable
      /\ \A f \in DOMAIN rule.values : rule.values[f] # {} /\ rule.values[f] \subseteq Values[f]
  BY <1>1 DEF ValidRule
<1>3. \A f \in Writable : Values[f] # {} /\ Blank \notin Values[f]
  BY BoardAssumption DEF Writable
<1> HIDE DEF rule
<1>4. /\ DOMAIN Inputs(rule) = rule.inputs
      /\ \A f \in rule.inputs : Inputs(rule)[f] = CHOOSE v \in offers(f) : TRUE
  BY DEF Inputs
<1>5. \A f \in rule.inputs : offers(f) # {} /\ offers(f) \subseteq Values[f]
  BY <1>2, <1>3
<1>6. \A f \in DOMAIN rule.values : offers(f) = rule.values[f]
  OBVIOUS
<1> HIDE DEF offers
<1>7. \A f \in rule.inputs : Inputs(rule)[f] \in offers(f)
  BY <1>4, <1>5
<1>8. \A f \in rule.inputs : Inputs(rule)[f] \in Values[f] /\ Inputs(rule)[f] # Blank
  BY <1>2, <1>3, <1>5, <1>7
<1>9. ValuesAllowed(rule, Inputs(rule))
  BY <1>4, <1>6, <1>7 DEF ValuesAllowed
<1>10. QED
  BY <1>2, <1>4, <1>8, <1>9 DEF rule

\* The call that takes an offer up may use its rule, which fits; a tool with
\* options uses no other.
LEMMA OfferedFits ==
  ASSUME NEW k \in Actions \ {"create"}, NEW i \in DOMAIN Rules[k], NEW a \in Agent, NEW task,
         task["status"] \in Rules[k][i].from, ActorAllowed(a, Rules[k][i], task)
  PROVE  LET call == Offered(a, k, Rules[k][i]) IN
         /\ Confirmed(call)
         /\ DOMAIN Chosen(call) \subseteq DOMAIN Rules[k] /\ DOMAIN Chosen(call) \subseteq Nat
         /\ \A j \in DOMAIN Chosen(call) : Chosen(call)[j] = Rules[k][j]
         /\ i \in Fitting(call, task)
         /\ k \in Variants => DOMAIN Chosen(call) = {i}
<1> DEFINE rule == Rules[k][i]
           call == Offered(a, k, rule)
           inputs == Inputs(rule)
<1>1. /\ call.agent = a /\ call.action = k /\ call.payload = inputs /\ call.confirmed
      /\ call.variant = IF k \in Variants THEN rule.key ELSE Blank
  BY DEF Offered
<1>2. \A j \in DOMAIN Rules[k] : /\ Rules[k][j].key # Blank
                                 /\ i # j => Rules[k][i].key # Rules[k][j].key
  BY DefinitionValid DEF ValidLifecycle
<1>3. /\ DOMAIN inputs \subseteq rule.writable
      /\ ValuesAllowed(rule, inputs)
  BY InputFacts
<1> HIDE DEF call
<1>4. /\ DOMAIN Chosen(call) \subseteq DOMAIN Rules[k] /\ DOMAIN Chosen(call) \subseteq Nat
      /\ \A j \in DOMAIN Chosen(call) : Chosen(call)[j] = Rules[k][j]
      /\ \A j \in DOMAIN Rules[k] :
           call.variant \in {Blank, Rules[k][j].key} => j \in DOMAIN Chosen(call)
      /\ \A j \in DOMAIN Chosen(call) : call.variant \in {Blank, Rules[k][j].key}
  BY <1>1, ChosenFacts
<1>5. i \in DOMAIN Chosen(call)
  BY <1>1, <1>4
<1>6. k \in Variants => DOMAIN Chosen(call) = {i}
  BY <1>1, <1>2, <1>4, <1>5
<1>7. i \in Fitting(call, task)
  <2>1. Chosen(call)[i] = rule
    BY <1>4, <1>5
  <2> HIDE DEF inputs
  <2>2. QED
    BY <1>1, <1>3, <1>5, <2>1 DEF Fitting, Candidates
<1>8. Confirmed(call)
  BY <1>1 DEF Confirmed
<1>9. QED
  BY <1>4, <1>6, <1>7, <1>8 DEF call

\* An update without inputs is recognised on every card.
LEMMA UpdateRecognised ==
  ASSUME NEW i \in DOMAIN Rules["update"], NEW a \in Agent, NEW task,
         task["status"] \in Rules["update"][i].from, ActorAllowed(a, Rules["update"][i], task),
         Rules["update"][i].inputs = {}
  PROVE  i \in Recognised(Offered(a, "update", Rules["update"][i]), task)
<1> DEFINE rule == Rules["update"][i]
           call == Offered(a, "update", rule)
           inputs == Inputs(rule)
<1>1. "update" \in Actions \ {"create"}
  BY DEF Actions
<1>2. call.agent = a /\ call.payload = inputs
  BY DEF Offered
<1>3. /\ DOMAIN Chosen(call) \subseteq DOMAIN Rules["update"]
      /\ \A j \in DOMAIN Chosen(call) : Chosen(call)[j] = Rules["update"][j]
      /\ i \in Fitting(call, task)
  BY <1>1, OfferedFits
<1>4. DOMAIN inputs = {}
  BY <1>1, InputFacts
<1>5. \A j \in DOMAIN Rules["update"] : Rules["update"][j].to = Blank
  <2> SUFFICES ASSUME NEW j \in DOMAIN Rules["update"] PROVE Rules["update"][j].to = Blank
    OBVIOUS
  <2>1. ValidRule("update", Rules["update"][j])
    BY <1>1, DefinitionValid
  <2>2. QED
    BY <2>1 DEF ValidRule
<1> HIDE DEF call, inputs
<1>6. i \in DOMAIN Chosen(call) /\ Chosen(call)[i] = rule
  BY <1>3 DEF Fitting, Candidates
<1>7. i \in Applied(a, Chosen(call), task, inputs)
  BY <1>3, <1>4, <1>5, <1>6 DEF Applied
<1>8. QED
  BY <1>2, <1>7 DEF Recognised, call

\* An offer that is taken up with the inputs it asks for is accepted.
LEMMA OfferTaken ==
  ASSUME Determined, NEW k \in Actions \ {"create"}, NEW i \in DOMAIN Rules[k], NEW a \in Agent,
         NEW task, task["status"] \in Rules[k][i].from, ActorAllowed(a, Rules[k][i], task),
         LET merged == Over(Patch(a, Rules[k][i], Inputs(Rules[k][i])), task)
         IN \A f \in RequiredFields(Rules[k][i], merged) : merged[f] # Blank
  PROVE  LET prepared == Prepare(Offered(a, k, Rules[k][i]), task, Rules[k][i].guards)
         IN prepared.ok /\ prepared.rule.to = Rules[k][i].to
<1> DEFINE rule == Rules[k][i]
           inputs == Inputs(rule)
           call == Offered(a, k, rule)
           at == Recognised(call, task)
           fit == Fitting(call, task)
           prepared == Prepare(call, task, rule.guards)
<1>1. call.agent = a /\ call.payload = inputs
  BY DEF Offered
<1>2. /\ Confirmed(call)
      /\ DOMAIN Chosen(call) \subseteq DOMAIN Rules[k] /\ DOMAIN Chosen(call) \subseteq Nat
      /\ \A j \in DOMAIN Chosen(call) : Chosen(call)[j] = Rules[k][j]
      /\ i \in fit
      /\ k \in Variants => DOMAIN Chosen(call) = {i}
  BY OfferedFits
<1>3. at \subseteq DOMAIN Chosen(call) /\ fit \subseteq DOMAIN Chosen(call)
  BY DEF Recognised, Applied, Fitting, Candidates
<1>4. CASE at # {}
  <2> HIDE DEF at, fit
  <2>1. First(at) \in at
    BY <1>2, <1>3, <1>4, FirstIn
  <2>2. /\ First(at) \in DOMAIN Rules[k] /\ Chosen(call)[First(at)] = Rules[k][First(at)]
        /\ k \in Variants => First(at) = i
    BY <1>2, <1>3, <2>1
  <2>3. Rules[k][First(at)].to = rule.to
    BY <2>2 DEF Determined
  <2>4. prepared.ok /\ prepared.rule = Chosen(call)[First(at)]
    <3> HIDE DEF call
    <3>1. QED
      BY <1>2, <1>4, PrepareCases DEF at
  <2>5. QED
    BY <2>2, <2>3, <2>4
<1>5. CASE at = {}
  <2> DEFINE j == First(fit)
  <2>1. j \in fit
    <3> HIDE DEF fit
    <3>1. QED
      BY <1>2, <1>3, FirstIn
  <2>2. j \in DOMAIN Rules[k] /\ Chosen(call)[j] = Rules[k][j]
    <3> HIDE DEF fit, j
    <3>1. QED
      BY <1>2, <1>3, <2>1
  <2>3. task["status"] \in Rules[k][j].from /\ ActorAllowed(a, Rules[k][j], task)
    <3> HIDE DEF j
    <3>1. task["status"] \in Chosen(call)[j].from /\ ActorAllowed(call.agent, Chosen(call)[j], task)
      BY <2>1 DEF Fitting, Candidates
    <3>2. QED
      BY <1>1, <2>2, <3>1
  <2>4. j = i
    <3>1. CASE k \in Variants
      <4> HIDE DEF j, fit
      <4>1. QED
        BY <1>2, <1>3, <2>1, <3>1
    <3>2. CASE k \notin Variants
      <4>1. \/ i = j \/ rule.from \cap Rules[k][j].from = {}
            \/ RolesOf(rule) \cap RolesOf(Rules[k][j]) = {}
            \/ k = "update" /\ rule.inputs = {}
        BY <2>2, <3>2 DEF Determined
      <4>2. RoleOf[a] \in RolesOf(rule) /\ RoleOf[a] \in RolesOf(Rules[k][j])
        BY <2>2, <2>3, ActorRole
      <4>3. ~(k = "update" /\ rule.inputs = {})
        BY <1>5, UpdateRecognised
      <4> HIDE DEF j
      <4>4. QED
        BY <2>3, <4>1, <4>2, <4>3
    <3>3. QED
      BY <3>1, <3>2
  <2>5. ValidateRule(a, rule, task, inputs, rule.guards)
    <3>1. /\ DOMAIN inputs = rule.inputs /\ rule.inputs \subseteq rule.writable
          /\ \A f \in rule.inputs : inputs[f] \in Values[f] /\ inputs[f] # Blank
          /\ ValuesAllowed(rule, inputs)
      BY InputFacts
    <3> HIDE DEF inputs
    <3>2. /\ DOMAIN inputs \subseteq rule.writable
          /\ \A f \in DOMAIN inputs : inputs[f] \in Values[f] \cup {Blank}
      BY <3>1
    <3>3. \A f \in DOMAIN Patch(a, rule, inputs) : Patch(a, rule, inputs)[f] \in Values[f] \cup {Blank}
      BY <3>2, PatchValues
    <3>4. \A f \in RequiredFields(rule, Over(Patch(a, rule, inputs), task)) :
            Over(Patch(a, rule, inputs), task)[f] # Blank
      BY DEF inputs
    <3> HIDE DEF rule
    <3>5. QED
      BY <3>1, <3>2, <3>3, <3>4 DEF ValidateRule, rule
  <2>6. prepared.ok /\ prepared.rule = Chosen(call)[j]
    <3>1. fit # {} /\ Chosen(call)[First(fit)] = rule
      <4> HIDE DEF fit
      <4>1. QED
        BY <1>2, <2>2, <2>4
    <3> HIDE DEF call, inputs, rule
    <3>2. QED
      BY <1>1, <1>2, <1>5, <2>5, <3>1, PrepareCases
  <2> HIDE DEF j
  <2>7. QED
    BY <2>2, <2>4, <2>6
<1>6. QED
  BY <1>4, <1>5

\* In every definition whose tools without options lead to one state by one rule
\* for each state and role, get_task keeps its word: an action offered on any card
\* that tools and people may produce is accepted with the inputs it names, and
\* leads to the state that it names, whichever rule the tool selects.
THEOREM OffersKept ==
  ASSUME Determined
  PROVE  Spec => []OfferedAccepted
<1>1. OfferedAccepted
  <2> SUFFICES ASSUME NEW a \in Agent, NEW o \in Available(a, card),
                      LET merged == Over(Patch(a, o[2], Inputs(o[2])), card)
                      IN \A f \in RequiredFields(o[2], merged) : merged[f] # Blank
               PROVE  LET prepared == Prepare(Offered(a, o[1], o[2]), card, o[2].guards)
                      IN prepared.ok /\ prepared.rule.to = o[2].to
    BY DEF OfferedAccepted, Inputs, Offered
  <2>1. PICK k \in Actions \ {"create"} : o \in {k} \X RulesOf(k)
    BY DEF Available
  <2>2. card["status"] \in o[2].from /\ ActorAllowed(a, o[2], card)
    BY DEF Available
  <2>3. o[1] = k /\ o[2] \in RulesOf(k)
    BY <2>1
  <2>4. PICK i \in DOMAIN Rules[k] : o[2] = Rules[k][i]
    BY <2>3 DEF RulesOf
  <2>5. QED
    BY <2>2, <2>3, <2>4, OfferTaken
<1>2. QED
  BY <1>1, PTL
=============================================================================
