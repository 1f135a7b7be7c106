--------------------------- MODULE TaskLifecycle ----------------------------
(***************************************************************************)
(* The workflow rules: which agent may change a card in which state, and   *)
(* what the change writes.                                                 *)
(*                                                                         *)
(*   core/workflow_lifecycle.py        choosing and preparing an action    *)
(*   core/workflow_rule_validation.py  checking a rule, its patch, retries *)
(*   core/workflow_contract.py         who may act, what agents are offered*)
(*   core/workflow_runtime.py          actions that do not touch the card  *)
(*   core/workflow_validation.py       what a definition must satisfy      *)
(*   core/teamflow_tools.py            the arguments of each tool          *)
(*                                                                         *)
(* One card and one workflow definition, a constant.  A call reads,        *)
(* prepares and writes in one step: module ToolCalls is about the lock     *)
(* that makes this so.  The delivery fields are module RepositoryGate.     *)
(***************************************************************************)
EXTENDS Naturals, FiniteSets, Sequences

CONSTANTS
  Agent, RoleOf,       \* the registered agents and their roles
  Role, Coordinator,   \* roles of the workflow, its coordinator_role
  State, InitialState, Terminal, Completion,
  Dispatch,            \* dispatch of each state
  Required,            \* required_fields of each state
  Rules,               \* the rules of each action, in order
  Runtime,             \* the runtime action stop_execution
  DefaultRole,         \* default_role of the card's type
  Values,              \* the values a field may be given
  Blank,               \* None, "" or []
  MaxEdits             \* bound: changes people make on the board

\* The fields, by what the rules tell apart: "brief" is the title, type,
\* priority, description and acceptance criteria, agent_id comes with agent,
\* waiting_on with blocked_reason; progress is treated as next_action is.
Field == {"brief", "role", "agent_id", "result_evidence", "waiting_on",
          "next_action"}
\* DIRECTLY_WRITABLE_FIELDS and CLEARABLE_FIELDS
Writable == Field \ {"agent_id"}
Actor == {"coordinator", "task_role", "assigned_agent"}
Actions == {"create", "update", "route", "claim", "submit", "block", "review",
            "cancel"}
Variants == {"submit", "review"}            \* VARIANT_ACTIONS
Guards == {"executor_unavailable", "execution_stopped"}
NoCard == [f \in Field \cup {"status"} |-> Blank]

\* The fields of new, and those of old that new does not have.
Over(new, old) == [f \in DOMAIN new \cup DOMAIN old |->
                     IF f \in DOMAIN new THEN new[f] ELSE old[f]]
Pay(f, v) == [x \in {f} |-> v]
RulesOf(action) == {Rules[action][i] : i \in DOMAIN Rules[action]}
First(at) == CHOOSE i \in at : \A j \in at : i <= j

-----------------------------------------------------------------------------
(* validate_workflow_definition.                                            *)

ValidLifecycle ==
  /\ Coordinator \in Role /\ DefaultRole \in Role
  /\ InitialState \in State \ Terminal
  /\ Terminal # {} /\ Terminal \subseteq State
  /\ Completion # {} /\ Completion \subseteq Terminal
  /\ Dispatch \in [State -> {"none", "task_role", "coordinator"}]
  /\ \A s \in Terminal : Dispatch[s] = "none"
  /\ Required \in [State -> SUBSET Field]
  /\ DOMAIN Rules = Actions /\ \A k \in Actions : DOMAIN Rules[k] \subseteq Nat
  /\ DOMAIN Rules["create"] = {1}
  /\ \A k \in Actions : \A i, j \in DOMAIN Rules[k] :      \* keyed_items
       Rules[k][i].key # Blank /\ (i # j => Rules[k][i].key # Rules[k][j].key)

\* _validate_action_rule
ValidRule(action, rule) ==
  /\ rule.actors # {} /\ rule.actors \subseteq Actor /\ rule.roles \subseteq Role
  /\ rule.from \subseteq State \ Terminal
  /\ CASE action = "create" -> rule.from = {} /\ rule.to = InitialState
       [] action = "update" -> rule.from # {} /\ rule.to = Blank
       [] OTHER -> rule.from # {} /\ rule.to \in State
  /\ rule.writable \subseteq Writable /\ rule.inputs \subseteq rule.writable
  /\ rule.fields \subseteq Field /\ rule.clear \subseteq Field
  /\ \A m \in {rule.defaults, rule.fixed} :
       /\ DOMAIN m \subseteq Writable
       /\ \A f \in DOMAIN m : m[f] \in Values[f]
  /\ \A f \in DOMAIN rule.values :
       f \in rule.writable /\ rule.values[f] # {} /\ rule.values[f] \subseteq Values[f]
  /\ rule.prefix # Blank => "result_evidence" \in rule.writable
  /\ rule.guards \subseteq CASE action = "route" -> Guards
                              [] action = "cancel" -> {"execution_stopped"}
                              [] OTHER -> {}

ValidRuntime ==
  /\ Runtime.actors # {} /\ Runtime.actors \subseteq Actor
  /\ Runtime.roles \subseteq Role
  /\ Runtime.states # {} /\ Runtime.states \subseteq State

\* _validate_state_graph: every state can be reached, and every state that is
\* not terminal can reach a terminal one.
Edges ==
  {e \in State \X State :
     \E k \in Actions \ {"create", "update"} : \E i \in DOMAIN Rules[k] :
       e[1] \in Rules[k][i].from /\ e[2] = Rules[k][i].to}
Reachable(roots, edges) ==
  {s \in State : \A S \in SUBSET State :
     roots \subseteq S /\ (\A e \in edges : e[1] \in S => e[2] \in S) => s \in S}
ValidStateGraph ==
  /\ Reachable({InitialState}, Edges) = State
  /\ Reachable(Terminal, {<<e[2], e[1]>> : e \in Edges}) = State

ASSUME DefinitionValid ==
  /\ ValidLifecycle /\ ValidRuntime /\ ValidStateGraph
  /\ \A k \in Actions : \A i \in DOMAIN Rules[k] : ValidRule(k, Rules[k][i])
ASSUME BoardAssumption ==
  /\ RoleOf \in [Agent -> Role] /\ MaxEdits \in Nat
  /\ DOMAIN Values = Field \cup {"status"}
  /\ \A f \in DOMAIN Values : Blank \notin Values[f]
  /\ Values["role"] = Role /\ Values["agent_id"] = Agent /\ Values["status"] = State
  /\ \A f \in Writable : Values[f] # {}                 \* some text is a value,
  /\ "work" \in Values["result_evidence"]                \* so are a verdict and the work
  /\ \A k \in Actions : \A rule \in RulesOf(k) :
       rule.prefix \in Values["result_evidence"] \cup {Blank}

\* More than validate_workflow_definition asks of a definition, and what the
\* results on offers, repeated calls and stranded cards rest on.

\* The roles of the agents that may use a rule.
RolesOf(rule) ==
  (IF rule.roles = {} THEN Role ELSE rule.roles)
    \cap (IF rule.actors = {"coordinator"} THEN {Coordinator} ELSE Role)
\* A tool without options leads to one state, and by one rule: two of its rules
\* are for other states or other roles.  update_task asks for no field.
Determined ==
  \A k \in Actions \ (Variants \cup {"create"}) : \A i, j \in DOMAIN Rules[k] :
    LET r1 == Rules[k][i]
        r2 == Rules[k][j]
    IN /\ r1.to = r2.to
       /\ \/ i = j \/ r1.from \cap r2.from = {} \/ RolesOf(r1) \cap RolesOf(r2) = {}
          \/ k = "update" /\ r1.inputs = {} /\ r2.inputs = {}
\* Who uses a rule may use it still on the card it leaves; what update_task is
\* given is what it writes.
Repeatable ==
  \A k \in Actions \ {"create"} : \A rule \in RulesOf(k) :
    /\ "task_role" \in rule.actors =>
         "role" \notin rule.writable \cup DOMAIN rule.fixed \cup DOMAIN rule.defaults \cup rule.clear
    /\ "assigned_agent" \in rule.actors => "agent_id" \notin rule.clear
    /\ rule.to = Blank => /\ rule.writable \cap (DOMAIN rule.fixed \cup rule.clear) = {}
                          /\ rule.prefix = Blank
\* In every state the coordinator may cancel a card for a reason, which is all
\* that this needs.
Cancelable ==
  /\ \E a \in Agent : RoleOf[a] = Coordinator
  /\ \A s \in State \ Terminal : \E rule \in RulesOf("cancel") : s \in rule.from
  /\ \A rule \in RulesOf("cancel") :
       /\ "coordinator" \in rule.actors /\ Coordinator \in RolesOf(rule)
       /\ rule.to \in Terminal /\ "result_evidence" \in rule.writable \ rule.clear
       /\ rule.inputs \cup rule.fields \cup Required[rule.to] \subseteq {"result_evidence"}
       /\ "result_evidence" \notin DOMAIN rule.values

VARIABLES
  card,      \* the card on the board; its status is Blank before it is created
  facts,     \* runtime_facts of the card's execution
  edits
\* States with a guarded rule: the others have no facts.
Guarded == UNION {UNION {rule.from : rule \in {r \in RulesOf(k) : r.guards # {}}} :
                    k \in Actions}
vars == <<card, facts, edits>>

\* Type invariant; facts about the execution are kept only where the rules ask
\* for them.
TypeOK ==
  /\ DOMAIN card = Field \cup {"status"}
  /\ \A f \in DOMAIN card : card[f] \in Values[f] \cup {Blank}
  /\ card.status = Blank => card = NoCard
  /\ facts \subseteq Guards /\ (facts # {} => card.status \in Guarded)
  /\ edits \in 0..MaxEdits

-----------------------------------------------------------------------------
(* Choosing and checking a rule.                                            *)

\* rule_actor_allowed
ActorAllowed_NeedsRole(a, rule, task) ==
  /\ rule.roles = {} \/ RoleOf[a] \in rule.roles
  /\ task.status # Blank => task.role # Blank
  /\ \/ "coordinator" \in rule.actors /\ RoleOf[a] = Coordinator
     \/ "task_role" \in rule.actors /\ RoleOf[a] = task.role
     \/ "assigned_agent" \in rule.actors /\ a = task.agent_id
ActorAllowed(a, rule, task) ==
  /\ rule.roles = {} \/ RoleOf[a] \in rule.roles
  /\ \/ "coordinator" \in rule.actors /\ RoleOf[a] = Coordinator
     \/ "task_role" \in rule.actors /\ RoleOf[a] = task.role
     \/ "assigned_agent" \in rule.actors /\ a = task.agent_id

\* rule_values_allowed
ValuesAllowed(rule, payload) ==
  \A f \in DOMAIN rule.values \cap DOMAIN payload : payload[f] \in rule.values[f]

\* action_patch.  A verdict is the leading line of result_evidence.
Patch(a, rule, payload) ==
  LET given == Over(rule.fixed, Over(payload, rule.defaults))
      prefixed == IF /\ rule.prefix # Blank /\ "result_evidence" \in DOMAIN given
                     /\ given["result_evidence"] # Blank
                  THEN Over(Pay("result_evidence", rule.prefix), given) ELSE given
      bound == IF rule.binds THEN Over(Pay("agent_id", a), prefixed) ELSE prefixed
      cleared == Over([f \in rule.clear |-> Blank], bound)
  IN IF rule.to = Blank THEN cleared ELSE Over(Pay("status", rule.to), cleared)

\* required_task_fields
RequiredFields_Target(rule, task) ==
  rule.fields \cup IF rule.to # Blank THEN Required[rule.to] ELSE {}
RequiredFields(rule, task) ==
  rule.fields \cup Required[IF rule.to # Blank THEN rule.to ELSE task.status]

\* validate_rule
ValidateRule(a, rule, task, payload, known) ==
  LET patch == Patch(a, rule, payload)
      merged == Over(patch, task) IN
  /\ ActorAllowed(a, rule, task)
  /\ DOMAIN payload \subseteq rule.writable
  /\ \A f \in rule.inputs : f \in DOMAIN payload /\ payload[f] # Blank
  /\ ValuesAllowed(rule, payload)
  /\ \A f \in DOMAIN patch : patch[f] \in Values[f] \cup {Blank}
  /\ \A f \in RequiredFields(rule, merged) : merged[f] # Blank
  /\ rule.guards \subseteq known

\* matching_applied_rule: the card is already as the call would leave it.  Of
\* rules, some rules of an action by their place, these are the ones that say so.
Applied_Verbatim(a, rules, task, payload) ==
  {i \in DOMAIN rules :
     /\ rules[i].to # Blank /\ task.status = rules[i].to
     /\ ActorAllowed(a, rules[i], task) /\ DOMAIN payload \subseteq rules[i].writable
     /\ \A f \in DOMAIN payload : task[f] = payload[f]}
Applied(a, rules, task, payload) ==
  LET shows(expected) == \A f \in DOMAIN expected : task[f] = expected[f]
      neutral == \A i \in DOMAIN rules : rules[i].to = Blank
  IN {i \in DOMAIN rules :
        /\ ActorAllowed(a, rules[i], task) /\ DOMAIN payload \subseteq rules[i].writable
        /\ \/ /\ rules[i].to # Blank /\ task.status = rules[i].to
              /\ ValuesAllowed(rules[i], payload) /\ shows(Patch(a, rules[i], payload))
           \/ neutral /\ shows(payload)}

Refused == [ok |-> FALSE]

\* The rules of an action that fit state, actor and payload: the first is used.
Candidates_AnyState(a, rules, task, payload) ==
  {i \in DOMAIN rules :
     /\ ActorAllowed(a, rules[i], task)
     /\ DOMAIN payload \subseteq rules[i].writable /\ ValuesAllowed(rules[i], payload)}
Candidates(a, rules, task, payload) ==
  {i \in DOMAIN rules :
     /\ task.status \in rules[i].from /\ ActorAllowed(a, rules[i], task)
     /\ DOMAIN payload \subseteq rules[i].writable /\ ValuesAllowed(rules[i], payload)}

\* prepare_existing_action.  Cancelling needs confirmed=true.
Prepare(call, task, known) ==
  LET a == call.agent
      all == Rules[call.action]
      rules == [i \in {j \in DOMAIN all : call.variant \in {Blank, all[j].key}} |-> all[i]]
      applied == Applied(a, rules, task, call.payload)
      fitting == Candidates(a, rules, task, call.payload)
      accepted(rule, already) ==
        [ok |-> TRUE, already |-> already, rule |-> rule,
         patch |-> IF already THEN << >> ELSE Patch(a, rule, call.payload)]
  IN IF call.action = "cancel" /\ ~call.confirmed THEN Refused
     ELSE IF applied # {} THEN accepted(rules[First(applied)], TRUE)
     ELSE IF fitting = {} THEN Refused
     ELSE IF ~ValidateRule(a, rules[First(fitting)], task, call.payload, known) THEN Refused
     ELSE accepted(rules[First(fitting)], FALSE)

\* prepare_create_action: the type decides the role that is not given.
PrepareCreate(a, payload) ==
  LET rule == Rules["create"][1]
      full == IF "role" \notin DOMAIN payload /\ "brief" \in DOMAIN payload
              THEN Over(Pay("role", DefaultRole), payload) ELSE payload
  IN IF ValidateRule(a, rule, NoCard, full, {})
     THEN [ok |-> TRUE, patch |-> Patch(a, rule, full)] ELSE Refused

\* available_task_actions: what an agent is told it may do with the card.
Available_AnyRole(a, task) ==
  {o \in UNION {{k} \X RulesOf(k) : k \in Actions \ {"create"}} :
     task.status \in o[2].from /\ ActorAllowed(a, [o[2] EXCEPT !.roles = {}], task)}
Available(a, task) ==
  {o \in UNION {{k} \X RulesOf(k) : k \in Actions \ {"create"}} :
     task.status \in o[2].from /\ ActorAllowed(a, o[2], task)}

\* The arguments each tool hands on as payload.  submit_task, block_task and
\* review_task leave out what is blank (provided_fields).
Payloads(action) ==
  CASE action = "update" ->
         UNION {{Pay(f, v) : v \in Values[f] \cup {Blank}} : f \in Writable} \cup {<< >>}
    [] action = "route" -> {Pay("role", r) : r \in Role \cup {Blank}}
    [] action = "claim" -> {<< >>}
    [] action = "submit" -> {Pay("result_evidence", v) : v \in Values["result_evidence"]}
                              \cup {<< >>}
    [] action = "block" -> UNION {{Pay("waiting_on", w),
                                   Over(Pay("waiting_on", w), Pay("next_action", n))} :
                                    w \in Values["waiting_on"], n \in Values["next_action"]}
    [] action = "review" -> UNION {{Pay("result_evidence", "work"), Pay("role", r),
                                    Over(Pay("result_evidence", "work"), Pay("role", r))} :
                                      r \in Role}
    [] OTHER -> {Pay("result_evidence", v) : v \in {"work", Blank}}
Calls ==
  UNION {[agent : Agent, action : {k}, payload : Payloads(k),
          confirmed : IF k = "cancel" THEN BOOLEAN ELSE {TRUE},
          variant : IF k \in Variants THEN {rule.key : rule \in RulesOf(k)} ELSE {Blank}] :
         k \in Actions \ {"create"}}

-----------------------------------------------------------------------------
(* The steps.                                                               *)

\* The facts are about the execution of the card in its present state.
KeptStale(known, next) == known
Kept(known, next) == IF next.status \in Guarded THEN known ELSE {}

CreateTask ==
  /\ card = NoCard
  /\ \E a \in Agent, b \in Values["brief"], r \in Role :
     \E p \in {<< >>, Pay("brief", b), Pay("role", r), Over(Pay("brief", b), Pay("role", r))} :
       LET new == PrepareCreate(a, p) IN new.ok /\ card' = Over(new.patch, NoCard)
  /\ UNCHANGED <<facts, edits>>

\* update, route, claim, submit, block, review and cancel_task.  A call that is
\* refused, or recognised as applied, writes nothing.
CallTool ==
  /\ card # NoCard /\ UNCHANGED edits
  /\ \E call \in Calls :
       LET prepared == Prepare(call, card, facts) IN
       /\ prepared.ok /\ ~prepared.already
       /\ card' = Over(prepared.patch, card)
       /\ facts' = Kept(facts, card')

\* stop_task_execution (prepare_runtime_action): the turn is stopped.
StopExecution ==
  /\ card.status \in Runtime.states /\ card.agent_id # Blank
  /\ \E a \in Agent : ActorAllowed(a, Runtime, card)
  /\ facts' = Kept(facts \cup {"execution_stopped"}, card) /\ UNCHANGED <<card, edits>>
\* runtime_facts finds no executor: the card names none and nothing runs, its
\* agent is no longer registered, or its thread is gone for good.
LoseExecutor ==
  /\ card.status \in Guarded /\ facts' = Guards /\ UNCHANGED <<card, edits>>
\* The executor goes on with the card in another turn.
Continue ==
  /\ facts # {} /\ facts' = {} /\ UNCHANGED <<card, edits>>

\* A person changes a field of the card on the board.
EditCard ==
  /\ card # NoCard /\ edits < MaxEdits /\ edits' = edits + 1
  /\ \E f \in DOMAIN card :
     \E v \in Values[f] \cup (IF f = "status" THEN {} ELSE {Blank}) :
       card' = [card EXCEPT ![f] = v]
  /\ facts' = Kept(facts, card')

Init == card = NoCard /\ facts = {} /\ edits = 0
Next == CreateTask \/ CallTool \/ StopExecution \/ LoseExecutor \/ Continue \/ EditCard
Spec == Init /\ [][Next]_vars

-----------------------------------------------------------------------------
(* Properties                                                               *)

\* A card that no person has touched has every field its state requires, after
\* any sequence of tool calls: updates in place cannot take one away
\* (required_task_fields, validate_rule).
StateComplete ==
  edits = 0 /\ card # NoCard => \A f \in Required[card.status] : card[f] # Blank

\* An action that get_task offers an agent is accepted when the agent makes it
\* with the required inputs and the card has the required fields, and leads to
\* the state that was announced, whichever rule the tool then selects.
OfferedAccepted ==
  card # NoCard =>
  \A a \in Agent : \A o \in Available(a, card) :
    LET rule == o[2]
        inputs == [f \in rule.inputs |->
                     CHOOSE v \in IF f \in DOMAIN rule.values THEN rule.values[f]
                                  ELSE Values[f] : TRUE]
        merged == Over(Patch(a, rule, inputs), card)
        call == [agent |-> a, action |-> o[1], payload |-> inputs, confirmed |-> TRUE,
                 variant |-> IF o[1] \in Variants THEN rule.key ELSE Blank]
        prepared == Prepare(call, card, rule.guards)
    IN (\A f \in RequiredFields(rule, merged) : merged[f] # Blank)
         => prepared.ok /\ prepared.rule.to = rule.to

\* A call that was accepted and is made again is recognised as applied, so a
\* repeated call never refuses, and never writes twice (matching_applied_rule).
RetryRecognised ==
  card # NoCard =>
  \A call \in Calls :
    LET first == Prepare(call, card, facts) IN
    first.ok => LET again == Prepare(call, Over(first.patch, card), {}) IN
                  again.ok /\ again.already

\* Whatever people did to the card, the coordinator can take it out of a state
\* that is not terminal, once its execution is stopped.
NeverStuck ==
  card # NoCard /\ card.status \notin Terminal =>
    \E call \in Calls :
      /\ RoleOf[call.agent] = Coordinator
      /\ LET prepared == Prepare(call, card, Guards) IN
           prepared.ok /\ ~prepared.already /\ prepared.rule.to \notin {Blank, card.status}

\* No call of a tool changes a card that is done or canceled.
TerminalFixed ==
  [][card.status \in Terminal /\ edits' = edits => card' = card]_vars
=============================================================================
