-------------------------- MODULE MCTaskLifecycle ---------------------------
(***************************************************************************)
(* The definition workflows/software-development/workflow.json as the      *)
(* constants of TaskLifecycle, without the design role, whose rules are    *)
(* those of tl.                                                            *)
(***************************************************************************)
EXTENDS TaskLifecycle, TLC
CONSTANTS pm, tl1, tl2, qa1

Staff == [a \in Agent |-> CASE a = pm -> "pm" [] a = qa1 -> "qa" [] OTHER -> "tl"]
Roles == {"pm", "tl", "qa"}
States == {"backlog", "ready", "in_progress", "review", "blocked", "done", "canceled"}
Dispatches == [s \in States |-> CASE s = "ready" -> "task_role"
                                  [] s \in {"review", "blocked"} -> "coordinator"
                                  [] OTHER -> "none"]
RequiredFieldsOf == [s \in States |->
  CASE s = "backlog" -> {} [] s = "ready" -> {"brief", "role"}
    [] s = "in_progress" -> {"brief", "role", "agent_id"}
    [] s = "review" -> {"brief", "role", "result_evidence"}
    [] s = "blocked" -> {"role", "waiting_on", "next_action"}
    [] OTHER -> {"result_evidence"}]
FieldValues == [f \in Field \cup {"status"} |->
  CASE f = "brief" -> {"b"} [] f = "role" -> Roles [] f = "agent_id" -> Agent
    [] f = "result_evidence" -> {"work", "passed", "failed"}
    [] f = "waiting_on" -> {"pm", "stakeholder"} [] f = "next_action" -> {"n"}
    [] OTHER -> States]

R(key, actors, from, to) ==
  [key |-> key, actors |-> actors, roles |-> {}, from |-> from, to |-> to,
   writable |-> {}, inputs |-> {}, fields |-> {}, defaults |-> << >>,
   fixed |-> << >>, prefix |-> Blank, binds |-> FALSE, clear |-> {},
   values |-> << >>, guards |-> {}]
Coord(key, from, to) == R(key, {"coordinator"}, from, to)
Route(key, from, clear) ==
  [Coord(key, from, "ready") EXCEPT !.writable = {"role"}, !.inputs = {"role"},
                                    !.clear = {"agent_id"} \cup clear]
Submit(key, roles, prefix) ==
  [R(key, {"assigned_agent"}, {"in_progress"}, "review") EXCEPT
     !.roles = roles, !.writable = {"next_action", "result_evidence"},
     !.inputs = {"result_evidence"}, !.fields = {"result_evidence"}, !.prefix = prefix]
Block(key, actors, roles, from, target) ==
  [R(key, actors, from, "blocked") EXCEPT
     !.roles = roles, !.writable = {"next_action", "waiting_on"},
     !.inputs = {"next_action", "waiting_on"}, !.values = "waiting_on" :> {target}]
Review(key, to, more) ==
  [Coord(key, {"review"}, to) EXCEPT
     !.writable = {"result_evidence"} \cup more, !.inputs = {"result_evidence"},
     !.fields = {"result_evidence"}, !.clear = {"agent_id"}]
Cancel(key, from) ==
  [Coord(key, from, "canceled") EXCEPT
     !.writable = {"result_evidence"}, !.inputs = {"result_evidence"},
     !.fields = {"result_evidence"}, !.clear = {"waiting_on", "next_action"}]

Definition == [
  create |-> <<[Coord("create", {}, "backlog") EXCEPT !.writable = {"brief", "role"}]>>,
  update |->
    <<[Coord("coordinate", {"backlog", "ready", "in_progress", "review"}, Blank) EXCEPT
         !.writable = {"brief", "next_action", "result_evidence"}],
      [Coord("coordinate_blocked", {"blocked"}, Blank) EXCEPT
         !.writable = {"brief", "next_action", "result_evidence", "waiting_on"}],
      [R("execute", {"assigned_agent"}, {"in_progress"}, Blank) EXCEPT
         !.writable = {"next_action", "result_evidence"}]>>,
  route |->
    <<Route("prepare", {"backlog"}, {"waiting_on"}), Route("delegate", {"ready"}, {"waiting_on"}),
      Route("resume", {"blocked"}, {"waiting_on"}),
      [Route("recover", {"in_progress"}, {}) EXCEPT !.guards = {"execution_stopped"}],
      Route("handoff", {"review"}, {})>>,
  claim |-> <<[R("claim", {"task_role"}, {"ready"}, "in_progress") EXCEPT
                 !.fields = {"brief", "role"}, !.binds = TRUE]>>,
  submit |-> <<Submit("completed", {"pm", "tl"}, Blank), Submit("passed", {"qa"}, "passed"),
               Submit("failed", {"qa"}, "failed")>>,
  block |->
    <<Block("ready_executor", {"task_role"}, {"tl", "qa"}, {"ready"}, "pm"),
      Block("ready_coordinator", {"coordinator"}, {}, {"ready"}, "stakeholder"),
      Block("executor", {"assigned_agent"}, {"tl", "qa"}, {"in_progress"}, "pm"),
      Block("coordinator", {"coordinator"}, {"pm"}, {"in_progress", "review"}, "stakeholder")>>,
  review |->
    <<[Review("approve", "done", {}) EXCEPT !.clear = {"role", "agent_id", "next_action"}],
      [Review("rework", "ready", {"role", "next_action"}) EXCEPT !.inputs = @ \cup {"role"}],
      [Review("send_to_qa", "ready", {"next_action"}) EXCEPT !.fixed = "role" :> "qa"]>>,
  cancel |->
    <<Cancel("cancel", {"backlog", "ready", "review", "blocked"}),
      [Cancel("cancel_in_progress", {"in_progress"}) EXCEPT !.guards = {"execution_stopped"}]>>]
StopRule == [actors |-> {"coordinator"}, roles |-> {}, states |-> {"in_progress"}]

\* The definition satisfies what the theorems on OfferedAccepted, RetryRecognised
\* and NeverStuck assume of one.
ASSUME DefinitionGood == Determined /\ Repeatable /\ Cancelable
=============================================================================
