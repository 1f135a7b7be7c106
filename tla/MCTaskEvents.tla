---------------------------- MODULE MCTaskEvents ----------------------------
(***************************************************************************)
(* Values of the constants of TaskEvents for TLC.                          *)
(***************************************************************************)
EXTENDS TaskEvents
CONSTANTS dev, lead, d1, l1

\* A state of each kind of dispatch, as in the software-development workflow.
SomeStates == {"backlog", "ready", "review"}
SomeDispatch == [s \in SomeStates |->
                   CASE s = "ready" -> "task_role"
                     [] s = "review" -> "coordinator"
                     [] OTHER -> "none"]
AgentRole == [a \in Agent |-> IF a = d1 THEN dev ELSE lead]

\* One card passed between a role and the coordinator.
Passed == {[st |-> "ready", role |-> dev], [st |-> "review", role |-> dev]}
\* A ready card that is given to another role.
Regiven == {[st |-> "ready", role |-> dev], [st |-> "ready", role |-> lead],
            [st |-> "backlog", role |-> dev]}
=============================================================================
