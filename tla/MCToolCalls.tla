---------------------------- MODULE MCToolCalls -----------------------------
(***************************************************************************)
(* Values of the constants of ToolCalls for TLC.                           *)
(***************************************************************************)
EXTENDS ToolCalls
CONSTANTS submit, block, create, t1, t2

\* In the turn that delivers the card the executor submits it and blocks it,
\* and the relay tries the first of the two calls twice; in another turn a
\* card is created.
CallKind == [c \in Call |-> IF c = create THEN "create" ELSE "handoff"]
CallFrom == [c \in Call |-> "in_progress"]
CallTo == [c \in Call |-> IF c = block THEN "blocked" ELSE "review"]
CallTurn == [c \in Call |-> IF c = create THEN t2 ELSE t1]
CallTries == [c \in Call |-> IF c = submit THEN 2 ELSE 1]
Statuses == {"in_progress", "review", "blocked"}
=============================================================================
