-------------------------- MODULE MCRepositoryGate --------------------------
(***************************************************************************)
(* Values of the constants of RepositoryGate for TLC.                      *)
(***************************************************************************)
EXTENDS RepositoryGate
CONSTANTS c0, c1, c2, d1

\* c0 is on main; c1 and d1 are built on c0, c2 on c1.
History == [c \in Commit |-> CASE c = c0 -> {c0} [] c = c1 -> {c0, c1}
                               [] c = c2 -> {c0, c1, c2} [] OTHER -> {c0, d1}]
\* The transitions of the software-development workflow.
Transitions ==
  {<<"route", s, "ready">> : s \in {"backlog", "in_progress", "review", "blocked"}}
  \cup {<<"claim", "ready", "in_progress">>, <<"submit", "in_progress", "review">>,
        <<"review", "review", "done">>, <<"review", "review", "ready">>}
  \cup {<<"block", s, "blocked">> : s \in {"ready", "in_progress", "review"}}
  \cup {<<"cancel", s, "canceled">> :
          s \in {"backlog", "ready", "in_progress", "review", "blocked"}}
=============================================================================
