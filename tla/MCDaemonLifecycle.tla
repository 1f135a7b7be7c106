------------------------- MODULE MCDaemonLifecycle --------------------------
(***************************************************************************)
(* Values of the constants of DaemonLifecycle for TLC.                     *)
(***************************************************************************)
EXTENDS DaemonLifecycle
CONSTANTS e, v, s, p1, p2

\* A caller of ensure_daemon, one of verify and one of stop_daemon.
Operation == [c \in Client |-> CASE c = e -> "ensure" [] c = v -> "verify" [] c = s -> "stop"]
=============================================================================
