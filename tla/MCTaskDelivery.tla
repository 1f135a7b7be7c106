--------------------------- MODULE MCTaskDelivery ---------------------------
(***************************************************************************)
(* Small instances of TaskDelivery for TLC.                                *)
(***************************************************************************)
EXTENDS TaskDelivery

CONSTANTS s1, s2, dev, lead

OneRole == [s \in Session |-> dev]
TwoRoles == [s \in Session |-> IF s = s1 THEN dev ELSE lead]
=============================================================================
