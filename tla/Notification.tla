---------------------------- MODULE Notification ----------------------------
(***************************************************************************)
(* What the delivery of a notification promises, whichever way it is done: *)
(* an agent's session works on one notification at a time; one counts as   *)
(* completed only when a turn for it completed or touched the card; claimed *)
(* work is not settled under the agent's hands; and what is settled stays  *)
(* settled, except that a failed one may be tried again when the daemon    *)
(* starts.  TaskDelivery implements this (TaskDelivery!Implements).        *)
(***************************************************************************)
CONSTANTS Delivery,       \* notifications: a dispatch event for an agent
          SessionOf(_)    \* the session of that agent

VARIABLES
  stage,     \* of a notification
  answered,  \* notifications a turn was completed for, or touched the card
  claimed,   \* notifications whose agent holds the card
  gone,      \* sessions that were deleted
  starting   \* the daemon makes its first pass after a restart
vars == <<stage, answered, claimed, gone, starting>>

Stage == {"none", "open", "taken", "completed", "failed", "canceled"}
In(s) == {d \in Delivery : stage[d] = s}

\* d moves on, and no other notification does, except that new ones may be
\* announced in the same step.
Announced(e) == stage[e] = "none" /\ stage'[e] = "open"
Moves(d, from, to) ==
  /\ stage[d] \in from /\ stage'[d] \in to
  /\ \A e \in Delivery \ {d} : stage'[e] = stage[e] \/ Announced(e)

Held(d) == d \in claimed /\ d \in claimed' /\ SessionOf(d) \notin gone

Announce(d) == Moves(d, {"none"}, {"open"})
Take(d) == /\ Moves(d, {"open"}, {"taken"})
           /\ \A e \in In("taken") : SessionOf(e) # SessionOf(d)
Release(d) == Moves(d, {"taken"}, {"open"})
Complete(d) == Moves(d, {"taken"}, {"completed"}) /\ d \in answered' /\ ~Held(d)
Drop(d) == Moves(d, {"open", "taken"}, {"failed", "canceled"}) /\ ~Held(d)
Revive == /\ starting
          /\ \A d \in Delivery :
               \/ stage'[d] = stage[d]
               \/ stage[d] = "failed" /\ stage'[d] \in {"open", "canceled"}

\* The agents, Codex and the process are left open, but an answer is not taken
\* back, and a deleted session does not return.
Surroundings == answered \subseteq answered' /\ gone \subseteq gone'

Init == /\ stage = [d \in Delivery |-> "none"]
        /\ answered = {} /\ claimed = {} /\ gone = {} /\ ~starting
Next == /\ Surroundings
        /\ \/ UNCHANGED stage
           \/ /\ stage' \in [Delivery -> Stage]
              /\ \/ Revive
                 \/ \E d \in Delivery :
                      Announce(d) \/ Take(d) \/ Release(d) \/ Complete(d) \/ Drop(d)
Spec == Init /\ [][Next]_vars
=============================================================================
