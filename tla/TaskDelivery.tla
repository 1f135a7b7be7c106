---------------------------- MODULE TaskDelivery ----------------------------
(***************************************************************************)
(* The delivery runtime of the TeamFlow daemon: how a dispatch event of a  *)
(* task card becomes a Codex turn in an agent's session, how the daemon    *)
(* finds out what became of that turn, and how work that an agent claimed  *)
(* in it stays recoverable across lost answers, crashes and restarts.      *)
(*                                                                         *)
(*   core/task_delivery_store.py      the delivery rows and their updates  *)
(*   core/task_delivery_execution.py  the execution row of a claimed task  *)
(*   core/delivery_runtime.py         scheduler, workers, reconciler       *)
(*   core/task_execution.py           execution rows written by tool calls *)
(*                                                                         *)
(* One action is one database transaction or one exchange with Codex,      *)
(* together with the reads it is decided by.  A next_attempt_at in the     *)
(* past and an expired ten minute lease may come at any moment, so neither *)
(* is kept: every step they delay may be taken or not.                     *)
(***************************************************************************)
EXTENDS Naturals, FiniteSets

CONSTANTS
  Session,           \* Codex sessions, one registered agent each
  Record,            \* task cards
  Role,              \* workflow roles
  RoleOf,            \* the role each session's agent is registered for
  Turn,              \* Codex turn ids: bounds the accepted turns of a behaviour
  None,              \* NULL
  MaxEvents,         \* bound: how often a card enters a dispatching state
  MaxCrashes,        \* bound: daemon crashes
  MaxAcceptedTurns,  \* _MAX_ACCEPTED_TURN_ATTEMPTS, 3 in the code
  Deletable,         \* bound: sessions that a user may delete in Codex
  Races              \* which of the rare races below may happen

\* "staleRow": a worker finishes between the reconciler's read of the due rows
\* and its look at the session; "lateTool": a tool call outlives the turn that
\* issued it; "staleRead": a read-only tool applies an outdated read; "badFrame":
\* an IPC frame is malformed while the answer to a start is awaited.
RaceKinds == {"staleRow", "lateTool", "staleRead", "badFrame"}

(***************************************************************************)
(* A delivery row is identified by its dispatch event (the n-th of a card) *)
(* and the agent it addresses: UNIQUE (event_key, agent_id, revision).     *)
(***************************************************************************)
Delivery == Record \X (1..MaxEvents) \X Session
RecordOf(d) == d[1]
EventOf(d) == d[2]
SessionOf(d) == d[3]

ASSUME ConstantsAssumption ==
  /\ Role # {} /\ RoleOf \in [Session -> Role]
  /\ None \notin Turn \cup Session \cup Record \cup Delivery
  /\ MaxEvents \in Nat /\ MaxCrashes \in Nat /\ MaxAcceptedTurns \in Nat
  /\ Deletable \subseteq Session /\ Races \subseteq RaceKinds

VARIABLES
  card,        \* the card on the board: state, target role, agent, entries
  snap,        \* lark_task_state: the last snapshot saved, its dispatch event
  newer,       \* snapshot.updated_at > execution.updated_at
  exec,        \* task_executions: state, session and turn per card
  status,      \* task_event_deliveries.status ("absent": no such row)
  turnId,      \* task_event_deliveries.turn_id
  turnStatus,  \* task_event_deliveries.turn_status
  hasMsg,      \* task_event_deliveries.client_message_id is set
  msgTurn,     \* the turn Codex made of that client message, if any
  transit,     \* deliveries whose start request is still at the owner
  turnRow,     \* task_delivery_turns: absent, recorded or acknowledged
  turnState,   \* what the turn really does in Codex
  turnOf,      \* the delivery whose prompt started the turn
  rollout,     \* the last lifecycle event of the turn in its session's rollout
  gone,        \* sessions Codex no longer has
  orphan,      \* history: accepted turns that save_turn refused to record
  worker,      \* the execute() thread of a session (also active_sessions)
  rec,         \* the reconciler: its place in the loop and the row it read
  tool,        \* the tool call a session has in flight
  stopCall,    \* the turn a stop_task_execution call has just interrupted
  daemon, crashes

board == <<card, snap, newer, exec>>
rows == <<status, turnId, turnStatus, hasMsg>>
calls == <<tool, stopCall>>
codex == <<msgTurn, transit, turnState, turnOf, rollout, gone, orphan>>
vars == <<board, rows, codex, turnRow, worker, rec, calls, daemon, crashes>>

CardState == {"idle", "dispatch", "executing"}
Claimable == {"pending", "retry"}
Waiting == {"waiting_permission", "waiting_session"}
Terminal == {"completed", "failed", "canceled"}
Live == {"processing", "retry"} \cup Waiting  \* a claimed row is continued
DeliveryStatus == {"absent", "processing"} \cup Claimable \cup Waiting \cup Terminal
QueueState == {"queueing", "queued"}
Ended == {"completed", "failed", "interrupted"}
TurnStatus == QueueState \cup Ended
                \cup {"null", "inProgress", "missing", "inactive",
                      "unconfirmed", "unavailable"}
NoWorker == [pc |-> "none", d |-> None, cont |-> None]
NoTool == [turn |-> None, r |-> None, st |-> "idle", by |-> None,
           writes |-> FALSE]
Idle == [pc |-> "idle", d |-> None, turn |-> None, ts |-> "null"]

-----------------------------------------------------------------------------
(* Reading the rows.                                                        *)

\* active_delivery_execution_in: the execution of d's card is active, bound
\* to turn t of d's session, and no newer snapshot s (age n) contradicts it.
ActiveIn(d, t, s, n) ==
  LET e == exec[RecordOf(d)] IN
  /\ e.st = "active" /\ e.s = SessionOf(d)
  /\ t # None /\ e.t = t
  /\ \/ s.st = "executing" /\ s.by \in {None, SessionOf(d)}
     \/ ~n
Active(d, t) == ActiveIn(d, t, snap[RecordOf(d)], newer[RecordOf(d)])

\* task_delivery_is_current: d's event is the one that dispatches the card.
CurrentIn(d, s) == s.st = "dispatch" /\ s.ev = EventOf(d)
Current(d) == CurrentIn(d, snap[RecordOf(d)])
\* ... and the role it is dispatched to still is the agent's.
WantedIn(d, s) == CurrentIn(d, s) /\ s.to = RoleOf[SessionOf(d)]
Wanted(d) == WantedIn(d, snap[RecordOf(d)])

\* The WHERE clause of stop_active_delivery_execution and of the rebind.
Bound(d, t) == /\ exec[RecordOf(d)].st = "active"
               /\ exec[RecordOf(d)].s = SessionOf(d)
               /\ exec[RecordOf(d)].t = t

Turns(d) == {t \in Turn : turnOf[t] = d}
Recorded(d) == {t \in Turns(d) : turnRow[t] # "absent"}
AckedWhenRecorded(t) == t # None /\ turnRow[t] # "absent"
Acked(t) == t # None /\ turnRow[t] = "acked"
Running(d) == {t \in Turns(d) : turnState[t] = "running"}
\* codex_turn_started, codex_turn_completed: what the rollout says of a turn.
Started(t) == t # None /\ rollout[t] # "none"
Completed(t) == t # None /\ rollout[t] = "task_complete"
RetryAvailable(d) == Cardinality(Recorded(d)) < MaxAcceptedTurns

(* Writing the rows.                                                        *)

FinishSwapped(d, st, ts) ==
  /\ status' = [status EXCEPT ![d] = ts]
  /\ turnStatus' = [turnStatus EXCEPT ![d] = st]
  /\ UNCHANGED <<turnId, hasMsg>>

\* finish_task_delivery: no condition on the row's present status.
Finish(d, st, ts) ==
  /\ status' = [status EXCEPT ![d] = st]
  /\ turnStatus' = [turnStatus EXCEPT ![d] = ts]
  /\ UNCHANGED <<turnId, hasMsg>>

\* stop_active_delivery_execution for delivery d and turn t.
StopExecution(d, t) ==
  /\ exec' = IF Bound(d, t)
             THEN [exec EXCEPT ![RecordOf(d)].st = "stopped"] ELSE exec
  /\ newer' = IF Bound(d, t)
              THEN [newer EXCEPT ![RecordOf(d)] = FALSE] ELSE newer
  /\ UNCHANGED <<card, snap>>

\* mark_task_delivery_turn_started; prev is None unless the execution must
\* be rebound from the previous turn.
CanStart(d, prev) == /\ status[d] = "processing"
                     /\ prev # None => turnId[d] = prev /\ Bound(d, prev)
MarkStarted(d, t, prev) ==
  /\ CanStart(d, prev)
  /\ turnId' = [turnId EXCEPT ![d] = t]
  /\ turnStatus' = [turnStatus EXCEPT ![d] = "inProgress"]
  /\ turnRow' = [turnRow EXCEPT ![t] = IF @ = "absent" THEN "recorded" ELSE @]
  /\ exec' = IF prev = None THEN exec
             ELSE [exec EXCEPT ![RecordOf(d)].t = t]
  /\ newer' = IF prev = None THEN newer
              ELSE [newer EXCEPT ![RecordOf(d)] = FALSE]
  /\ UNCHANGED <<card, snap, status, hasMsg>>

\* cancel_reconciled_task_delivery against a row read earlier (its turn and
\* turn status): the compare-and-swap, and what it writes when it succeeds.
CanCancel(d, t, ts, allow) ==
  /\ status[d] = "processing" /\ turnId[d] = t /\ turnStatus[d] = ts
  /\ allow \/ ~(exec[RecordOf(d)].st = "active"
                  /\ exec[RecordOf(d)].s = SessionOf(d))
CancelReconciled(d, t, ts, allow, newStatus) ==
  /\ CanCancel(d, t, ts, allow)
  /\ Finish(d, "canceled", newStatus)
  /\ IF allow /\ t # None THEN StopExecution(d, t) ELSE UNCHANGED board

-----------------------------------------------------------------------------
(* The board and the snapshots of it.                                       *)

\* save_task_snapshot of the card as it is, and the planner's new rows for
\* the agents of the target role.  `fresh`: a dispatch event is inserted.  A
\* card that left a dispatching state and came back between two snapshots may
\* not differ from the saved one, and an event read live has a key made of the
\* snapshot's hash, which an earlier event may have taken: only the first
\* dispatch of a card is certain to insert its event.
MustDispatch(r) == card[r].st = "dispatch" /\ snap[r].ev = 0
MayDispatch(r) == card[r].st = "dispatch" /\ card[r].n # snap[r].ev
NewSnap(r, fresh) ==
  [st |-> card[r].st, to |-> card[r].to, by |-> card[r].by,
   ev |-> IF fresh THEN card[r].n ELSE snap[r].ev]
Planned(r, fresh) ==
  [d \in Delivery |->
     IF /\ fresh /\ status[d] = "absent"
        /\ RecordOf(d) = r /\ EventOf(d) = card[r].n
        /\ RoleOf[SessionOf(d)] = card[r].to
     THEN "pending" ELSE status[d]]
Fresh(r, fresh) == /\ fresh => MayDispatch(r)
                   /\ MustDispatch(r) => fresh
Observe(r, fresh) ==
  /\ snap' = [snap EXCEPT ![r] = NewSnap(r, fresh)]
  /\ newer' = [newer EXCEPT ![r] = exec[r].st # "none"]
  /\ UNCHANGED <<card, exec>>

\* The event pipeline reads the card and saves what it sees.
SaveSnapshot(r) ==
  /\ daemon # "down"
  /\ \E fresh \in BOOLEAN : /\ Fresh(r, fresh)
                            /\ Observe(r, fresh)
                            /\ status' = Planned(r, fresh)
  /\ UNCHANGED <<turnId, turnStatus, hasMsg, codex, turnRow, worker, rec, calls,
                 daemon, crashes>>

\* Somebody edits the card on the board: it is dispatched to a role, parked,
\* finished, or dragged to the executing state.
Dispatched(r, role) == [st |-> "dispatch", to |-> role, by |-> None,
                        n |-> card[r].n + 1]
Moved(r, st, by) == [st |-> st, to |-> card[r].to, by |-> by, n |-> card[r].n]
EditCard(r) ==
  /\ \/ /\ card[r].n < MaxEvents
        /\ \E role \in Role : card' = [card EXCEPT ![r] = Dispatched(r, role)]
     \/ \E st \in CardState \ {"dispatch"} :
          card' = [card EXCEPT ![r] = Moved(r, st, None)]
  /\ UNCHANGED <<snap, newer, exec, rows, codex, turnRow, worker, rec, calls,
                 daemon, crashes>>

-----------------------------------------------------------------------------
(* The scheduler: DeliveryRuntime.consume, which runs recovery, schedule and *)
(* reconcile in one thread.                                                  *)

Consuming == daemon = "up" /\ rec = Idle
ReservedByWorker == {s \in Session : worker[s] # NoWorker}
Reserved == {s \in Session : worker[s] # NoWorker}
              \cup {SessionOf(d) : d \in {x \in Delivery : status[x] = "processing"}}

ClaimCancelsClaimed(d) ==
  /\ Consuming /\ status[d] \in Claimable
  /\ ~Wanted(d)
  /\ Finish(d, "canceled", turnStatus[d])
  /\ UNCHANGED <<board, codex, turnRow, worker, rec, calls, daemon, crashes>>

\* claim_task_deliveries: the row is no longer wanted.
ClaimCancels(d) ==
  /\ Consuming /\ status[d] \in Claimable
  /\ ~(status[d] = "retry" /\ Active(d, turnId[d]))
  /\ ~Wanted(d)
  /\ Finish(d, "canceled", turnStatus[d])
  /\ UNCHANGED <<board, codex, turnRow, worker, rec, calls, daemon, crashes>>

\* claim_task_deliveries: the row is taken and schedule starts its worker.  A
\* continuation keeps its turn id; a client message id already used for a
\* recorded turn is replaced.
Claim(d) ==
  LET cont == status[d] = "retry" /\ Active(d, turnId[d]) IN
  /\ Consuming /\ status[d] \in Claimable
  /\ cont \/ Wanted(d)
  /\ SessionOf(d) \notin Reserved
  /\ status' = [status EXCEPT ![d] = "processing"]
  /\ turnId' = [turnId EXCEPT ![d] = IF cont THEN @ ELSE None]
  /\ turnStatus' = [turnStatus EXCEPT ![d] = "null"]
  /\ hasMsg' = [hasMsg EXCEPT ![d] = TRUE]
  /\ msgTurn' = [msgTurn EXCEPT
                   ![d] = IF hasMsg[d] /\ turnId[d] = None THEN @ ELSE None]
  /\ worker' = [worker EXCEPT
                  ![SessionOf(d)] = [pc |-> "prepare", d |-> d,
                                     cont |-> IF cont THEN turnId[d] ELSE None]]
  /\ UNCHANGED <<board, transit, turnState, turnOf, rollout, gone, orphan, turnRow, rec,
                 calls, daemon, crashes>>

-----------------------------------------------------------------------------
(* A worker: DeliveryRuntime.execute for the delivery worker[s].d.          *)

At(s, pc) == worker[s].pc = pc
Exit(s) == worker' = [worker EXCEPT ![s] = NoWorker]
\* clear_task_delivery_queueing before the row is finished.
Cleared(d) == IF turnStatus[d] = "queueing" THEN "null" ELSE turnStatus[d]

\* The worker reads the card, saves the snapshot and decides.  The read may
\* fail; a stale dispatch is canceled; without permission for the background
\* tools the delivery waits; otherwise it is marked queueing.  A continuation
\* that lost its execution is to be canceled, but the compare-and-swap is given
\* the status of the row before it was claimed ("retry"), so it never succeeds
\* and the row is left to the reconciler.
PrepareFails(s) ==
  /\ At(s, "prepare")
  /\ Finish(worker[s].d, "retry", turnStatus[worker[s].d])
  /\ Exit(s)
  /\ UNCHANGED <<board, codex, turnRow, rec, calls, daemon, crashes>>

Prepare(s) ==
  LET d == worker[s].d  r == RecordOf(d)  cont == worker[s].cont IN
  /\ At(s, "prepare")
  /\ \E fresh \in BOOLEAN :
       LET sn == NewSnap(r, fresh)
           goOn == IF cont # None THEN ActiveIn(d, cont, sn, exec[r].st # "none")
                   ELSE WantedIn(d, sn)
           planned == Planned(r, fresh)
       IN  /\ Fresh(r, fresh)
           /\ Observe(r, fresh)
           /\ \/ /\ ~goOn /\ cont # None
                 /\ status' = planned /\ UNCHANGED turnStatus
                 /\ Exit(s)
              \/ /\ ~goOn /\ cont = None
                 /\ status' = [planned EXCEPT ![d] = "canceled"]
                 /\ UNCHANGED turnStatus
                 /\ Exit(s)
              \/ /\ goOn
                 /\ status' = [planned EXCEPT ![d] = "waiting_permission"]
                 /\ UNCHANGED turnStatus
                 /\ Exit(s)
              \/ /\ goOn
                 /\ status' = planned
                 /\ turnStatus' = [turnStatus EXCEPT ![d] = "queueing"]
                 /\ worker' = [worker EXCEPT ![s].pc = "send"]
  /\ UNCHANGED <<turnId, hasMsg, codex, turnRow, rec, calls, daemon, crashes>>

\* run_turn fails before anything was sent, or the owner rejects the turn: the
\* permission is gone, no owner has the session loaded, or any other error;
\* only a session that no longer exists is a terminal one.
SendFails(s, outcome) ==
  /\ At(s, "send")
  /\ outcome = "failed" <=> s \in gone
  /\ Finish(worker[s].d, outcome, Cleared(worker[s].d))
  /\ Exit(s)
  /\ UNCHANGED <<board, codex, turnRow, rec, calls, daemon, crashes>>

\* The request is sent and no answer comes: CodexTurnAcceptanceUnknown.  The
\* owner may still take it up, or it is lost.
SendUnanswered(s) ==
  /\ At(s, "send") /\ s \notin gone
  /\ transit' = transit \cup {worker[s].d}
  /\ Exit(s)
  /\ UNCHANGED <<board, rows, msgTurn, turnState, turnOf, rollout, gone, orphan, turnRow,
                 rec, calls, daemon, crashes>>

\* Codex starts a turn for the client message of delivery d.
Unused == {t \in Turn : turnState[t] = "none"}
Accept(d) ==
  LET t == CHOOSE x \in Unused : TRUE IN
  /\ Unused # {} /\ SessionOf(d) \notin gone
  /\ turnState' = [turnState EXCEPT ![t] = "running"]
  /\ turnOf' = [turnOf EXCEPT ![t] = d]
  /\ msgTurn' = [msgTurn EXCEPT ![d] = t]
  /\ UNCHANGED <<rollout, gone, orphan>>

SendAccepted(s) ==
  /\ At(s, "send")
  /\ Accept(worker[s].d)
  /\ worker' = [worker EXCEPT ![s].pc = "accepted"]
  /\ UNCHANGED <<board, rows, transit, turnRow, rec, calls, daemon, crashes>>

\* The owner takes up, or drops, a request whose sender gave up on it.
LateAccept(d) ==
  /\ d \in transit
  /\ Accept(d)
  /\ transit' = transit \ {d}
  /\ UNCHANGED <<board, rows, turnRow, worker, rec, calls, daemon, crashes>>

DropRequest(d) ==
  /\ d \in transit
  /\ transit' = transit \ {d}
  /\ UNCHANGED <<board, rows, msgTurn, turnState, turnOf, rollout, gone, orphan, turnRow,
                 worker, rec, calls, daemon, crashes>>

\* The turn was accepted and the answer with its id is lost.
AnswerLost(s) ==
  /\ At(s, "accepted")
  /\ Exit(s)
  /\ UNCHANGED <<board, rows, codex, turnRow, rec, calls, daemon, crashes>>

\* A malformed frame arrives before the answer: a ValueError, taken for an
\* error before anything was sent.
AnswerMalformed(s) ==
  /\ "badFrame" \in Races /\ At(s, "accepted")
  /\ Finish(worker[s].d, "retry", Cleared(worker[s].d))
  /\ Exit(s)
  /\ UNCHANGED <<board, codex, turnRow, rec, calls, daemon, crashes>>

\* save_turn: the accepted turn is recorded; a continuation takes over the
\* execution in the same transaction.
SaveTurn(s) ==
  LET d == worker[s].d IN
  /\ At(s, "accepted")
  /\ MarkStarted(d, msgTurn[d], worker[s].cont)
  /\ worker' = [worker EXCEPT ![s].pc = "running"]
  /\ UNCHANGED <<codex, rec, calls, daemon, crashes>>

\* save_turn raises because the execution changed hands: the error counts as
\* one before the turn started, and the delivery is retried.
SaveTurnFails(s) ==
  LET d == worker[s].d IN
  /\ At(s, "accepted")
  /\ ~CanStart(d, worker[s].cont)
  /\ Finish(d, "retry", Cleared(d))
  /\ Exit(s)
  /\ orphan' = orphan \cup {msgTurn[d]}
  /\ UNCHANGED <<board, msgTurn, transit, turnState, turnOf, rollout, gone, turnRow, rec, calls, daemon, crashes>>

\* The owner, the connection or the daemon goes away while the turn runs, or
\* the turn is reported interrupted without a task_complete in its rollout: the
\* row stays processing and is left to the reconciler.
LoseTurn(s) ==
  /\ At(s, "running")
  /\ Exit(s)
  /\ UNCHANGED <<board, rows, codex, turnRow, rec, calls, daemon, crashes>>

\* What becomes of a delivery whose turn t ended with state st, when its card
\* is not claimed: an interrupted turn is repeated while attempts remain.
AfterTurn(d, st) ==
  IF st = "completed" THEN "completed"
  ELSE IF st = "interrupted" /\ RetryAvailable(d) /\ Current(d) THEN "retry"
  ELSE "failed"

\* The worker sees its turn end.  Claimed work is continued, not consumed.
FinishTurn(s) ==
  LET d == worker[s].d  t == turnId[d]  st == turnState[t] IN
  /\ At(s, "running")
  /\ st \in Ended
  /\ st = "interrupted" => Completed(t)
  /\ Finish(d, IF Active(d, t) THEN "retry" ELSE AfterTurn(d, st), st)
  /\ Exit(s)
  /\ UNCHANGED <<board, codex, turnRow, rec, calls, daemon, crashes>>

-----------------------------------------------------------------------------
(* The reconciler: DeliveryRuntime.reconcile, for one processing row at a   *)
(* time.  rec.turn and rec.ts are the row as it was read: by the time the   *)
(* session is found to have no worker, that worker may have finished it.    *)
(* "visit": the row and the rollout decide; "thread": Codex was asked.      *)

SeeingAnyWorker(d, pcs) == rec.pc \in pcs /\ rec.d = d
Seeing(d, pcs) == rec.pc \in pcs /\ rec.d = d /\ worker[SessionOf(d)] = NoWorker
Done == rec' = Idle
LeaveTurns == UNCHANGED <<codex, turnRow, worker, calls, daemon, crashes>>
Defer == Done /\ UNCHANGED <<board, rows>> /\ LeaveTurns
ReconcileAs(d, st, ts) == /\ Finish(d, st, ts) /\ Done
                          /\ UNCHANGED board /\ LeaveTurns
QueuedRow == rec.ts \in QueueState
Claimed(d) == Active(d, rec.turn)

\* due_processing_task_deliveries; a session with a worker is passed over.
Visit(d) ==
  /\ Consuming /\ status[d] = "processing" /\ hasMsg[d]
  /\ "staleRow" \in Races \/ worker[SessionOf(d)] = NoWorker
  /\ rec' = [pc |-> "visit", d |-> d, turn |-> turnId[d], ts |-> turnStatus[d]]
  /\ UNCHANGED <<board, rows>> /\ LeaveTurns

\* The session has a worker, or there is nothing to decide yet: the rollout
\* shows the turn running, the thread is active, the lease still runs, or the
\* turn must not be duplicated without evidence of its end.
Pass == rec.pc \in {"visit", "thread"} /\ Defer

\* A turn the row does not know is recorded, and the execution the previous
\* turn holds is rebound to it.
Adopt(d, t) ==
  /\ MarkStarted(d, t, IF Claimed(d) THEN rec.turn ELSE None)
  /\ UNCHANGED <<codex, worker, calls, daemon, crashes>>

\* The client message of an uncertain row is found in the rollout; the visit
\* goes on with its turn.
Materialize(d) ==
  /\ Seeing(d, {"visit"}) /\ QueuedRow
  /\ Current(d) \/ Claimed(d)
  /\ Started(msgTurn[d])
  /\ Adopt(d, msgTurn[d])
  /\ rec' = [rec EXCEPT !.turn = msgTurn[d], !.ts = "inProgress"]

\* A tool call of this turn touched the card, and the card is not claimed.
Answered(d) == Acked(rec.turn) /\ ~Claimed(d)

ReadThreadUnstarted(d) ==
  /\ Seeing(d, {"visit"}) /\ ~QueuedRow /\ ~Answered(d)
  /\ ~Started(rec.turn)
  /\ rec' = [rec EXCEPT !.pc = "thread"]
  /\ UNCHANGED <<board, rows>> /\ LeaveTurns

\* read_thread, unless the turn is answered or the rollout shows it running.
ReadThread(d) ==
  /\ Seeing(d, {"visit"}) /\ ~QueuedRow /\ ~Answered(d)
  /\ Started(rec.turn) => Completed(rec.turn)
  /\ rec' = [rec EXCEPT !.pc = "thread"]
  /\ UNCHANGED <<board, rows>> /\ LeaveTurns

(* _reconcile_unconfirmed_turn, on a fresh read of the row: an uncertain row *)
(* that has no turn yet, or one the thread says nothing conclusive about.    *)

Unconfirmed(d) ==
  /\ Seeing(d, {"visit", "thread"})
  /\ rec.pc = "visit" => QueuedRow
  /\ status[d] = "processing"
Uncertain(d) == turnStatus[d] \in QueueState
StillWanted(d) == Current(d) \/ (Uncertain(d) /\ Active(d, turnId[d]))

\* The lease ran out and Codex has the message in its queue.
NoticeQueued(d) ==
  /\ Unconfirmed(d) /\ turnStatus[d] = "queueing"
  /\ StillWanted(d) /\ d \in transit
  /\ ReconcileAs(d, "processing", "queued")

\* A claimed turn whose rollout is complete is continued.
ContinueUnconfirmed(d) ==
  /\ Unconfirmed(d) /\ ~Uncertain(d)
  /\ Active(d, turnId[d]) /\ Completed(turnId[d])
  /\ ReconcileAs(d, "retry", "completed")

\* The card moved on while acceptance was uncertain: cancel, then withdraw the
\* message or stop the turn it became.
CancelUncertain(d) ==
  /\ Unconfirmed(d) /\ Uncertain(d) /\ ~StillWanted(d)
  /\ CancelReconciled(d, turnId[d], turnStatus[d], FALSE, "missing")
  /\ rec' = [rec EXCEPT !.pc = "withdraw"]
  /\ LeaveTurns

CancelUnconfirmed(d) ==
  /\ Unconfirmed(d) /\ ~Uncertain(d)
  /\ ~Active(d, turnId[d]) /\ ~Current(d)
  /\ CancelReconciled(d, turnId[d], turnStatus[d], Completed(turnId[d]), "missing")
  /\ Done
  /\ LeaveTurns

ResetUncertain(d) ==
  /\ Unconfirmed(d) /\ turnId[d] = None /\ Current(d)
  /\ status' = [status EXCEPT ![d] = "retry"]
  /\ turnStatus' = [turnStatus EXCEPT ![d] = "unconfirmed"]
  /\ hasMsg' = [hasMsg EXCEPT ![d] = FALSE]
  /\ Done
  /\ UNCHANGED <<board, turnId>> /\ LeaveTurns

\* A row that was claimed but never got as far as queueing is sent again, under
\* a new client message id.
ResetUnsent(d) ==
  /\ Unconfirmed(d) /\ ~Uncertain(d)
  /\ turnId[d] = None /\ Current(d)
  /\ status' = [status EXCEPT ![d] = "retry"]
  /\ turnStatus' = [turnStatus EXCEPT ![d] = "unconfirmed"]
  /\ hasMsg' = [hasMsg EXCEPT ![d] = FALSE]
  /\ Done
  /\ UNCHANGED <<board, turnId>> /\ LeaveTurns

\* The thread shows the turn of the row.
Seen(d) == /\ Seeing(d, {"thread"}) /\ SessionOf(d) \notin gone
           /\ rec.turn # None /\ msgTurn[d] = rec.turn

\* _finish_acknowledged_turn, from the row, the thread or the fresh row.
FinishAcknowledged(d) ==
  /\ \/ Seeing(d, {"visit"}) /\ ~QueuedRow /\ Answered(d)
     \/ /\ Seen(d) /\ Answered(d)
        /\ turnState[rec.turn] = "completed" \/ Completed(rec.turn)
     \/ /\ Unconfirmed(d) /\ ~Uncertain(d) /\ Current(d)
        /\ ~Active(d, turnId[d]) /\ Acked(turnId[d]) /\ Completed(turnId[d])
  /\ ReconcileAs(d, "completed", "completed")

(* What the thread shows, decided on the row as it was read.                *)

\* read_thread finds the session permanently unavailable.
FailClaimed(d) ==
  /\ Seeing(d, {"thread"}) /\ SessionOf(d) \in gone /\ Claimed(d)
  /\ status[d] = "processing" /\ turnId[d] = rec.turn
  /\ Finish(d, "failed", "unavailable")
  /\ StopExecution(d, rec.turn)
  /\ Done
  /\ LeaveTurns
FailUnavailable(d) ==
  /\ Seeing(d, {"thread"}) /\ SessionOf(d) \in gone /\ ~Claimed(d)
  /\ ReconcileAs(d, "failed", turnStatus[d])

\* The thread holds a turn for the client message that the row does not know.
RecordFound(d) ==
  /\ Seeing(d, {"thread"}) /\ SessionOf(d) \notin gone
  /\ msgTurn[d] # None /\ msgTurn[d] # rec.turn
  /\ Adopt(d, msgTurn[d])
  /\ rec' = [rec EXCEPT !.turn = msgTurn[d]]

\* The turn ended; an interrupted snapshot of it counts once the rollout is
\* complete.
SeenEnded(d) == /\ Seen(d) /\ turnState[rec.turn] \in Ended
                /\ turnState[rec.turn] = "interrupted" => Completed(rec.turn)
ReconcileClaimed(d) ==
  /\ SeenEnded(d) /\ Claimed(d)
  /\ ReconcileAs(d, "retry", turnState[rec.turn])
\* The notification is consumed, unless a TeamFlow call of the turn failed
\* because the daemon was away.
ReconcileCompleted(d) ==
  /\ SeenEnded(d) /\ ~Claimed(d) /\ turnState[rec.turn] = "completed"
  /\ \E st \in {"completed", "retry"} : ReconcileAs(d, st, "completed")
ReconcileFailed(d) ==
  /\ SeenEnded(d) /\ ~Claimed(d) /\ turnState[rec.turn] # "completed"
  /\ Current(d)
  /\ ReconcileAs(d, AfterTurn(d, turnState[rec.turn]), turnState[rec.turn])
ReconcileStale(d) ==
  /\ SeenEnded(d) /\ ~Claimed(d) /\ turnState[rec.turn] # "completed"
  /\ ~Current(d)
  /\ CancelReconciled(d, rec.turn, rec.ts, TRUE, turnState[rec.turn])
  /\ Done
  /\ LeaveTurns

\* The turn runs for a card that moved on and is not claimed: stop it, then
\* cancel the row, and with it an execution the turn may have won meanwhile.
BeginStop(d) ==
  /\ Seen(d) /\ turnState[rec.turn] = "running"
  /\ ~Claimed(d) /\ ~Current(d)
  /\ rec' = [rec EXCEPT !.pc = "stop"]
  /\ UNCHANGED <<board, rows>> /\ LeaveTurns

Interrupt(t, done) ==
  /\ "lateTool" \in Races \/ \A s \in Session : tool[s].turn # t
  /\ turnState' = [turnState EXCEPT ![t] = IF @ = "running" THEN "interrupted" ELSE @]
  /\ rollout' = IF done /\ turnState[t] = "running"
                THEN [rollout EXCEPT ![t] = "task_complete"] ELSE rollout
  /\ UNCHANGED <<msgTurn, transit, turnOf, gone, orphan>>

StopTurn ==
  /\ rec.pc = "stop"
  /\ \E done \in BOOLEAN : Interrupt(rec.turn, done)
  /\ rec' = [rec EXCEPT !.pc = "cancel"]
  /\ UNCHANGED <<board, rows, turnRow, worker, calls, daemon, crashes>>

StopTurnFails == rec.pc = "stop" /\ Defer

CancelStopped ==
  /\ rec.pc = "cancel"
  /\ \E ts \in {"interrupted", "inactive"} :
       CancelReconciled(rec.d, rec.turn, rec.ts, TRUE, ts)
  /\ Done
  /\ LeaveTurns

CancelStoppedFails ==
  /\ rec.pc = "cancel"
  /\ ~CanCancel(rec.d, rec.turn, rec.ts, TRUE)
  /\ Defer

\* cancel_queued_message, else stop_turn on the materialized turn; neither need
\* succeed.
Withdraw ==
  /\ rec.pc = "withdraw"
  /\ \/ rec.d \in transit /\ transit' = transit \ {rec.d}
        /\ UNCHANGED <<msgTurn, turnState, turnOf, rollout, gone, orphan>>
     \/ /\ Started(msgTurn[rec.d])
        /\ \E done \in BOOLEAN : Interrupt(msgTurn[rec.d], done)
     \/ UNCHANGED codex
  /\ Done
  /\ UNCHANGED <<board, rows, turnRow, worker, calls, daemon, crashes>>

-----------------------------------------------------------------------------
(* Waiting deliveries, crash and restart.                                   *)

\* The background tools are authorized again.
ResumePermission ==
  /\ Consuming
  /\ \E d \in Delivery : status[d] = "waiting_permission"
  /\ status' = [d \in Delivery |-> IF status[d] = "waiting_permission"
                                   THEN "retry" ELSE status[d]]
  /\ UNCHANGED <<board, turnId, turnStatus, hasMsg, codex, turnRow, worker, rec,
                 calls, daemon, crashes>>

\* A probe thread finds an owner for session s.
OwnerFoundFailed(s) ==
  /\ daemon = "up" /\ s \notin gone
  /\ \E d \in Delivery : status[d] = "waiting_session" /\ SessionOf(d) = s
  /\ status' = [d \in Delivery |->
                  IF status[d] \in {"waiting_session", "failed"} /\ SessionOf(d) = s
                  THEN "retry" ELSE status[d]]
  /\ UNCHANGED <<board, turnId, turnStatus, hasMsg, codex, turnRow, worker, rec,
                 calls, daemon, crashes>>
OwnerFound(s) ==
  /\ daemon = "up" /\ s \notin gone
  /\ \E d \in Delivery : status[d] = "waiting_session" /\ SessionOf(d) = s
  /\ status' = [d \in Delivery |->
                  IF status[d] = "waiting_session" /\ SessionOf(d) = s
                  THEN "retry" ELSE status[d]]
  /\ UNCHANGED <<board, turnId, turnStatus, hasMsg, codex, turnRow, worker, rec,
                 calls, daemon, crashes>>

Crash ==
  /\ daemon # "down" /\ crashes < MaxCrashes
  /\ daemon' = "down"
  /\ crashes' = crashes + 1
  /\ worker' = [s \in Session |-> NoWorker]
  /\ rec' = Idle
  /\ tool' = [s \in Session |-> NoTool]
  /\ stopCall' = [r \in Record |-> None]
  /\ UNCHANGED <<board, rows, codex, turnRow>>

RestartAnyStatus ==
  /\ daemon = "down"
  /\ daemon' = "starting"
  /\ status' = [d \in Delivery |->
                  IF status[d] # "absent" /\ turnId[d] = None /\ ~hasMsg[d]
                  THEN "pending" ELSE status[d]]
  /\ UNCHANGED <<board, turnId, turnStatus, hasMsg, codex, turnRow, worker, rec,
                 calls, crashes>>

\* recover_task_deliveries: rows taken before client message ids existed start
\* over; every other processing row is due for reconciliation.
Restart ==
  /\ daemon = "down"
  /\ daemon' = "starting"
  /\ status' = [d \in Delivery |->
                  IF status[d] = "processing" /\ turnId[d] = None /\ ~hasMsg[d]
                  THEN "pending" ELSE status[d]]
  /\ UNCHANGED <<board, turnId, turnStatus, hasMsg, codex, turnRow, worker, rec,
                 calls, crashes>>

\* The first pass of consume: recover_retryable_failed_task_deliveries and
\* recover_waiting_sessions_for_queue.
Retryable(d) == /\ status[d] = "failed"
                /\ turnStatus[d] \in {"interrupted", "unconfirmed"}
Recover ==
  /\ daemon = "starting"
  /\ daemon' = "up"
  /\ status' = [d \in Delivery |->
                  CASE Retryable(d) /\ ~Current(d) -> "canceled"
                    [] /\ Retryable(d) /\ Current(d)
                       /\ RetryAvailable(d) /\ ~Active(d, turnId[d]) -> "retry"
                    [] status[d] = "waiting_session" -> "retry"
                    [] OTHER -> status[d]]
  /\ LET stops(r) == \E d \in Delivery : /\ RecordOf(d) = r /\ Retryable(d)
                                         /\ ~Current(d) /\ turnId[d] # None
                                         /\ Bound(d, turnId[d])
     IN  /\ exec' = [r \in Record |-> IF stops(r) THEN [exec[r] EXCEPT !.st = "stopped"]
                                      ELSE exec[r]]
         /\ newer' = [r \in Record |-> newer[r] /\ ~stops(r)]
  /\ UNCHANGED <<card, snap, turnId, turnStatus, hasMsg, codex, turnRow, worker,
                 rec, calls, crashes>>

-----------------------------------------------------------------------------
(* Codex and the agents in it.                                              *)

\* A turn ends.  Only task_complete in the rollout counts as completion; an
\* interrupted turn may leave turn_aborted instead.
EndTurn(t) ==
  /\ turnState[t] = "running"
  /\ "lateTool" \in Races \/ \A s \in Session : tool[s].turn # t
  /\ \E st \in Ended, done \in BOOLEAN :
       /\ ~done => st = "interrupted"
       /\ turnState' = [turnState EXCEPT ![t] = st]
       /\ rollout' = IF done THEN [rollout EXCEPT ![t] = "task_complete"] ELSE rollout
  /\ UNCHANGED <<board, rows, msgTurn, transit, turnOf, gone, orphan, turnRow, worker, rec,
                 calls, daemon, crashes>>

\* Codex writes task_started to the rollout, some time after the turn began.
LogStart(t) ==
  /\ turnState[t] # "none" /\ rollout[t] = "none"
  /\ SessionOf(turnOf[t]) \notin gone
  /\ rollout' = [rollout EXCEPT ![t] = "task_started"]
  /\ UNCHANGED <<board, rows, msgTurn, transit, turnState, turnOf, gone, orphan,
                 turnRow, worker, rec, calls, daemon, crashes>>

\* A session is deleted in Codex, with its rollout and whatever runs or waits
\* in it.
DeleteSession(s) ==
  /\ s \in Deletable \ gone
  /\ gone' = gone \cup {s}
  /\ turnState' = [t \in Turn |->
                     IF turnState[t] = "running" /\ SessionOf(turnOf[t]) = s
                     THEN "interrupted" ELSE turnState[t]]
  /\ rollout' = [t \in Turn |->
                   IF turnState[t] # "none" /\ SessionOf(turnOf[t]) = s
                   THEN "none" ELSE rollout[t]]
  /\ transit' = {d \in transit : SessionOf(d) # s}
  /\ tool' = [tool EXCEPT ![s] = NoTool]
  /\ UNCHANGED <<board, rows, msgTurn, turnOf, orphan, turnRow, worker, rec,
                 stopCall, daemon, crashes>>

\* A mutating TeamFlow tool writes the card.  The workspace's task lock keeps
\* a second one out until the first has synchronized the execution row.
Writing == \E s \in Session : tool[s].writes
Call(s, t, r, writes) ==
  tool' = [tool EXCEPT ![s] = [turn |-> t, r |-> r, st |-> card'[r].st,
                               by |-> card'[r].by, writes |-> writes]]

WriteCard(t, r) ==
  LET s == SessionOf(turnOf[t]) IN
  /\ daemon # "down" /\ turnState[t] = "running"
  /\ ~Writing /\ tool[s] = NoTool
  /\ \/ /\ card[r].st = "dispatch" /\ card[r].to = RoleOf[s]
        /\ card' = [card EXCEPT ![r] = Moved(r, "executing", s)]
     \/ /\ card[r].st = "executing" /\ card[r].by = s
        /\ \/ card' = [card EXCEPT ![r] = Moved(r, "idle", None)]
           \/ /\ card[r].n < MaxEvents
              /\ \E role \in Role : card' = [card EXCEPT ![r] = Dispatched(r, role)]
     \/ UNCHANGED card
  /\ Call(s, t, r, TRUE)
  /\ UNCHANGED <<snap, newer, exec, rows, codex, turnRow, worker, rec, stopCall, daemon, crashes>>

\* A read-only tool, by a delivered turn or by one a user started.  It takes no
\* lock, so the card may change between the read and the synchronization.
ReadCard(s, t, r) ==
  /\ "staleRead" \in Races
  /\ daemon # "down" /\ tool[s] = NoTool
  /\ t # None => turnState[t] = "running" /\ SessionOf(turnOf[t]) = s
  /\ t = None => card[r].by # s
  /\ UNCHANGED card
  /\ Call(s, t, r, FALSE)
  /\ UNCHANGED <<snap, newer, exec, rows, codex, turnRow, worker, rec, stopCall, daemon, crashes>>

\* sync_activity and acknowledge_task_delivery_turn, with the card as the tool
\* read or wrote it.
SyncTool(s) ==
  LET c == tool[s]  r == c.r IN
  /\ c # NoTool
  /\ tool' = [tool EXCEPT ![s] = NoTool]
  /\ exec' = [exec EXCEPT ![r] =
                IF c.st = "executing" /\ c.by = s
                THEN [st |-> "active", s |-> s, t |-> c.turn]
                ELSE IF c.st # "executing"
                THEN [st |-> "none", s |-> None, t |-> None] ELSE @]
  /\ newer' = [newer EXCEPT ![r] = @ /\ c.st = "executing" /\ c.by # s]
  /\ turnRow' = [t \in Turn |->
                   IF /\ c.writes /\ t = c.turn /\ turnRow[t] = "recorded"
                      /\ \E d \in Delivery : /\ status[d] = "processing"
                                             /\ turnId[d] = t /\ SessionOf(d) = s
                                             /\ RecordOf(d) = r
                   THEN "acked" ELSE turnRow[t]]
  /\ UNCHANGED <<card, snap, rows, codex, worker, rec, stopCall, daemon, crashes>>

\* stop_task_execution: the coordinator has Codex interrupt the executing turn
\* (which may have ended by itself), and then records the stop unless the card
\* or the execution changed meanwhile.  A stop that fails changes nothing.
InterruptTask(r) ==
  /\ daemon # "down" /\ stopCall[r] = None
  /\ card[r].st = "executing" /\ exec[r].st = "active" /\ exec[r].s = card[r].by
  /\ exec[r].t # None /\ exec[r].s \notin gone
  /\ \E done \in BOOLEAN : Interrupt(exec[r].t, done)
  /\ stopCall' = [stopCall EXCEPT ![r] = exec[r].t]
  /\ UNCHANGED <<board, rows, turnRow, worker, rec, tool, daemon, crashes>>

RecordStop(r) ==
  LET t == stopCall[r]  s == SessionOf(turnOf[t])
      stops == /\ card[r].st = "executing" /\ card[r].by = s
               /\ exec[r] = [st |-> "active", s |-> s, t |-> t]
  IN  /\ t # None
      /\ stopCall' = [stopCall EXCEPT ![r] = None]
      /\ exec' = IF stops THEN [exec EXCEPT ![r].st = "stopped"] ELSE exec
      /\ newer' = IF stops THEN [newer EXCEPT ![r] = FALSE] ELSE newer
      /\ UNCHANGED <<card, snap, rows, codex, turnRow, worker, rec, tool, daemon,
                     crashes>>

-----------------------------------------------------------------------------
Init ==
  /\ card = [r \in Record |-> [st |-> "idle", to |-> CHOOSE x \in Role : TRUE,
                               by |-> None, n |-> 0]]
  /\ snap = [r \in Record |-> [st |-> "idle", to |-> CHOOSE x \in Role : TRUE,
                               by |-> None, ev |-> 0]]
  /\ newer = [r \in Record |-> FALSE]
  /\ exec = [r \in Record |-> [st |-> "none", s |-> None, t |-> None]]
  /\ status = [d \in Delivery |-> "absent"]
  /\ turnId = [d \in Delivery |-> None]
  /\ turnStatus = [d \in Delivery |-> "null"]
  /\ hasMsg = [d \in Delivery |-> FALSE]
  /\ msgTurn = [d \in Delivery |-> None]
  /\ transit = {}
  /\ turnRow = [t \in Turn |-> "absent"]
  /\ turnState = [t \in Turn |-> "none"]
  /\ turnOf = [t \in Turn |-> None]
  /\ rollout = [t \in Turn |-> "none"]
  /\ gone = {}
  /\ orphan = {}
  /\ worker = [s \in Session |-> NoWorker]
  /\ rec = Idle
  /\ tool = [s \in Session |-> NoTool]
  /\ stopCall = [r \in Record |-> None]
  /\ daemon = "up"
  /\ crashes = 0

WorkerStep(s) ==
  \/ PrepareFails(s) \/ Prepare(s)
  \/ \E outcome \in Waiting \cup {"retry", "failed"} : SendFails(s, outcome)
  \/ SendUnanswered(s) \/ SendAccepted(s) \/ AnswerLost(s) \/ AnswerMalformed(s)
  \/ SaveTurn(s) \/ SaveTurnFails(s) \/ LoseTurn(s) \/ FinishTurn(s)

ReconcileStep(d) ==
  \/ Visit(d) \/ Materialize(d) \/ FinishAcknowledged(d) \/ ReadThread(d)
  \/ NoticeQueued(d) \/ ContinueUnconfirmed(d) \/ CancelUncertain(d)
  \/ CancelUnconfirmed(d) \/ ResetUnsent(d)
  \/ RecordFound(d) \/ FailClaimed(d) \/ FailUnavailable(d)
  \/ ReconcileClaimed(d) \/ ReconcileCompleted(d) \/ ReconcileFailed(d)
  \/ ReconcileStale(d) \/ BeginStop(d)

ReconcilerStep ==
  \/ Pass \/ StopTurn \/ StopTurnFails \/ CancelStopped \/ CancelStoppedFails
  \/ Withdraw

Next ==
  \/ \E r \in Record : SaveSnapshot(r) \/ EditCard(r) \/ InterruptTask(r) \/ RecordStop(r)
  \/ \E d \in Delivery : ClaimCancels(d) \/ Claim(d) \/ ReconcileStep(d)
                           \/ LateAccept(d) \/ DropRequest(d)
  \/ \E s \in Session : WorkerStep(s) \/ OwnerFound(s) \/ SyncTool(s) \/ DeleteSession(s)
  \/ ReconcilerStep
  \/ ResumePermission \/ Crash \/ Restart \/ Recover
  \/ \E t \in Turn : EndTurn(t) \/ LogStart(t)
  \/ \E t \in Turn, r \in Record : WriteCard(t, r)
  \/ \E s \in Session, t \in Turn \cup {None}, r \in Record : ReadCard(s, t, r)

Spec == Init /\ [][Next]_vars

\* The daemon's threads keep running, a crashed daemon is started again, and
\* Codex, asked often enough, answers with what its rollout and its thread hold.
Decide(d) ==
  \/ FinishAcknowledged(d) \/ FailClaimed(d) \/ FailUnavailable(d)
  \/ ReconcileClaimed(d) \/ ReconcileCompleted(d) \/ ReconcileFailed(d)
  \/ ReconcileStale(d) \/ ContinueUnconfirmed(d)
Fairness ==
  /\ \A s \in Session : WF_vars(WorkerStep(s))
  /\ WF_vars(ReconcilerStep) /\ WF_vars(Restart) /\ WF_vars(Recover)
  /\ \A d \in Delivery : SF_vars(Visit(d)) /\ SF_vars(ReadThread(d)) /\ SF_vars(Decide(d))
FairSpec == Spec /\ Fairness

-----------------------------------------------------------------------------
(* Properties.                                                              *)

BoardOK ==
  /\ card \in [Record -> [st : CardState, to : Role, by : Session \cup {None},
                          n : 0..MaxEvents]]
  /\ snap \in [Record -> [st : CardState, to : Role, by : Session \cup {None},
                          ev : 0..MaxEvents]]
  /\ newer \in [Record -> BOOLEAN]
  /\ exec \in [Record -> [st : {"none", "active", "stopped"},
                          s : Session \cup {None}, t : Turn \cup {None}]]
RowsOK ==
  /\ status \in [Delivery -> DeliveryStatus]
  /\ turnId \in [Delivery -> Turn \cup {None}]
  /\ turnStatus \in [Delivery -> TurnStatus]
  /\ hasMsg \in [Delivery -> BOOLEAN]
CodexOK ==
  /\ msgTurn \in [Delivery -> Turn \cup {None}]
  /\ transit \subseteq Delivery
  /\ turnState \in [Turn -> {"none", "running"} \cup Ended]
  /\ turnOf \in [Turn -> Delivery \cup {None}]
  /\ rollout \in [Turn -> {"none", "task_started", "task_complete"}]
  /\ gone \subseteq Session /\ orphan \subseteq Turn
CallsOK ==
  /\ tool \in [Session -> [turn : Turn \cup {None}, r : Record \cup {None},
                           st : CardState, by : Session \cup {None},
                           writes : BOOLEAN]]
  /\ stopCall \in [Record -> Turn \cup {None}]
DaemonOK ==
  /\ turnRow \in [Turn -> {"absent", "recorded", "acked"}]
  /\ worker \in [Session -> [pc : {"none", "prepare", "send", "accepted", "running"},
                             d : Delivery \cup {None}, cont : Turn \cup {None}]]
  /\ rec \in [pc : {"idle", "visit", "thread", "stop", "cancel", "withdraw"},
              d : Delivery \cup {None}, turn : Turn \cup {None}, ts : TurnStatus]
  /\ daemon \in {"up", "down", "starting"}
  /\ crashes \in 0..MaxCrashes

\* Every row, execution and turn holds a value its column can hold.
TypeOK == BoardOK /\ RowsOK /\ CodexOK /\ CallsOK /\ DaemonOK

Processing(s) == {d \in Delivery : SessionOf(d) = s /\ status[d] = "processing"}

\* claim_task_deliveries never hands a session a second delivery while one of
\* its rows is processing, whichever way the worker of that row ended (answer
\* lost, daemon crashed, reconciliation pending), and a worker's own row is not
\* taken away from it by the reconciler.
SessionExclusive ==
  \A s \in Session :
    /\ \A d, e \in Processing(s) : d = e
    /\ worker[s] # NoWorker => worker[s].d \in Processing(s)

\* A delivery never has two turns running at once: a start whose acceptance is
\* unknown is not repeated until there is evidence about it.  Turns that
\* save_turn refused to record are left out; OneTurnPerDelivery counts them.
NoDuplicateTurn ==
  \A d \in Delivery : Cardinality(Running(d) \ orphan) <= 1

\* A delivery is marked completed only when a turn recorded for it completed
\* or updated the card through a TeamFlow tool: neither a restart nor a late or
\* missing answer consumes a notification nobody worked on.
CompletedIsConsumed ==
  \A d \in Delivery : status[d] = "completed" =>
    \E t \in Recorded(d) : turnRow[t] = "acked" \/ turnState[t] = "completed"

\* A delivery that was completed, failed or canceled is never revived, except
\* for the failed ones that the first pass after a restart retries or cancels.
TerminalStays ==
  [][\A d \in Delivery : status[d] \in Terminal =>
       \/ status'[d] = status[d]
       \/ daemon = "starting" /\ status[d] = "failed"]_vars

\* While an agent holds the claim on a card, no step settles the delivery that
\* made it, unless the session is gone: the delivery is running, waiting or to
\* be retried, so the claimed work will be continued.
ClaimKept ==
  [][\A d \in Delivery :
       /\ Active(d, turnId[d]) /\ Active(d, turnId[d])'
       /\ status[d] \in Live /\ SessionOf(d) \notin gone
       => status'[d] \in Live]_vars

\* A delivery whose turn has a task_complete in its rollout does not occupy
\* its session forever: worker or reconciler settle it, across crashes and
\* whatever happens to the card meanwhile.
CompletedTurnSettles ==
  \A d \in Delivery :
    (status[d] = "processing" /\ turnStatus[d] = "inProgress" /\ Completed(turnId[d]))
      ~> status[d] # "processing"

\* Module Notification, seen in the rows: a delivery is open while its row waits
\* to be claimed, and taken while the row is processing.
StageOf(st) == CASE st = "absent" -> "none" [] st = "processing" -> "taken"
                 [] st \in Claimable \cup Waiting -> "open" [] OTHER -> st
WorkedOn(d) == \E t \in Recorded(d) : turnRow[t] = "acked" \/ turnState[t] = "completed"
Promise == INSTANCE Notification WITH
             stage <- [d \in Delivery |-> StageOf(status[d])],
             answered <- {d \in Delivery : WorkedOn(d)},
             claimed <- {d \in Delivery : Active(d, turnId[d])},
             starting <- daemon = "starting"

\* Every step of workers, reconciler, agents, crashes and restarts is a step that
\* Notification allows, or leaves what it speaks of alone.
Implements == Promise!Spec

-----------------------------------------------------------------------------
(* Not kept by the code; section 9 of the README gives the instances.       *)

\* "A claimed task must remain recoverable until it reaches a real handoff": an
\* active execution always has a live delivery for the turn that holds it.
ClaimedWorkRecoverable ==
  \A d \in Delivery : Active(d, turnId[d]) => status[d] \in Live

\* NoDuplicateTurn without the exception for turns that save_turn refused.
OneTurnPerDelivery ==
  \A d \in Delivery : Cardinality(Running(d)) <= 1

\* While stop_task_execution's stop fact stands for a card, the stopped agent
\* runs no turn that was started for the card.
StopFactTrue ==
  \A r \in Record, t \in Turn :
    exec[r].st = "stopped" /\ turnState[t] = "running"
      => ~(RecordOf(turnOf[t]) = r /\ SessionOf(turnOf[t]) = exec[r].s)

\* CompletedTurnSettles for a turn that ended in any way, interrupted ones included.
EndedTurnSettles ==
  \A d \in Delivery :
    (/\ status[d] = "processing" /\ turnStatus[d] = "inProgress"
     /\ turnId[d] # None /\ turnState[turnId[d]] \in Ended)
      ~> status[d] # "processing"
=============================================================================
