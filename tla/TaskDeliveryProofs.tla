------------------------- MODULE TaskDeliveryProofs -------------------------
(***************************************************************************)
(* Proofs about TaskDelivery, for any number of sessions, cards, turns,    *)
(* dispatches and crashes.  Type correctness, SessionExclusive and         *)
(* CompletedIsConsumed are proved with every race allowed; TerminalStays,  *)
(* ClaimKept, the refinement of Notification and NoDuplicateTurn without   *)
(* the races that break them.                                              *)
(***************************************************************************)
EXTENDS TaskDelivery, FiniteSetTheorems, TLAPS

(***************************************************************************)
(* The inductive invariant behind SessionExclusive.  The reconciler works   *)
(* on a delivery; from the moment it decides to stop a turn its session has *)
(* no worker, and none can start because scheduler and reconciler are one   *)
(* thread; while the daemon is away nobody works on anything.               *)
(***************************************************************************)
RecOK ==
  /\ rec.pc = "idle" => rec = Idle
  /\ rec.pc # "idle" => rec.d \in Delivery
  /\ rec.pc \in {"stop", "cancel", "withdraw"} => worker[SessionOf(rec.d)] = NoWorker
AwayOK == daemon # "up" => rec = Idle /\ \A s \in Session : worker[s] = NoWorker

\* What is known of the turns: a turn belongs to a delivery from the moment it
\* starts, the rows name turns of their own that are recorded, and so does the
\* copy of a row the reconciler works with.
TurnsOK ==
  /\ \A t \in Turn : turnOf[t] = None <=> turnState[t] = "none"
  /\ \A d \in Delivery : msgTurn[d] # None => turnOf[msgTurn[d]] = d
  /\ \A d \in Delivery : turnId[d] # None => turnId[d] \in Recorded(d)
HoldersOK ==
  /\ \A s \in Session :
       /\ worker[s].pc = "accepted" => msgTurn[worker[s].d] # None
       /\ worker[s].pc = "running" => turnId[worker[s].d] # None
  /\ rec.pc # "idle" /\ rec.turn # None => rec.turn \in Recorded(rec.d)
IInv == /\ TypeOK /\ SessionExclusive /\ RecOK /\ AwayOK /\ TurnsOK /\ HoldersOK
        /\ CompletedIsConsumed

-----------------------------------------------------------------------------
(* The operators the actions are made of preserve the types.                *)

\* What a delivery is made of; Delivery stays folded in the proofs below.
LEMMA DeliveryParts ==
  ASSUME NEW d \in Delivery
  PROVE  /\ RecordOf(d) \in Record /\ SessionOf(d) \in Session
         /\ EventOf(d) \in 1..MaxEvents
BY DEF Delivery, RecordOf, EventOf, SessionOf

\* finish_task_delivery leaves well-typed rows.
LEMMA FinishType ==
  ASSUME RowsOK, NEW d \in Delivery, NEW st \in DeliveryStatus,
         NEW ts \in TurnStatus, Finish(d, st, ts)
  PROVE  RowsOK'
BY DEF RowsOK, Finish

\* stop_active_delivery_execution leaves a well-typed execution.
LEMMA StopExecutionType ==
  ASSUME BoardOK, NEW d \in Delivery, NEW t, StopExecution(d, t)
  PROVE  BoardOK'
BY DeliveryParts DEF BoardOK, StopExecution

\* mark_task_delivery_turn_started leaves well-typed rows.
LEMMA MarkStartedType ==
  ASSUME TypeOK, NEW d \in Delivery, NEW t \in Turn \cup {None},
         NEW prev, MarkStarted(d, t, prev)
  PROVE  /\ BoardOK' /\ RowsOK'
         /\ turnRow' \in [Turn -> {"absent", "recorded", "acked"}]
<1>1. BoardOK'
  BY DeliveryParts DEF TypeOK, BoardOK, MarkStarted
<1>2. RowsOK'
  BY DEF TypeOK, RowsOK, MarkStarted, TurnStatus
<1>3. turnRow' \in [Turn -> {"absent", "recorded", "acked"}]
  BY DEF TypeOK, DaemonOK, MarkStarted
<1> QED BY <1>1, <1>2, <1>3

\* cancel_reconciled_task_delivery leaves well-typed rows and execution.
LEMMA CancelReconciledType ==
  ASSUME TypeOK, NEW d \in Delivery, NEW t, NEW ts, NEW allow \in BOOLEAN,
         NEW new \in TurnStatus, CancelReconciled(d, t, ts, allow, new)
  PROVE  BoardOK' /\ RowsOK'
<1>1. RowsOK'
  BY FinishType DEF CancelReconciled, TypeOK, DeliveryStatus, Terminal
<1>2. BoardOK'
  <2>1. CASE allow /\ t # None
    BY <2>1, StopExecutionType DEF CancelReconciled, TypeOK
  <2>2. CASE ~(allow /\ t # None)
    BY <2>2 DEF CancelReconciled, TypeOK, BoardOK, board
  <2> QED BY <2>1, <2>2
<1> QED BY <1>1, <1>2

\* save_task_snapshot and the planner leave a well-typed board and new rows.
LEMMA ObserveType ==
  ASSUME TypeOK, NEW r \in Record, NEW fresh \in BOOLEAN
  PROVE  /\ Observe(r, fresh) => BoardOK'
         /\ Planned(r, fresh) \in [Delivery -> DeliveryStatus]
<1>1. NewSnap(r, fresh) \in [st : CardState, to : Role, by : Session \cup {None},
                             ev : 0..MaxEvents]
  BY DEF NewSnap, TypeOK, BoardOK
<1>2. Observe(r, fresh) => BoardOK'
  BY <1>1 DEF Observe, TypeOK, BoardOK
<1>3. Planned(r, fresh) \in [Delivery -> DeliveryStatus]
  BY DEF Planned, TypeOK, RowsOK, DeliveryStatus, Claimable
<1> QED BY <1>2, <1>3

\* A turn that Codex starts, or that is interrupted, is a well-typed turn.
LEMMA AcceptType ==
  ASSUME CodexOK, NEW d \in Delivery, Accept(d), transit' \subseteq Delivery
  PROVE  CodexOK'
<1> DEFINE t == CHOOSE x \in Unused : TRUE
<1>1. t \in Turn
  BY DEF Accept, Unused
<1> QED BY <1>1 DEF CodexOK, Accept

\* interrupt_turn changes one turn and its rollout, nothing of their types.
LEMMA InterruptType ==
  ASSUME CodexOK, NEW t, NEW done \in BOOLEAN, Interrupt(t, done)
  PROVE  CodexOK'
BY DEF CodexOK, Interrupt, Ended

\* The constant records of the threads.
LEMMA IdleTypes ==
  /\ NoWorker \in [pc : {"none", "prepare", "send", "accepted", "running"},
                   d : Delivery \cup {None}, cont : Turn \cup {None}]
  /\ NoTool \in [turn : Turn \cup {None}, r : Record \cup {None}, st : CardState,
                 by : Session \cup {None}, writes : BOOLEAN]
  /\ Idle \in [pc : {"idle", "visit", "thread", "stop", "cancel", "withdraw"},
               d : Delivery \cup {None}, turn : Turn \cup {None}, ts : TurnStatus]
BY DEF NoWorker, NoTool, Idle, CardState, TurnStatus

\* What the invariant says of a session that has a worker.
LEMMA WorkerRow ==
  ASSUME IInv, NEW s \in Session, worker[s].pc # "none"
  PROVE  /\ worker[s].d \in Delivery /\ SessionOf(worker[s].d) = s
         /\ status[worker[s].d] = "processing"
         /\ daemon = "up"
BY DEF IInv, SessionExclusive, Processing, NoWorker, AwayOK

\* Leaving a part of the state alone keeps it well typed.
LEMMA Frames ==
  ASSUME TypeOK
  PROVE  /\ UNCHANGED board => BoardOK'
         /\ UNCHANGED rows => RowsOK'
         /\ UNCHANGED codex => CodexOK'
         /\ UNCHANGED calls => CallsOK'
         /\ UNCHANGED <<turnRow, worker, rec, daemon, crashes>> => DaemonOK'
BY DEF TypeOK, BoardOK, RowsOK, CodexOK, CallsOK, DaemonOK, board, rows, codex, calls

-----------------------------------------------------------------------------
(* Type correctness, thread by thread.                                      *)

\* The worker's steps.
LEMMA WorkerType ==
  ASSUME IInv, NEW s \in Session, WorkerStep(s)
  PROVE  TypeOK'
<1> DEFINE d == worker[s].d
<1>t. TypeOK
  BY DEF IInv
<1>d. worker[s].pc # "none" => d \in Delivery /\ SessionOf(d) = s
  BY WorkerRow
<1>exit. Exit(s) /\ UNCHANGED <<turnRow, rec, daemon, crashes>> => DaemonOK'
  BY <1>t, IdleTypes DEF Exit, TypeOK, DaemonOK
<1>ts. d \in Delivery => turnStatus[d] \in TurnStatus /\ Cleared(d) \in TurnStatus
  BY <1>t DEF TypeOK, RowsOK, Cleared, TurnStatus
<1>st. {"processing", "retry", "failed", "completed", "canceled"} \cup Waiting
         \subseteq DeliveryStatus
  BY DEF DeliveryStatus, Claimable, Terminal
<1>1. CASE PrepareFails(s)
  <2>1. RowsOK'
    BY <1>1, <1>t, <1>d, <1>ts, <1>st, FinishType DEF PrepareFails, At, TypeOK
  <2> QED BY <1>1, <1>t, <1>exit, <2>1, Frames DEF PrepareFails, TypeOK
<1>2. CASE Prepare(s)
  <2>d. d \in Delivery /\ RecordOf(d) \in Record
    BY <1>2, <1>d, DeliveryParts DEF Prepare, At
  <2>1. PICK fresh \in BOOLEAN :
          /\ Observe(RecordOf(d), fresh)
          /\ \/ /\ status' = Planned(RecordOf(d), fresh)
                /\ UNCHANGED turnStatus /\ Exit(s)
             \/ \E st \in {"canceled", "waiting_permission"} :
                  /\ status' = [Planned(RecordOf(d), fresh) EXCEPT ![d] = st]
                  /\ UNCHANGED turnStatus /\ Exit(s)
             \/ /\ status' = Planned(RecordOf(d), fresh)
                /\ turnStatus' = [turnStatus EXCEPT ![d] = "queueing"]
                /\ worker' = [worker EXCEPT ![s].pc = "send"]
    BY <1>2 DEF Prepare
  <2>2. BoardOK' /\ Planned(RecordOf(d), fresh) \in [Delivery -> DeliveryStatus]
    BY <1>t, <2>d, <2>1, ObserveType
  <2>3. RowsOK'
    BY <1>2, <1>t, <1>st, <2>1, <2>2
       DEF Prepare, TypeOK, RowsOK, TurnStatus, QueueState, Waiting
  <2>4. DaemonOK'
    <3>1. worker' = [worker EXCEPT ![s].pc = "send"] => DaemonOK'
      BY <1>2, <1>t DEF Prepare, TypeOK, DaemonOK
    <3> QED BY <1>2, <1>exit, <2>1, <3>1 DEF Prepare
  <2> QED BY <1>2, <1>t, <2>2, <2>3, <2>4, Frames DEF Prepare, TypeOK
<1>3. ASSUME NEW outcome \in Waiting \cup {"retry", "failed"}, SendFails(s, outcome)
      PROVE  TypeOK'
  <2>1. RowsOK'
    BY <1>3, <1>t, <1>d, <1>ts, <1>st, FinishType DEF SendFails, At, TypeOK
  <2> QED BY <1>3, <1>t, <1>exit, <2>1, Frames DEF SendFails, TypeOK
<1>4. CASE SendUnanswered(s)
  <2>1. CodexOK'
    BY <1>4, <1>t, <1>d DEF SendUnanswered, At, TypeOK, CodexOK
  <2> QED BY <1>4, <1>t, <1>exit, <2>1, Frames DEF SendUnanswered, TypeOK
<1>5. CASE SendAccepted(s)
  <2>1. CodexOK'
    BY <1>5, <1>t, <1>d, AcceptType DEF SendAccepted, At, TypeOK, CodexOK
  <2>2. DaemonOK'
    BY <1>5, <1>t DEF SendAccepted, TypeOK, DaemonOK
  <2> QED BY <1>5, <1>t, <2>1, <2>2, Frames DEF SendAccepted, TypeOK
<1>6. CASE AnswerLost(s)
  BY <1>6, <1>t, <1>exit, Frames DEF AnswerLost, TypeOK
<1>7. CASE AnswerMalformed(s)
  <2>1. RowsOK'
    BY <1>7, <1>t, <1>d, <1>ts, <1>st, FinishType DEF AnswerMalformed, At, TypeOK
  <2> QED BY <1>7, <1>t, <1>exit, <2>1, Frames DEF AnswerMalformed, TypeOK
<1>8. CASE SaveTurn(s)
  <2>1. /\ BoardOK' /\ RowsOK'
        /\ turnRow' \in [Turn -> {"absent", "recorded", "acked"}]
    <3>1. d \in Delivery /\ msgTurn[d] \in Turn \cup {None}
      BY <1>8, <1>t, <1>d DEF SaveTurn, At, TypeOK, CodexOK
    <3> QED BY <1>8, <1>t, <3>1, MarkStartedType DEF SaveTurn
  <2>2. DaemonOK'
    BY <1>8, <1>t, <2>1 DEF SaveTurn, TypeOK, DaemonOK
  <2> QED BY <1>8, <1>t, <2>1, <2>2, Frames DEF SaveTurn, TypeOK
<1>9. CASE SaveTurnFails(s)
  <2>1. RowsOK'
    BY <1>9, <1>t, <1>d, <1>ts, <1>st, FinishType DEF SaveTurnFails, At, TypeOK
  <2>2. CodexOK'
    <3>1. msgTurn[d] \in Turn
      BY <1>9, <1>t, <1>d DEF SaveTurnFails, At, IInv, HoldersOK, TypeOK, CodexOK
    <3> QED BY <1>9, <1>t, <3>1 DEF SaveTurnFails, TypeOK, CodexOK
  <2> QED BY <1>9, <1>t, <1>exit, <2>1, <2>2, Frames DEF SaveTurnFails, TypeOK
<1>10. CASE LoseTurn(s)
  BY <1>10, <1>t, <1>exit, Frames DEF LoseTurn, TypeOK
<1>11. CASE FinishTurn(s)
  <2>1. RowsOK'
    <3> DEFINE st == turnState[turnId[d]]
               new == IF Active(d, turnId[d]) THEN "retry" ELSE AfterTurn(d, st)
    <3>1. new \in DeliveryStatus /\ st \in TurnStatus
      BY <1>11, <1>st DEF FinishTurn, AfterTurn, TurnStatus
    <3> HIDE DEF st, new
    <3>2. Finish(d, new, st)
      BY <1>11 DEF FinishTurn, st, new
    <3> QED BY <1>11, <1>t, <1>d, <3>1, <3>2, FinishType DEF FinishTurn, At, TypeOK
  <2> QED BY <1>11, <1>t, <1>exit, <2>1, Frames DEF FinishTurn, TypeOK
<1> QED
  BY <1>1, <1>2, <1>3, <1>4, <1>5, <1>6, <1>7, <1>8, <1>9, <1>10, <1>11 DEF WorkerStep

\* The reconciler's decisions about a row.
LEMMA ReconcileType ==
  ASSUME IInv, NEW d \in Delivery, ReconcileStep(d)
  PROVE  TypeOK'
<1>t. TypeOK
  BY DEF IInv
<1>rec. rec.turn \in Turn \cup {None} /\ rec.ts \in TurnStatus
  BY <1>t DEF TypeOK, DaemonOK
<1>row. msgTurn[d] \in Turn \cup {None} /\ turnStatus[d] \in TurnStatus
  BY <1>t DEF TypeOK, RowsOK, CodexOK
<1>done. Done /\ LeaveTurns => CodexOK' /\ CallsOK' /\ DaemonOK'
  BY <1>t, IdleTypes, Frames DEF Done, LeaveTurns, TypeOK, DaemonOK
<1>as. ASSUME NEW st \in DeliveryStatus, NEW ts \in TurnStatus, ReconcileAs(d, st, ts)
       PROVE  TypeOK'
  <2>1. RowsOK'
    BY <1>as, <1>t, FinishType DEF ReconcileAs, TypeOK
  <2> QED BY <1>as, <1>t, <1>done, <2>1, Frames DEF ReconcileAs, TypeOK
<1>st. {"processing", "retry", "failed", "completed", "canceled"} \subseteq DeliveryStatus
  BY DEF DeliveryStatus, Claimable, Terminal
<1>ts. {"queued", "completed", "missing", "unconfirmed", "unavailable", "inProgress"}
         \cup Ended \subseteq TurnStatus
  BY DEF TurnStatus, QueueState, Ended
<1>1. CASE Visit(d)
  <2>1. DaemonOK'
    BY <1>1, <1>t DEF Visit, LeaveTurns, TypeOK, DaemonOK, RowsOK
  <2> QED BY <1>1, <1>t, <2>1, Frames DEF Visit, LeaveTurns, TypeOK
<1>2. CASE Materialize(d) \/ RecordFound(d)
  <2>1. PICK prev : MarkStarted(d, msgTurn[d], prev)
    BY <1>2 DEF Materialize, RecordFound, Adopt
  <2>2. /\ BoardOK' /\ RowsOK'
        /\ turnRow' \in [Turn -> {"absent", "recorded", "acked"}]
    BY <1>t, <1>row, <2>1, MarkStartedType
  <2>3. DaemonOK'
    BY <1>2, <1>t, <1>row, <1>ts, <2>2
       DEF Materialize, RecordFound, Adopt, TypeOK, DaemonOK
  <2> QED BY <1>2, <1>t, <2>2, <2>3, Frames DEF Materialize, RecordFound, Adopt, TypeOK
<1>3. CASE ReadThread(d)
  <2>1. DaemonOK'
    BY <1>3, <1>t DEF ReadThread, LeaveTurns, TypeOK, DaemonOK
  <2> QED BY <1>3, <1>t, <2>1, Frames DEF ReadThread, LeaveTurns, TypeOK
<1>4. CASE BeginStop(d)
  <2>1. DaemonOK'
    BY <1>4, <1>t DEF BeginStop, LeaveTurns, TypeOK, DaemonOK
  <2> QED BY <1>4, <1>t, <2>1, Frames DEF BeginStop, LeaveTurns, TypeOK
<1>5. CASE NoticeQueued(d)
  BY <1>5, <1>as, <1>st, <1>ts DEF NoticeQueued
<1>6. CASE ContinueUnconfirmed(d)
  BY <1>6, <1>as, <1>st, <1>ts DEF ContinueUnconfirmed
<1>7. CASE FinishAcknowledged(d)
  BY <1>7, <1>as, <1>st, <1>ts DEF FinishAcknowledged
<1>8. CASE FailUnavailable(d)
  BY <1>8, <1>as, <1>st, <1>row DEF FailUnavailable
<1>9. CASE ReconcileClaimed(d)
  BY <1>9, <1>as, <1>st, <1>ts DEF ReconcileClaimed, SeenEnded
<1>10. CASE ReconcileCompleted(d)
  BY <1>10, <1>as, <1>st, <1>ts DEF ReconcileCompleted
<1>11. CASE ReconcileFailed(d)
  <2>1. AfterTurn(d, turnState[rec.turn]) \in DeliveryStatus
    BY <1>st DEF AfterTurn
  <2> QED BY <1>11, <1>as, <1>ts, <2>1 DEF ReconcileFailed, SeenEnded
<1>12. CASE CancelUncertain(d)
  <2>1. BoardOK' /\ RowsOK'
    BY <1>12, <1>t, <1>ts, CancelReconciledType DEF CancelUncertain
  <2>2. DaemonOK'
    BY <1>12, <1>t DEF CancelUncertain, LeaveTurns, TypeOK, DaemonOK
  <2> QED BY <1>12, <1>t, <2>1, <2>2, Frames DEF CancelUncertain, LeaveTurns, TypeOK
<1>13. CASE CancelUnconfirmed(d)
  <2>1. BoardOK' /\ RowsOK'
    <3>1. Completed(turnId[d]) \in BOOLEAN
      BY DEF Completed
    <3> QED BY <1>13, <1>t, <1>ts, <3>1, CancelReconciledType DEF CancelUnconfirmed
  <2> QED BY <1>13, <1>done, <2>1 DEF CancelUnconfirmed, TypeOK
<1>14. CASE ReconcileStale(d)
  <2>1. BoardOK' /\ RowsOK'
    BY <1>14, <1>t, <1>ts, CancelReconciledType DEF ReconcileStale, SeenEnded
  <2> QED BY <1>14, <1>done, <2>1 DEF ReconcileStale, TypeOK
<1>15. CASE ResetUnsent(d)
  <2>1. RowsOK'
    BY <1>15, <1>t, <1>st, <1>ts DEF ResetUnsent, TypeOK, RowsOK
  <2> QED BY <1>15, <1>t, <1>done, <2>1, Frames DEF ResetUnsent, TypeOK
<1>16. CASE FailClaimed(d)
  <2>1. BoardOK' /\ RowsOK'
    BY <1>16, <1>t, <1>st, <1>ts, StopExecutionType, FinishType DEF FailClaimed, TypeOK
  <2> QED BY <1>16, <1>done, <2>1 DEF FailClaimed, TypeOK
<1> QED
  BY <1>1, <1>2, <1>3, <1>4, <1>5, <1>6, <1>7, <1>8, <1>9, <1>10, <1>11, <1>12,
     <1>13, <1>14, <1>15, <1>16 DEF ReconcileStep

\* The reconciler's steps after a decision to stop or to withdraw a turn.
LEMMA ReconcilerType ==
  ASSUME IInv, ReconcilerStep
  PROVE  TypeOK'
<1>t. TypeOK
  BY DEF IInv
<1>defer. Defer => TypeOK'
  <2>1. Done /\ LeaveTurns => DaemonOK'
    BY <1>t, IdleTypes DEF Done, LeaveTurns, TypeOK, DaemonOK
  <2> QED BY <1>t, <2>1, Frames DEF Defer, LeaveTurns, TypeOK
<1>1. CASE Pass \/ StopTurnFails \/ CancelStoppedFails
  BY <1>1, <1>defer DEF Pass, StopTurnFails, CancelStoppedFails
<1>2. CASE StopTurn
  <2>1. CodexOK'
    BY <1>2, <1>t, InterruptType DEF StopTurn, TypeOK
  <2>2. DaemonOK'
    BY <1>2, <1>t DEF StopTurn, TypeOK, DaemonOK
  <2> QED BY <1>2, <1>t, <2>1, <2>2, Frames DEF StopTurn, TypeOK
<1>3. CASE CancelStopped
  <2>1. rec.d \in Delivery
    BY <1>3 DEF CancelStopped, IInv, RecOK
  <2>2. PICK ts \in {"interrupted", "inactive"} :
          CancelReconciled(rec.d, rec.turn, rec.ts, TRUE, ts)
    BY <1>3 DEF CancelStopped
  <2>3. ts \in TurnStatus
    BY DEF TurnStatus, Ended
  <2>4. BoardOK' /\ RowsOK'
    BY <1>t, <2>1, <2>2, <2>3, CancelReconciledType
  <2>5. DaemonOK'
    BY <1>3, <1>t, IdleTypes DEF CancelStopped, Done, LeaveTurns, TypeOK, DaemonOK
  <2> QED BY <1>3, <1>t, <2>4, <2>5, Frames DEF CancelStopped, LeaveTurns, TypeOK
<1>4. CASE Withdraw
  <2>1. CodexOK'
    <3>1. CASE /\ transit' = transit \ {rec.d}
               /\ UNCHANGED <<msgTurn, turnState, turnOf, rollout, gone, orphan>>
      BY <3>1, <1>t DEF TypeOK, CodexOK
    <3>2. CASE \E done \in BOOLEAN : Interrupt(msgTurn[rec.d], done)
      BY <3>2, <1>t, InterruptType DEF TypeOK
    <3>3. CASE UNCHANGED codex
      BY <3>3, <1>t, Frames
    <3> QED BY <1>4, <3>1, <3>2, <3>3 DEF Withdraw
  <2>2. DaemonOK'
    BY <1>4, <1>t, IdleTypes DEF Withdraw, Done, TypeOK, DaemonOK
  <2> QED BY <1>4, <1>t, <2>1, <2>2, Frames DEF Withdraw, TypeOK
<1> QED BY <1>1, <1>2, <1>3, <1>4 DEF ReconcilerStep

\* The board, the scheduler, recovery, Codex and the tool calls.
LEMMA OthersType ==
  ASSUME IInv, Next,
         ~ \E s \in Session : WorkerStep(s),
         ~ \E d \in Delivery : ReconcileStep(d),
         ~ ReconcilerStep
  PROVE  TypeOK'
<1>t. TypeOK
  BY DEF IInv
<1>st. {"pending", "retry", "processing", "canceled"} \subseteq DeliveryStatus
  BY DEF DeliveryStatus, Claimable, Terminal
<1>bump. ASSUME NEW r \in Record, NEW role \in Role, card[r].n < MaxEvents
         PROVE  Dispatched(r, role) \in [st : CardState, to : Role,
                                         by : Session \cup {None}, n : 0..MaxEvents]
  <2>1. card[r].n \in 0..MaxEvents
    BY <1>t DEF TypeOK, BoardOK
  <2>2. card[r].n + 1 \in 0..MaxEvents
    BY <1>bump, <2>1, ConstantsAssumption
  <2> QED BY <2>2 DEF Dispatched, CardState
<1>1. ASSUME NEW r \in Record, SaveSnapshot(r) PROVE TypeOK'
  <2>1. PICK fresh \in BOOLEAN : Observe(r, fresh) /\ status' = Planned(r, fresh)
    BY <1>1 DEF SaveSnapshot
  <2>2. BoardOK' /\ RowsOK'
    BY <1>1, <1>t, <2>1, ObserveType DEF SaveSnapshot, TypeOK, RowsOK
  <2> QED BY <1>1, <1>t, <2>2, Frames DEF SaveSnapshot, TypeOK
<1>2. ASSUME NEW r \in Record, EditCard(r) PROVE TypeOK'
  <2>1. BoardOK'
    <3>1. ASSUME NEW role \in Role, card[r].n < MaxEvents,
                 card' = [card EXCEPT ![r] = Dispatched(r, role)]
          PROVE  BoardOK'
      BY <1>2, <1>t, <1>bump, <3>1 DEF EditCard, TypeOK, BoardOK
    <3>2. ASSUME NEW st \in CardState,
                 card' = [card EXCEPT ![r] = Moved(r, st, None)]
          PROVE  BoardOK'
      BY <1>2, <1>t, <3>2 DEF EditCard, Moved, TypeOK, BoardOK
    <3> QED BY <1>2, <3>1, <3>2 DEF EditCard
  <2> QED BY <1>2, <1>t, <2>1, Frames DEF EditCard, TypeOK
<1>3. ASSUME NEW r \in Record, InterruptTask(r) PROVE TypeOK'
  <2>1. CodexOK'
    BY <1>3, <1>t, InterruptType DEF InterruptTask, TypeOK
  <2>2. CallsOK'
    BY <1>3, <1>t DEF InterruptTask, TypeOK, CallsOK, BoardOK
  <2> QED BY <1>3, <1>t, <2>1, <2>2, Frames DEF InterruptTask, TypeOK
<1>4. ASSUME NEW r \in Record, RecordStop(r) PROVE TypeOK'
  <2>1. BoardOK'
    BY <1>4, <1>t DEF RecordStop, TypeOK, BoardOK
  <2>2. CallsOK'
    BY <1>4, <1>t DEF RecordStop, TypeOK, CallsOK
  <2> QED BY <1>4, <1>t, <2>1, <2>2, Frames DEF RecordStop, TypeOK
<1>5. ASSUME NEW d \in Delivery, ClaimCancels(d) PROVE TypeOK'
  <2>1. RowsOK'
    BY <1>5, <1>t, <1>st, FinishType DEF ClaimCancels, TypeOK, RowsOK
  <2> QED BY <1>5, <1>t, <2>1, Frames DEF ClaimCancels, TypeOK
<1>6. ASSUME NEW d \in Delivery, Claim(d) PROVE TypeOK'
  <2>1. RowsOK'
    BY <1>6, <1>t, <1>st DEF Claim, TypeOK, RowsOK, TurnStatus
  <2>2. CodexOK'
    BY <1>6, <1>t DEF Claim, TypeOK, CodexOK
  <2>3. DaemonOK'
    BY <1>6, <1>t, DeliveryParts DEF Claim, TypeOK, DaemonOK, RowsOK
  <2> QED BY <1>6, <1>t, <2>1, <2>2, <2>3, Frames DEF Claim, TypeOK
<1>7. ASSUME NEW d \in Delivery, LateAccept(d) PROVE TypeOK'
  <2>1. CodexOK'
    BY <1>7, <1>t, AcceptType DEF LateAccept, TypeOK, CodexOK
  <2> QED BY <1>7, <1>t, <2>1, Frames DEF LateAccept, TypeOK
<1>8. ASSUME NEW d \in Delivery, DropRequest(d) PROVE TypeOK'
  <2>1. CodexOK'
    BY <1>8, <1>t DEF DropRequest, TypeOK, CodexOK
  <2> QED BY <1>8, <1>t, <2>1, Frames DEF DropRequest, TypeOK
<1>9. ASSUME NEW s \in Session, OwnerFound(s) PROVE TypeOK'
  <2>1. RowsOK'
    BY <1>9, <1>t, <1>st DEF OwnerFound, TypeOK, RowsOK
  <2> QED BY <1>9, <1>t, <2>1, Frames DEF OwnerFound, TypeOK
<1>10. ASSUME NEW s \in Session, SyncTool(s) PROVE TypeOK'
  <2>1. CallsOK'
    BY <1>10, <1>t, IdleTypes DEF SyncTool, TypeOK, CallsOK
  <2>2. BoardOK'
    BY <1>10, <1>t DEF SyncTool, TypeOK, BoardOK, CallsOK
  <2>3. DaemonOK'
    BY <1>10, <1>t DEF SyncTool, TypeOK, DaemonOK
  <2> QED BY <1>10, <1>t, <2>1, <2>2, <2>3, Frames DEF SyncTool, TypeOK
<1>11. ASSUME NEW s \in Session, DeleteSession(s) PROVE TypeOK'
  <2>1. CodexOK'
    BY <1>11, <1>t, ConstantsAssumption DEF DeleteSession, TypeOK, CodexOK, Ended
  <2>2. CallsOK'
    BY <1>11, <1>t, IdleTypes DEF DeleteSession, TypeOK, CallsOK
  <2> QED BY <1>11, <1>t, <2>1, <2>2, Frames DEF DeleteSession, TypeOK
<1>12. CASE ResumePermission
  <2>1. RowsOK'
    BY <1>12, <1>t, <1>st DEF ResumePermission, TypeOK, RowsOK
  <2> QED BY <1>12, <1>t, <2>1, Frames DEF ResumePermission, TypeOK
<1>13. CASE Crash
  <2>1. CallsOK' /\ DaemonOK'
    BY <1>13, <1>t, IdleTypes, ConstantsAssumption DEF Crash, TypeOK, CallsOK, DaemonOK
  <2> QED BY <1>13, <1>t, <2>1, Frames DEF Crash, TypeOK
<1>14. CASE Restart
  <2>1. RowsOK' /\ DaemonOK'
    BY <1>14, <1>t, <1>st DEF Restart, TypeOK, RowsOK, DaemonOK
  <2> QED BY <1>14, <1>t, <2>1, Frames DEF Restart, TypeOK
<1>15. CASE Recover
  <2>1. RowsOK' /\ DaemonOK'
    BY <1>15, <1>t, <1>st DEF Recover, TypeOK, RowsOK, DaemonOK
  <2>2. BoardOK'
    BY <1>15, <1>t DEF Recover, TypeOK, BoardOK
  <2> QED BY <1>15, <1>t, <2>1, <2>2, Frames DEF Recover, TypeOK
<1>16. ASSUME NEW t \in Turn, EndTurn(t) PROVE TypeOK'
  <2>1. CodexOK'
    BY <1>16, <1>t DEF EndTurn, TypeOK, CodexOK
  <2> QED BY <1>16, <1>t, <2>1, Frames DEF EndTurn, TypeOK
<1>17. ASSUME NEW t \in Turn, LogStart(t) PROVE TypeOK'
  <2>1. CodexOK'
    BY <1>17, <1>t DEF LogStart, TypeOK, CodexOK
  <2> QED BY <1>17, <1>t, <2>1, Frames DEF LogStart, TypeOK
<1>18. ASSUME NEW t \in Turn, NEW r \in Record, WriteCard(t, r) PROVE TypeOK'
  <2> DEFINE s == SessionOf(turnOf[t])
  <2>1. s \in Session
    BY <1>18, <1>t, DeliveryParts DEF WriteCard, IInv, TurnsOK, TypeOK, CodexOK
  <2>2. BoardOK'
    <3>1. ASSUME NEW role \in Role, card[r].n < MaxEvents,
                 card' = [card EXCEPT ![r] = Dispatched(r, role)]
          PROVE  BoardOK'
      BY <1>18, <1>t, <1>bump, <3>1 DEF WriteCard, TypeOK, BoardOK
    <3>2. ASSUME NEW st \in CardState, NEW by \in Session \cup {None},
                 card' = [card EXCEPT ![r] = Moved(r, st, by)]
          PROVE  BoardOK'
      BY <1>18, <1>t, <3>2 DEF WriteCard, Moved, TypeOK, BoardOK
    <3>3. CASE UNCHANGED card
      BY <1>18, <1>t, <3>3 DEF WriteCard, TypeOK, BoardOK
    <3> QED BY <1>18, <2>1, <3>1, <3>2, <3>3 DEF WriteCard, CardState
  <2>3. CallsOK'
    BY <1>18, <1>t, <2>1, <2>2 DEF WriteCard, Call, TypeOK, CallsOK, BoardOK
  <2> QED BY <1>18, <1>t, <2>2, <2>3, Frames DEF WriteCard, TypeOK
<1>19. ASSUME NEW s \in Session, NEW t \in Turn \cup {None}, NEW r \in Record,
              ReadCard(s, t, r)
       PROVE  TypeOK'
  <2>1. CallsOK'
    BY <1>19, <1>t DEF ReadCard, Call, TypeOK, CallsOK, BoardOK
  <2> QED BY <1>19, <1>t, <2>1, Frames DEF ReadCard, TypeOK, board
<1> QED
  BY <1>1, <1>2, <1>3, <1>4, <1>5, <1>6, <1>7, <1>8, <1>9, <1>10, <1>11, <1>12,
     <1>13, <1>14, <1>15, <1>16, <1>17, <1>18, <1>19 DEF Next

-----------------------------------------------------------------------------
(* Exclusive sessions: who makes a row processing, and who ends a worker.   *)

Exclusion == SessionExclusive /\ RecOK /\ AwayOK

\* A step that takes no new row and starts no worker, and leaves the row of
\* each worker that goes on in place, keeps the sessions exclusive.
LEMMA ExclusiveKept ==
  ASSUME SessionExclusive,
         \A d \in Delivery : status'[d] = "processing" => status[d] = "processing",
         \A s \in Session : worker'[s] # NoWorker =>
            /\ worker[s] # NoWorker /\ worker'[s].d = worker[s].d
            /\ status'[worker[s].d] = "processing"
  PROVE  SessionExclusive'
BY DEF SessionExclusive, Processing

\* A worker's step touches its own row, and ends the worker when that row is
\* no longer processing.
LEMMA WorkerExclusion ==
  ASSUME IInv, NEW s \in Session, WorkerStep(s)
  PROVE  Exclusion'
<1> DEFINE d == worker[s].d
<1>t. TypeOK /\ SessionExclusive
  BY DEF IInv
<1>pc. worker[s].pc # "none"
  BY DEF WorkerStep, PrepareFails, Prepare, SendFails, SendUnanswered, SendAccepted,
         AnswerLost, AnswerMalformed, SaveTurn, SaveTurnFails, LoseTurn, FinishTurn, At
<1>d. d \in Delivery /\ SessionOf(d) = s /\ status[d] = "processing" /\ daemon = "up"
  BY <1>pc, WorkerRow
<1>frame. UNCHANGED <<rec, daemon>>
  BY DEF WorkerStep, PrepareFails, Prepare, SendFails, SendUnanswered, SendAccepted,
         AnswerLost, AnswerMalformed, SaveTurn, SaveTurnFails, LoseTurn, FinishTurn
<1>others. \A x \in Session \ {s} : worker[x] # NoWorker =>
             worker[x].d \in Delivery \ {d} /\ status[worker[x].d] = "processing"
  BY <1>t, <1>d DEF SessionExclusive, Processing
<1>exit. ASSUME Exit(s),
                \A e \in Delivery \ {d} :
                  status'[e] = status[e] \/ (status[e] = "absent" /\ status'[e] = "pending")
         PROVE  Exclusion'
  <2>1. \A x \in Session : worker'[x] = IF x = s THEN NoWorker ELSE worker[x]
    BY <1>exit, <1>t DEF Exit, TypeOK, DaemonOK
  <2>2. SessionExclusive'
    BY <1>exit, <1>t, <1>d, <1>others, <2>1, ExclusiveKept
  <2>3. RecOK'
    BY <1>frame, <2>1, DeliveryParts DEF IInv, RecOK
  <2>4. AwayOK'
    BY <1>frame, <1>d DEF AwayOK
  <2> QED BY <2>2, <2>3, <2>4 DEF Exclusion
<1>stay. ASSUME NEW pc \in {"send", "accepted", "running"},
                worker' = [worker EXCEPT ![s].pc = pc],
                status'[d] = status[d],
                \A e \in Delivery \ {d} :
                  status'[e] = status[e] \/ (status[e] = "absent" /\ status'[e] = "pending")
         PROVE  Exclusion'
  <2>1. \A x \in Session \ {s} : worker'[x] = worker[x]
    BY <1>stay, <1>t DEF TypeOK, DaemonOK
  <2>2. worker'[s].d = d
    BY <1>stay, <1>t DEF TypeOK, DaemonOK
  <2>3. SessionExclusive'
    <3>1. worker[s] # NoWorker
      BY <1>pc DEF NoWorker
    <3> QED BY <1>stay, <1>t, <1>d, <1>others, <2>1, <2>2, <3>1, ExclusiveKept
  <2>4. RecOK'
    <3>1. rec.pc \in {"stop", "cancel", "withdraw"} => SessionOf(rec.d) # s
      BY <1>pc DEF IInv, RecOK, NoWorker
    <3> QED BY <1>frame, <2>1, <3>1, DeliveryParts DEF IInv, RecOK
  <2>5. AwayOK'
    BY <1>frame, <1>d DEF AwayOK
  <2> QED BY <2>3, <2>4, <2>5 DEF Exclusion
<1>fin. \A st, ts : Finish(d, st, ts) =>
          \A e \in Delivery \ {d} : status'[e] = status[e]
  BY <1>t DEF Finish, TypeOK, RowsOK
<1>1. CASE \/ PrepareFails(s) \/ AnswerMalformed(s) \/ SaveTurnFails(s) \/ FinishTurn(s)
           \/ \E outcome \in Waiting \cup {"retry", "failed"} : SendFails(s, outcome)
  BY <1>1, <1>exit, <1>fin
     DEF PrepareFails, AnswerMalformed, SaveTurnFails, FinishTurn, SendFails
<1>2. CASE SendUnanswered(s) \/ AnswerLost(s) \/ LoseTurn(s)
  BY <1>2, <1>exit DEF SendUnanswered, AnswerLost, LoseTurn, rows
<1>3. CASE SendAccepted(s)
  BY <1>3, <1>stay DEF SendAccepted, rows
<1>4. CASE SaveTurn(s)
  BY <1>4, <1>stay DEF SaveTurn, MarkStarted
<1>5. CASE Prepare(s)
  <2>1. PICK fresh \in BOOLEAN :
          LET planned == Planned(RecordOf(d), fresh) IN
          \/ /\ Exit(s)
             /\ \/ status' = planned
                \/ \E st \in {"canceled", "waiting_permission"} :
                     status' = [planned EXCEPT ![d] = st]
          \/ /\ worker' = [worker EXCEPT ![s].pc = "send"]
             /\ status' = planned
    BY <1>5 DEF Prepare
  <2>2. /\ Planned(RecordOf(d), fresh)[d] = status[d]
        /\ \A e \in Delivery \ {d} :
             \/ Planned(RecordOf(d), fresh)[e] = status[e]
             \/ status[e] = "absent" /\ Planned(RecordOf(d), fresh)[e] = "pending"
    BY <1>d DEF Planned
  <2>3. CASE Exit(s)
    <3>1. RecordOf(d) \in Record
      BY <1>d, DeliveryParts
    <3>2. Planned(RecordOf(d), fresh) \in [Delivery -> DeliveryStatus]
      BY <1>t, <3>1, ObserveType
    <3>3. \A e \in Delivery \ {d} : status'[e] = Planned(RecordOf(d), fresh)[e]
      BY <2>1, <3>2
    <3> QED BY <1>exit, <2>2, <2>3, <3>3
  <2>4. CASE /\ worker' = [worker EXCEPT ![s].pc = "send"]
             /\ status' = Planned(RecordOf(d), fresh)
    BY <1>stay, <2>2, <2>4
  <2> QED BY <2>1, <2>3, <2>4
<1> QED BY <1>1, <1>2, <1>3, <1>4, <1>5 DEF WorkerStep

\* The reconciler only touches the row of a session without a worker.
LEMMA ReconcileExclusion ==
  ASSUME IInv, NEW d \in Delivery, ReconcileStep(d)
  PROVE  Exclusion'
<1>t. TypeOK /\ SessionExclusive /\ RecOK /\ AwayOK
  BY DEF IInv
<1>frame. UNCHANGED <<worker, daemon>>
  BY DEF ReconcileStep, Visit, Materialize, FinishAcknowledged, ReadThread, NoticeQueued,
         ContinueUnconfirmed, CancelUncertain, CancelUnconfirmed, ResetUnsent,
         RecordFound, FailClaimed, FailUnavailable, ReconcileClaimed,
         ReconcileCompleted, ReconcileFailed, ReconcileStale, BeginStop,
         ReconcileAs, LeaveTurns, Adopt
<1>up. daemon = "up"
  <2>1. rec.pc \in {"visit", "thread"} \/ Consuming
    BY DEF ReconcileStep, Visit, Materialize, FinishAcknowledged, ReadThread,
           NoticeQueued, ContinueUnconfirmed, CancelUncertain, CancelUnconfirmed,
           ResetUnsent, RecordFound, FailClaimed, FailUnavailable, ReconcileClaimed,
           ReconcileCompleted, ReconcileFailed, ReconcileStale, BeginStop,
           Unconfirmed, Seen, SeenEnded, Seeing
  <2> QED BY <1>t, <2>1 DEF AwayOK, Consuming, Idle
<1>one. ASSUME worker[SessionOf(d)] = NoWorker,
               \A e \in Delivery \ {d} : status'[e] = status[e],
               status'[d] = "processing" => status[d] = "processing"
        PROVE  SessionExclusive'
  BY <1>one, <1>t, <1>frame, ExclusiveKept DEF SessionExclusive, Processing
<1>fin. \A st, ts : Finish(d, st, ts) =>
          /\ \A e \in Delivery \ {d} : status'[e] = status[e]
          /\ status'[d] = st
  BY <1>t DEF Finish, TypeOK, RowsOK
<1>same. UNCHANGED status => SessionExclusive'
  BY <1>t, <1>frame, ExclusiveKept DEF SessionExclusive, Processing
<1>1. SessionExclusive'
  <2>1. CASE \/ Visit(d) \/ Materialize(d) \/ RecordFound(d) \/ ReadThread(d)
             \/ BeginStop(d)
    BY <2>1, <1>same DEF Visit, Materialize, RecordFound, ReadThread, BeginStop,
                         Adopt, MarkStarted, rows
  <2>2. CASE NoticeQueued(d)
    BY <2>2, <1>one, <1>fin DEF NoticeQueued, Unconfirmed, Seeing, ReconcileAs
  <2>3. CASE ResetUnsent(d)
    BY <2>3, <1>t, <1>one DEF ResetUnsent, Unconfirmed, Seeing, TypeOK, RowsOK
  <2>4. CASE \/ ContinueUnconfirmed(d) \/ FinishAcknowledged(d) \/ FailUnavailable(d)
             \/ ReconcileClaimed(d) \/ ReconcileCompleted(d) \/ ReconcileFailed(d)
             \/ FailClaimed(d)
    <3>1. worker[SessionOf(d)] = NoWorker
      BY <2>4 DEF ContinueUnconfirmed, FinishAcknowledged, FailUnavailable,
                  ReconcileClaimed, ReconcileCompleted, ReconcileFailed, FailClaimed,
                  Unconfirmed, Seen, SeenEnded, Seeing
    <3>2. \E st \in {"retry", "completed", "failed"} : \E ts : Finish(d, st, ts)
      BY <2>4 DEF ContinueUnconfirmed, FinishAcknowledged, FailUnavailable,
                  ReconcileClaimed, ReconcileCompleted, ReconcileFailed, FailClaimed,
                  ReconcileAs, AfterTurn
    <3> QED BY <1>one, <1>fin, <3>1, <3>2
  <2>5. CASE CancelUncertain(d) \/ CancelUnconfirmed(d) \/ ReconcileStale(d)
    <3>1. worker[SessionOf(d)] = NoWorker
      BY <2>5 DEF CancelUncertain, CancelUnconfirmed, ReconcileStale, Unconfirmed,
                  Seen, SeenEnded, Seeing
    <3>2. \E ts : Finish(d, "canceled", ts)
      BY <2>5 DEF CancelUncertain, CancelUnconfirmed, ReconcileStale, CancelReconciled
    <3> QED BY <1>one, <1>fin, <3>1, <3>2
  <2> QED BY <2>1, <2>2, <2>3, <2>4, <2>5 DEF ReconcileStep
<1>2. RecOK'
  <2>1. CASE rec' = Idle
    BY <2>1 DEF RecOK, Idle
  <2>2. CASE Visit(d)
    BY <2>2 DEF Visit, RecOK
  <2>3. CASE Materialize(d) \/ RecordFound(d) \/ ReadThread(d)
    <3>1. rec'.pc \in {"visit", "thread"} /\ rec'.d = d
      BY <2>3, <1>t DEF Materialize, RecordFound, ReadThread, Seeing, TypeOK, DaemonOK
    <3> QED BY <3>1 DEF RecOK
  <2>4. CASE BeginStop(d) \/ CancelUncertain(d)
    <3>1. /\ rec'.pc \in {"stop", "withdraw"} /\ rec'.d = d
          /\ worker[SessionOf(d)] = NoWorker
      BY <2>4, <1>t DEF BeginStop, CancelUncertain, Unconfirmed, Seen, Seeing,
                        TypeOK, DaemonOK
    <3> QED BY <1>frame, <3>1 DEF RecOK
  <2> QED
    BY <2>1, <2>2, <2>3, <2>4
       DEF ReconcileStep, FinishAcknowledged, NoticeQueued, ContinueUnconfirmed,
           CancelUnconfirmed, ResetUnsent, FailClaimed, FailUnavailable,
           ReconcileClaimed, ReconcileCompleted, ReconcileFailed, ReconcileStale,
           ReconcileAs, Done
<1>3. AwayOK'
  BY <1>frame, <1>up DEF AwayOK
<1> QED BY <1>1, <1>2, <1>3 DEF Exclusion

\* Its later steps find the session as the decision left it.
LEMMA ReconcilerExclusion ==
  ASSUME IInv, ReconcilerStep
  PROVE  Exclusion'
<1>t. TypeOK /\ SessionExclusive /\ RecOK /\ AwayOK
  BY DEF IInv
<1>frame. UNCHANGED <<worker, daemon>>
  BY DEF ReconcilerStep, Pass, StopTurn, StopTurnFails, CancelStopped,
         CancelStoppedFails, Withdraw, Defer, LeaveTurns
<1>d. rec.d \in Delivery /\ daemon = "up"
  <2>1. rec.pc \in {"visit", "thread", "stop", "cancel", "withdraw"}
    BY DEF ReconcilerStep, Pass, StopTurn, StopTurnFails, CancelStopped,
           CancelStoppedFails, Withdraw
  <2> QED BY <1>t, <2>1 DEF RecOK, AwayOK, Idle
<1>1. SessionExclusive'
  <2>1. CASE UNCHANGED status
    BY <2>1, <1>t, <1>frame, ExclusiveKept DEF SessionExclusive, Processing
  <2>2. CASE CancelStopped
    <3>1. worker[SessionOf(rec.d)] = NoWorker
      BY <2>2, <1>t DEF CancelStopped, RecOK
    <3>2. /\ \A e \in Delivery \ {rec.d} : status'[e] = status[e]
          /\ status'[rec.d] = "canceled"
      BY <2>2, <1>t, <1>d DEF CancelStopped, CancelReconciled, Finish, TypeOK, RowsOK
    <3> QED BY <1>t, <1>d, <1>frame, <3>1, <3>2, ExclusiveKept
            DEF SessionExclusive, Processing
  <2> QED BY <2>1, <2>2 DEF ReconcilerStep, Pass, StopTurn, StopTurnFails,
                            CancelStoppedFails, Withdraw, Defer, rows
<1>2. RecOK'
  <2>1. CASE rec' = Idle
    BY <2>1 DEF RecOK, Idle
  <2>2. CASE StopTurn
    <3>1. /\ rec'.pc = "cancel" /\ rec'.d = rec.d
          /\ worker[SessionOf(rec.d)] = NoWorker
      BY <2>2, <1>t DEF StopTurn, RecOK, TypeOK, DaemonOK
    <3> QED BY <1>d, <1>frame, <3>1 DEF RecOK
  <2> QED BY <2>1, <2>2 DEF ReconcilerStep, Pass, StopTurnFails, CancelStopped,
                            CancelStoppedFails, Withdraw, Defer, Done
<1>3. AwayOK'
  BY <1>frame, <1>d DEF AwayOK
<1> QED BY <1>1, <1>2, <1>3 DEF Exclusion

\* Only claim_task_deliveries makes a row processing; it starts the worker in
\* the same step, for a session that has neither a worker nor such a row.
LEMMA OthersExclusion ==
  ASSUME IInv, Next,
         ~ \E s \in Session : WorkerStep(s),
         ~ \E d \in Delivery : ReconcileStep(d),
         ~ ReconcilerStep
  PROVE  Exclusion'
<1>t. TypeOK /\ SessionExclusive /\ RecOK /\ AwayOK
  BY DEF IInv
<1>quiet. ASSUME UNCHANGED <<worker, rec, daemon>>,
                 \A d \in Delivery :
                   status'[d] = status[d] \/ (status[d] # "processing" /\ status'[d] # "processing")
          PROVE  Exclusion'
  <2>1. SessionExclusive'
    BY <1>quiet, <1>t, ExclusiveKept DEF SessionExclusive, Processing
  <2> QED BY <1>quiet, <1>t, <2>1 DEF Exclusion, RecOK, AwayOK
<1>1. ASSUME NEW r \in Record, SaveSnapshot(r) PROVE Exclusion'
  <2>1. PICK fresh \in BOOLEAN : status' = Planned(r, fresh)
    BY <1>1 DEF SaveSnapshot
  <2> QED BY <1>1, <1>quiet, <2>1 DEF SaveSnapshot, Planned
<1>2. ASSUME NEW r \in Record, EditCard(r) \/ InterruptTask(r) \/ RecordStop(r)
      PROVE  Exclusion'
  BY <1>2, <1>quiet DEF EditCard, InterruptTask, RecordStop, rows
<1>3. ASSUME NEW d \in Delivery, ClaimCancels(d) PROVE Exclusion'
  BY <1>3, <1>t, <1>quiet DEF ClaimCancels, Finish, TypeOK, RowsOK, Claimable
<1>4. ASSUME NEW d \in Delivery, Claim(d) PROVE Exclusion'
  <2>1. /\ \A e \in Delivery \ {d} : status'[e] = status[e]
        /\ \A x \in Session \ {SessionOf(d)} : worker'[x] = worker[x]
        /\ worker'[SessionOf(d)].d = d /\ status'[d] = "processing"
    BY <1>4, <1>t, DeliveryParts DEF Claim, TypeOK, RowsOK, DaemonOK
  <2>2. \A e \in Processing(SessionOf(d)) : FALSE
    BY <1>4 DEF Claim, Reserved, Processing
  <2>3. SessionExclusive'
    BY <1>t, <2>1, <2>2, DeliveryParts DEF SessionExclusive, Processing
  <2> QED BY <1>4, <2>3 DEF Exclusion, Claim, Consuming, RecOK, AwayOK, Idle
<1>5. ASSUME NEW d \in Delivery, LateAccept(d) \/ DropRequest(d) PROVE Exclusion'
  BY <1>5, <1>quiet DEF LateAccept, DropRequest, rows
<1>6. ASSUME NEW s \in Session, OwnerFound(s) PROVE Exclusion'
  BY <1>6, <1>quiet DEF OwnerFound
<1>7. ASSUME NEW s \in Session, SyncTool(s) \/ DeleteSession(s) PROVE Exclusion'
  BY <1>7, <1>quiet DEF SyncTool, DeleteSession, rows
<1>8. CASE ResumePermission
  BY <1>8, <1>quiet DEF ResumePermission
<1>9. CASE Crash
  <2>1. \A s \in Session : worker'[s] = NoWorker
    BY <1>9 DEF Crash
  <2>2. SessionExclusive'
    BY <1>9, <1>t, <2>1, ExclusiveKept DEF Crash, rows
  <2> QED BY <1>9, <2>1, <2>2 DEF Crash, Exclusion, RecOK, AwayOK, Idle
<1>10. CASE Restart \/ Recover
  <2>1. /\ rec = Idle /\ \A s \in Session : worker[s] = NoWorker
        /\ UNCHANGED <<rec, worker>>
    BY <1>10, <1>t DEF Restart, Recover, AwayOK
  <2>2. ASSUME NEW d \in Delivery, status'[d] = "processing"
        PROVE  status[d] = "processing"
    <3>1. CASE Restart
      BY <2>2, <3>1 DEF Restart
    <3>2. CASE Recover
      BY <2>2, <3>2 DEF Recover
    <3> QED BY <1>10, <3>1, <3>2
  <2>3. SessionExclusive'
    BY <1>t, <2>1, <2>2, ExclusiveKept
  <2> QED BY <2>1, <2>3 DEF Exclusion, RecOK, AwayOK, Idle
<1>11. ASSUME NEW t \in Turn, EndTurn(t) \/ LogStart(t) PROVE Exclusion'
  BY <1>11, <1>quiet DEF EndTurn, LogStart, rows
<1>12. ASSUME NEW t \in Turn, NEW r \in Record, WriteCard(t, r) PROVE Exclusion'
  BY <1>12, <1>quiet DEF WriteCard, rows
<1>13. ASSUME NEW s \in Session, NEW t \in Turn \cup {None}, NEW r \in Record,
              ReadCard(s, t, r)
       PROVE  Exclusion'
  BY <1>13, <1>quiet DEF ReadCard, rows
<1> QED
  BY <1>1, <1>2, <1>3, <1>4, <1>5, <1>6, <1>7, <1>8, <1>9, <1>10, <1>11, <1>12,
     <1>13 DEF Next

-----------------------------------------------------------------------------
(* Turns and the evidence they leave: what was once recorded, acknowledged  *)
(* or completed stays so.                                                   *)

Evidence == TurnsOK /\ HoldersOK /\ CompletedIsConsumed

Started1 == \A t \in Turn : turnOf[t] = None <=> turnState[t] = "none"
Kept ==
  \A t \in Turn :
    /\ turnOf[t] # None => turnOf'[t] = turnOf[t]
    /\ turnRow[t] # "absent" => turnRow'[t] # "absent"
    /\ turnRow[t] = "acked" => turnRow'[t] = "acked"
    /\ turnState[t] = "completed" => turnState'[t] = "completed"

\* A step that does not touch the turns keeps their evidence.
LEMMA SameKeeps ==
  ASSUME IInv, UNCHANGED <<turnOf, turnRow, turnState>>
  PROVE  Kept /\ Started1'
BY DEF IInv, TurnsOK, Kept, Started1

\* A new turn takes an unused id, so no earlier evidence is lost.
LEMMA AcceptKeeps ==
  ASSUME IInv, NEW d \in Delivery, Accept(d), UNCHANGED turnRow
  PROVE  /\ Kept /\ Started1'
         /\ \A e \in Delivery : msgTurn'[e] = msgTurn[e]
                                  \/ (msgTurn'[e] \in Turn /\ turnOf'[msgTurn'[e]] = e)
         /\ msgTurn'[d] # None
<1> DEFINE t == CHOOSE x \in Unused : TRUE
<1>1. t \in Turn /\ turnState[t] = "none"
  BY DEF Accept, Unused
<1>2. turnOf[t] = None
  BY <1>1 DEF IInv, TurnsOK
<1>3. TypeOK
  BY DEF IInv
<1>4. /\ turnState' = [turnState EXCEPT ![t] = "running"]
      /\ turnOf' = [turnOf EXCEPT ![t] = d]
      /\ msgTurn' = [msgTurn EXCEPT ![d] = t]
  BY DEF Accept
<1> HIDE DEF t
<1>5. Kept
  BY <1>1, <1>2, <1>3, <1>4 DEF Kept, TypeOK, CodexOK
<1>6. Started1'
  BY <1>1, <1>3, <1>4, ConstantsAssumption DEF IInv, TurnsOK, Started1, TypeOK, CodexOK
<1>7. /\ \A e \in Delivery : msgTurn'[e] = msgTurn[e]
                               \/ (msgTurn'[e] \in Turn /\ turnOf'[msgTurn'[e]] = e)
      /\ msgTurn'[d] # None
  BY <1>1, <1>3, <1>4, ConstantsAssumption DEF TypeOK, CodexOK
<1> QED BY <1>5, <1>6, <1>7

\* Interrupting a turn only ends a running one.
LEMMA InterruptKeeps ==
  ASSUME IInv, NEW t, NEW done \in BOOLEAN, Interrupt(t, done), UNCHANGED turnRow
  PROVE  Kept /\ Started1' /\ UNCHANGED msgTurn
BY DEF IInv, TurnsOK, Kept, Started1, Interrupt, TypeOK, CodexOK

\* Recording a turn of the delivery makes it the row's turn.
LEMMA MarkStartedKeeps ==
  ASSUME IInv, NEW d \in Delivery, NEW t \in Turn, turnOf[t] = d, NEW prev,
         MarkStarted(d, t, prev), UNCHANGED codex
  PROVE  /\ Kept /\ Started1' /\ UNCHANGED msgTurn
         /\ t \in Recorded(d)'
         /\ turnId'[d] = t /\ \A e \in Delivery \ {d} : turnId'[e] = turnId[e]
<1>1. TypeOK /\ TurnsOK
  BY DEF IInv
<1>2. Kept /\ Started1' /\ UNCHANGED msgTurn
  BY <1>1 DEF Kept, Started1, TurnsOK, MarkStarted, codex, TypeOK, DaemonOK
<1>3. t \in Recorded(d)'
  BY <1>1 DEF Recorded, Turns, MarkStarted, codex, TypeOK, DaemonOK
<1>4. turnId'[d] = t /\ \A e \in Delivery \ {d} : turnId'[e] = turnId[e]
  BY <1>1 DEF MarkStarted, TypeOK, RowsOK
<1> QED BY <1>2, <1>3, <1>4

\* When evidence is kept, the rows need only name the turns they named before,
\* or recorded ones, and be completed only on evidence.
LEMMA RowsEvidence ==
  ASSUME IInv, Kept, Started1', TypeOK',
         \A d \in Delivery : \/ msgTurn'[d] \in {msgTurn[d], None}
                             \/ msgTurn'[d] \in Turn /\ turnOf'[msgTurn'[d]] = d,
         \A d \in Delivery : turnId'[d] \in {turnId[d], None}
                               \/ turnId'[d] \in Recorded(d)',
         \A d \in Delivery : status'[d] = "completed" =>
           \/ status[d] = "completed"
           \/ \E t \in Recorded(d) : turnRow[t] = "acked" \/ turnState[t] = "completed"
  PROVE  TurnsOK' /\ CompletedIsConsumed'
<1>1. TypeOK /\ TurnsOK /\ CompletedIsConsumed
  BY DEF IInv
<1>2. \A d \in Delivery : d # None
  BY ConstantsAssumption
<1>3. \A d \in Delivery, t \in Turn : t \in Recorded(d) => t \in Recorded(d)'
  BY <1>2 DEF Kept, Recorded, Turns
<1>4. TurnsOK'
  <2>1. ASSUME NEW d \in Delivery, msgTurn'[d] # None PROVE turnOf'[msgTurn'[d]] = d
    <3>1. CASE msgTurn'[d] = msgTurn[d]
      <4>1. msgTurn[d] \in Turn /\ turnOf[msgTurn[d]] = d
        BY <1>1, <2>1, <3>1 DEF TurnsOK, TypeOK, CodexOK
      <4> QED BY <1>2, <3>1, <4>1 DEF Kept
    <3> QED BY <2>1, <3>1
  <2>2. ASSUME NEW d \in Delivery, turnId'[d] # None PROVE turnId'[d] \in Recorded(d)'
    <3>1. turnId[d] # None => turnId[d] \in Turn /\ turnId[d] \in Recorded(d)
      BY <1>1 DEF TurnsOK, Recorded, Turns
    <3> QED BY <1>3, <2>2, <3>1
  <2> QED BY <2>1, <2>2 DEF TurnsOK, Started1
<1>5. CompletedIsConsumed'
  <2> SUFFICES ASSUME NEW d \in Delivery, status'[d] = "completed"
               PROVE  \E t \in Recorded(d)' : turnRow'[t] = "acked" \/ turnState'[t] = "completed"
    BY DEF CompletedIsConsumed
  <2>1. PICK t \in Recorded(d) : turnRow[t] = "acked" \/ turnState[t] = "completed"
    BY <1>1 DEF CompletedIsConsumed
  <2>2. t \in Turn /\ t \in Recorded(d)'
    BY <1>3, <2>1 DEF Recorded, Turns
  <2>3. turnRow'[t] = "acked" \/ turnState'[t] = "completed"
    BY <2>1, <2>2 DEF Kept
  <2> QED BY <2>2, <2>3
<1> QED BY <1>4, <1>5

\* The threads keep holding the turns they held.
LEMMA HoldersKept ==
  ASSUME IInv, Kept,
         \A x \in Session : \/ worker'[x] = worker[x]
                            \/ worker'[x].pc \notin {"accepted", "running"},
         \A d \in Delivery : status[d] = "processing" =>
           /\ msgTurn[d] # None => msgTurn'[d] # None
           /\ turnId[d] # None => turnId'[d] # None,
         \/ rec'.pc = "idle"
         \/ rec.pc # "idle" /\ rec'.d = rec.d /\ rec'.turn = rec.turn
  PROVE  HoldersOK'
<1>1. ASSUME NEW x \in Session, worker'[x].pc \in {"accepted", "running"}
      PROVE  /\ worker'[x].pc = "accepted" => msgTurn'[worker'[x].d] # None
             /\ worker'[x].pc = "running" => turnId'[worker'[x].d] # None
  <2>1. worker'[x] = worker[x]
    BY <1>1
  <2>2. worker[x].d \in Delivery /\ status[worker[x].d] = "processing"
    BY <1>1, <2>1, WorkerRow
  <2> QED BY <1>1, <2>1, <2>2 DEF IInv, HoldersOK
<1>2. ASSUME rec'.pc # "idle", rec'.turn # None PROVE (rec.turn \in Recorded(rec.d))'
  <2>1. /\ rec.turn \in Recorded(rec.d) /\ rec.d \in Delivery
        /\ rec'.d = rec.d /\ rec'.turn = rec.turn
    BY <1>2 DEF IInv, HoldersOK, RecOK
  <2>2. rec.d # None
    BY <2>1, ConstantsAssumption
  <2> QED BY <2>1, <2>2 DEF Kept, Recorded, Turns
<1> QED BY <1>1, <1>2 DEF HoldersOK

\* The worker's steps: an accepted turn is recorded as the row's, and the row
\* is completed only when that turn is.
LEMMA WorkerEvidence ==
  ASSUME IInv, NEW s \in Session, WorkerStep(s), TypeOK'
  PROVE  Evidence'
<1> DEFINE d == worker[s].d
<1>t. TypeOK /\ TurnsOK /\ HoldersOK
  BY DEF IInv
<1>d. worker[s].pc # "none" => d \in Delivery
  BY WorkerRow
<1>rec. UNCHANGED rec
  BY DEF WorkerStep, PrepareFails, Prepare, SendFails, SendUnanswered, SendAccepted,
         AnswerLost, AnswerMalformed, SaveTurn, SaveTurnFails, LoseTurn, FinishTurn
<1>hold. rec'.pc = "idle" \/ (rec.pc # "idle" /\ rec'.d = rec.d /\ rec'.turn = rec.turn)
  BY <1>rec
<1>exit. Exit(s) => \A x \in Session : \/ worker'[x] = worker[x]
                                       \/ worker'[x].pc \notin {"accepted", "running"}
  BY <1>t DEF Exit, NoWorker, TypeOK, DaemonOK
<1>rest. ASSUME UNCHANGED <<turnOf, turnRow, turnState, msgTurn, turnId>>,
                \A x \in Session : \/ worker'[x] = worker[x]
                                   \/ worker'[x].pc \notin {"accepted", "running"},
                \A e \in Delivery : status'[e] = "completed" =>
                  \/ status[e] = "completed"
                  \/ \E t \in Recorded(e) : turnRow[t] = "acked" \/ turnState[t] = "completed"
         PROVE  Evidence'
  <2>1. Kept /\ Started1'
    BY <1>rest, SameKeeps
  <2>2. TurnsOK' /\ CompletedIsConsumed'
    BY <1>rest, <2>1, RowsEvidence
  <2>3. HoldersOK'
    BY <1>rest, <1>hold, <2>1, HoldersKept
  <2> QED BY <2>2, <2>3 DEF Evidence
<1>fin. \A st, ts : Finish(d, st, ts) =>
          /\ UNCHANGED turnId
          /\ \A e \in Delivery : status'[e] = IF e = d THEN st ELSE status[e]
  BY <1>t DEF Finish, TypeOK, RowsOK
<1>1. CASE \/ PrepareFails(s) \/ AnswerMalformed(s) \/ SaveTurnFails(s)
           \/ \E outcome \in Waiting \cup {"retry", "failed"} : SendFails(s, outcome)
  <2>1. \E st \in Waiting \cup {"retry", "failed"} : \E ts : Finish(d, st, ts)
    BY <1>1 DEF PrepareFails, AnswerMalformed, SaveTurnFails, SendFails
  <2>2. /\ UNCHANGED <<turnOf, turnRow, turnState, msgTurn>> /\ Exit(s)
    BY <1>1 DEF PrepareFails, AnswerMalformed, SaveTurnFails, SendFails, codex
  <2> QED BY <1>rest, <1>exit, <1>fin, <2>1, <2>2 DEF Waiting
<1>2. CASE SendUnanswered(s) \/ AnswerLost(s) \/ LoseTurn(s)
  BY <1>2, <1>rest, <1>exit DEF SendUnanswered, AnswerLost, LoseTurn, rows, codex
<1>3. CASE Prepare(s)
  <2>1. PICK fresh \in BOOLEAN :
          LET planned == Planned(RecordOf(d), fresh) IN
          \/ Exit(s) /\ \/ status' = planned
                        \/ \E st \in {"canceled", "waiting_permission"} :
                             status' = [planned EXCEPT ![d] = st]
          \/ worker' = [worker EXCEPT ![s].pc = "send"] /\ status' = planned
    BY <1>3 DEF Prepare
  <2>2. \A e \in Delivery : status'[e] = "completed" => status[e] = "completed"
    BY <2>1 DEF Planned
  <2>3. \A x \in Session : \/ worker'[x] = worker[x]
                           \/ worker'[x].pc \notin {"accepted", "running"}
    <3>1. worker' = [worker EXCEPT ![s].pc = "send"] =>
            \A x \in Session : \/ worker'[x] = worker[x]
                               \/ worker'[x].pc \notin {"accepted", "running"}
      BY <1>t DEF TypeOK, DaemonOK
    <3> QED BY <1>exit, <2>1, <3>1
  <2> QED BY <1>3, <1>rest, <2>2, <2>3 DEF Prepare, codex
<1>4. CASE FinishTurn(s)
  <2>1. d \in Delivery /\ turnId[d] # None
    BY <1>4, <1>t, <1>d DEF FinishTurn, At, HoldersOK
  <2>2. turnId[d] \in Recorded(d)
    BY <1>t, <2>1 DEF TurnsOK
  <2>3. PICK st, ts : /\ Finish(d, st, ts)
                      /\ st = "completed" => turnState[turnId[d]] = "completed"
    BY <1>4 DEF FinishTurn, AfterTurn
  <2> QED BY <1>4, <1>rest, <1>exit, <1>fin, <2>2, <2>3 DEF FinishTurn, codex
<1>5. CASE SendAccepted(s)
  <2>1. d \in Delivery /\ Accept(d)
    BY <1>5, <1>d DEF SendAccepted, At
  <2>2. /\ Kept /\ Started1'
        /\ \A e \in Delivery : msgTurn'[e] = msgTurn[e]
                                 \/ (msgTurn'[e] \in Turn /\ turnOf'[msgTurn'[e]] = e)
        /\ msgTurn'[d] # None
    BY <1>5, <2>1, AcceptKeeps DEF SendAccepted
  <2>3. TurnsOK' /\ CompletedIsConsumed'
    BY <1>5, <2>2, RowsEvidence DEF SendAccepted, rows
  <2>4. HoldersOK'
    <3>1. /\ \A x \in Session \ {s} : worker'[x] = worker[x]
          /\ worker'[s].pc = "accepted" /\ worker'[s].d = d
      BY <1>5, <1>t DEF SendAccepted, TypeOK, DaemonOK
    <3>2. ASSUME NEW x \in Session \ {s}, worker[x].pc = "accepted"
          PROVE  msgTurn'[worker[x].d] # None
      <4>1. worker[x].d \in Delivery /\ msgTurn[worker[x].d] # None
        BY <1>t, <3>2, WorkerRow DEF HoldersOK
      <4> QED BY <2>2, <4>1, ConstantsAssumption
    <3>3. ASSUME NEW x \in Session \ {s}, worker[x].pc = "running"
          PROVE  turnId'[worker[x].d] # None
      BY <1>5, <1>t, <3>3 DEF SendAccepted, rows, HoldersOK
    <3>4. rec.pc # "idle" /\ rec.turn # None => (rec.turn \in Recorded(rec.d))'
      <4>1. SUFFICES ASSUME rec.pc # "idle", rec.turn # None
                     PROVE  (rec.turn \in Recorded(rec.d))'
        OBVIOUS
      <4>2. rec.turn \in Recorded(rec.d) /\ rec.d \in Delivery
        BY <1>t, <4>1 DEF HoldersOK, IInv, RecOK
      <4> QED BY <1>rec, <2>2, <4>2, ConstantsAssumption DEF Kept, Recorded, Turns
    <3> QED BY <1>rec, <2>2, <3>1, <3>2, <3>3, <3>4 DEF HoldersOK
  <2> QED BY <2>3, <2>4 DEF Evidence
<1>6. CASE SaveTurn(s)
  <2>1. d \in Delivery /\ msgTurn[d] # None
    BY <1>6, <1>t, <1>d DEF SaveTurn, At, HoldersOK
  <2>2. PICK c \in Delivery, t \in Turn : c = d /\ t = msgTurn[d] /\ turnOf[t] = c
    BY <1>t, <2>1 DEF TurnsOK, TypeOK, CodexOK
  <2>3. /\ Kept /\ Started1' /\ UNCHANGED msgTurn
        /\ t \in Recorded(c)'
        /\ turnId'[c] = t /\ \A e \in Delivery \ {c} : turnId'[e] = turnId[e]
    <3>1. MarkStarted(c, t, worker[s].cont) /\ UNCHANGED codex
      BY <1>6, <2>2 DEF SaveTurn
    <3> QED BY <2>2, <3>1, MarkStartedKeeps
  <2>4. TurnsOK' /\ CompletedIsConsumed'
    <3>1. \A e \in Delivery : turnId'[e] = turnId[e] \/ turnId'[e] \in Recorded(e)'
      BY <2>3
    <3>2. UNCHANGED <<status, msgTurn>>
      BY <1>6, <2>3 DEF SaveTurn, MarkStarted
    <3> QED BY <2>3, <3>1, <3>2, RowsEvidence
  <2>5. HoldersOK'
    <3>1. /\ \A x \in Session \ {s} : worker'[x] = worker[x]
          /\ worker'[s].pc = "running" /\ worker'[s].d = d
      BY <1>6, <1>t DEF SaveTurn, TypeOK, DaemonOK
    <3>2. ASSUME NEW x \in Session \ {s}, worker[x].pc = "accepted"
          PROVE  msgTurn'[worker[x].d] # None
      BY <1>t, <2>3, <3>2 DEF HoldersOK
    <3>3. ASSUME NEW x \in Session \ {s}, worker[x].pc = "running"
          PROVE  turnId'[worker[x].d] # None
      <4>1. worker[x].d \in Delivery /\ turnId[worker[x].d] # None
        BY <1>t, <3>3, WorkerRow DEF HoldersOK
      <4> QED BY <2>3, <4>1, ConstantsAssumption
    <3>4. rec.pc # "idle" /\ rec.turn # None => (rec.turn \in Recorded(rec.d))'
      <4>1. SUFFICES ASSUME rec.pc # "idle", rec.turn # None
                     PROVE  (rec.turn \in Recorded(rec.d))'
        OBVIOUS
      <4>2. rec.turn \in Recorded(rec.d) /\ rec.d \in Delivery
        BY <1>t, <4>1 DEF HoldersOK, IInv, RecOK
      <4> QED BY <1>rec, <2>3, <4>2, ConstantsAssumption DEF Kept, Recorded, Turns
    <3> QED BY <1>rec, <2>1, <2>2, <2>3, <3>1, <3>2, <3>3, <3>4, ConstantsAssumption DEF HoldersOK
  <2> QED BY <2>4, <2>5 DEF Evidence
<1> QED BY <1>1, <1>2, <1>3, <1>4, <1>5, <1>6 DEF WorkerStep

\* The reconciler completes a row only for a turn that is acknowledged or
\* completed, and names only turns of the row.
LEMMA ReconcileEvidence ==
  ASSUME IInv, NEW d \in Delivery, ReconcileStep(d), TypeOK'
  PROVE  Evidence'
<1>t. TypeOK /\ TurnsOK /\ HoldersOK
  BY DEF IInv
<1>worker. UNCHANGED worker
  BY DEF ReconcileStep, Visit, Materialize, FinishAcknowledged, ReadThread, NoticeQueued,
         ContinueUnconfirmed, CancelUncertain, CancelUnconfirmed, ResetUnsent,
         RecordFound, FailClaimed, FailUnavailable, ReconcileClaimed,
         ReconcileCompleted, ReconcileFailed, ReconcileStale, BeginStop,
         ReconcileAs, LeaveTurns, Adopt
<1>rest. ASSUME UNCHANGED <<turnOf, turnRow, turnState, msgTurn, turnId>>,
                rec'.pc = "idle" \/ (rec.pc # "idle" /\ rec'.d = rec.d /\ rec'.turn = rec.turn),
                \A e \in Delivery : status'[e] = "completed" =>
                  \/ status[e] = "completed"
                  \/ \E t \in Recorded(e) : turnRow[t] = "acked" \/ turnState[t] = "completed"
         PROVE  Evidence'
  <2>1. Kept /\ Started1'
    BY <1>rest, SameKeeps
  <2>2. TurnsOK' /\ CompletedIsConsumed'
    BY <1>rest, <2>1, RowsEvidence
  <2>3. HoldersOK'
    BY <1>rest, <1>worker, <2>1, HoldersKept
  <2> QED BY <2>2, <2>3 DEF Evidence
<1>done. Done => rec'.pc = "idle"
  BY DEF Done, Idle
<1>fin. \A st, ts : Finish(d, st, ts) =>
          /\ UNCHANGED turnId
          /\ \A e \in Delivery : status'[e] = IF e = d THEN st ELSE status[e]
  BY <1>t DEF Finish, TypeOK, RowsOK
<1>turn. rec.pc # "idle" /\ rec.d = d /\ rec.turn # None => rec.turn \in Recorded(d)
  BY <1>t DEF HoldersOK
<1>1. CASE Visit(d)
  <2>1. Kept /\ Started1'
    BY <1>1, SameKeeps DEF Visit, LeaveTurns, codex
  <2>2. TurnsOK' /\ CompletedIsConsumed'
    BY <1>1, <2>1, RowsEvidence DEF Visit, LeaveTurns, rows, codex
  <2>3. HoldersOK'
    <3>1. rec' = [pc |-> "visit", d |-> d, turn |-> turnId[d], ts |-> turnStatus[d]]
      BY <1>1 DEF Visit
    <3>2. rec'.turn # None => (rec.turn \in Recorded(rec.d))'
      <4>1. turnId[d] # None => turnId[d] \in Recorded(d)
        BY <1>t DEF TurnsOK
      <4> QED BY <1>1, <3>1, <4>1 DEF Visit, LeaveTurns, codex, Recorded, Turns
    <3> QED BY <1>1, <1>t, <3>1, <3>2 DEF Visit, LeaveTurns, rows, codex, HoldersOK
  <2> QED BY <2>2, <2>3 DEF Evidence
<1>2. CASE Materialize(d) \/ RecordFound(d)
  <2>1. /\ msgTurn[d] # None /\ rec.pc # "idle" /\ rec.d = d
        /\ UNCHANGED codex
        /\ \E prev : MarkStarted(d, msgTurn[d], prev)
    BY <1>2 DEF Materialize, RecordFound, Adopt, Started, Seeing
  <2>2. PICK t \in Turn : t = msgTurn[d] /\ turnOf[t] = d
    BY <1>t, <2>1 DEF TurnsOK, TypeOK, CodexOK
  <2>3. PICK prev : MarkStarted(d, t, prev)
    BY <2>1, <2>2
  <2>4. /\ Kept /\ Started1' /\ UNCHANGED msgTurn
        /\ t \in Recorded(d)'
        /\ turnId'[d] = t /\ \A e \in Delivery \ {d} : turnId'[e] = turnId[e]
    BY <2>1, <2>2, <2>3, MarkStartedKeeps
  <2>5. UNCHANGED status
    BY <2>3 DEF MarkStarted
  <2>6. TurnsOK' /\ CompletedIsConsumed'
    <3>1. \A e \in Delivery : turnId'[e] = turnId[e] \/ turnId'[e] \in Recorded(e)'
      BY <2>4
    <3> QED BY <2>4, <2>5, <3>1, RowsEvidence
  <2>7. HoldersOK'
    <3>1. rec'.turn = t /\ rec'.d = d
      BY <1>2, <1>t, <2>1, <2>2 DEF Materialize, RecordFound, TypeOK, DaemonOK
    <3>2. (rec.turn \in Recorded(rec.d))'
      BY <2>4, <3>1 DEF Recorded, Turns
    <3>3. ASSUME NEW x \in Session
          PROVE  /\ worker[x].pc = "accepted" => msgTurn'[worker[x].d] # None
                 /\ worker[x].pc = "running" => turnId'[worker[x].d] # None
      <4>1. worker[x].pc # "none" => worker[x].d \in Delivery
        BY WorkerRow
      <4> QED BY <1>t, <2>4, <4>1, ConstantsAssumption DEF HoldersOK
    <3> QED BY <1>worker, <3>2, <3>3 DEF HoldersOK
  <2> QED BY <2>6, <2>7 DEF Evidence
<1>3. CASE ReadThread(d) \/ BeginStop(d)
  <2>1. rec.pc # "idle" /\ rec'.d = rec.d /\ rec'.turn = rec.turn
    BY <1>3, <1>t DEF ReadThread, BeginStop, Seen, Seeing, TypeOK, DaemonOK
  <2> QED BY <1>3, <1>rest, <2>1 DEF ReadThread, BeginStop, LeaveTurns, rows, codex
<1>4. CASE FinishAcknowledged(d)
  <2>1. \E t \in Recorded(d) : turnRow[t] = "acked"
    <3>1. CASE rec.pc # "idle" /\ rec.d = d /\ Answered(d)
      BY <1>turn, <3>1 DEF Answered, Acked
    <3>2. CASE Acked(turnId[d])
      BY <1>t, <3>2 DEF Acked, TurnsOK
    <3> QED BY <1>4, <3>1, <3>2 DEF FinishAcknowledged, Seen, Seeing
  <2> QED BY <1>4, <1>rest, <1>done, <1>fin, <2>1
          DEF FinishAcknowledged, ReconcileAs, LeaveTurns, codex
<1>5. CASE ReconcileCompleted(d)
  <2>1. \E t \in Recorded(d) : turnState[t] = "completed"
    BY <1>5, <1>turn DEF ReconcileCompleted, SeenEnded, Seen, Seeing
  <2> QED BY <1>5, <1>rest, <1>done, <1>fin, <2>1
          DEF ReconcileCompleted, ReconcileAs, LeaveTurns, codex
<1>6. CASE ResetUnsent(d)
  BY <1>6, <1>t, <1>rest, <1>done DEF ResetUnsent, LeaveTurns, codex, TypeOK, RowsOK
<1>7. CASE \/ NoticeQueued(d) \/ ContinueUnconfirmed(d) \/ FailClaimed(d)
           \/ FailUnavailable(d) \/ ReconcileClaimed(d) \/ ReconcileFailed(d)
           \/ CancelUnconfirmed(d) \/ ReconcileStale(d) \/ CancelUncertain(d)
  <2>1. \E st \in {"processing", "retry", "failed", "canceled"} : \E ts : Finish(d, st, ts)
    BY <1>7 DEF NoticeQueued, ContinueUnconfirmed, FailClaimed, FailUnavailable,
                ReconcileClaimed, ReconcileFailed, CancelUnconfirmed, ReconcileStale,
                CancelUncertain, CancelReconciled, ReconcileAs, AfterTurn
  <2>2. LeaveTurns
    BY <1>7 DEF NoticeQueued, ContinueUnconfirmed, FailClaimed, FailUnavailable,
                ReconcileClaimed, ReconcileFailed, CancelUnconfirmed, ReconcileStale,
                CancelUncertain, ReconcileAs
  <2>3. rec'.pc = "idle" \/ (rec.pc # "idle" /\ rec'.d = rec.d /\ rec'.turn = rec.turn)
    <3>1. CASE CancelUncertain(d)
      BY <3>1, <1>t DEF CancelUncertain, Unconfirmed, Seeing, TypeOK, DaemonOK
    <3>2. CASE ~CancelUncertain(d)
      <4>1. Done
        BY <1>7, <3>2
           DEF NoticeQueued, ContinueUnconfirmed, FailClaimed, FailUnavailable,
               ReconcileClaimed, ReconcileFailed, CancelUnconfirmed, ReconcileStale,
               ReconcileAs
      <4> QED BY <1>done, <4>1
    <3> QED BY <3>1, <3>2
  <2> QED BY <1>rest, <1>fin, <2>1, <2>2, <2>3 DEF LeaveTurns, codex
<1> QED BY <1>1, <1>2, <1>3, <1>4, <1>5, <1>6, <1>7 DEF ReconcileStep

\* Stopping and withdrawing turns loses no evidence.
LEMMA ReconcilerEvidence ==
  ASSUME IInv, ReconcilerStep, TypeOK'
  PROVE  Evidence'
<1>t. TypeOK /\ RecOK
  BY DEF IInv
<1>1. Kept /\ Started1' /\ UNCHANGED msgTurn
  <2>1. CASE StopTurn
    BY <2>1, InterruptKeeps DEF StopTurn
  <2>2. CASE UNCHANGED <<turnOf, turnRow, turnState, msgTurn>>
    BY <2>2, SameKeeps
  <2>3. CASE Withdraw
    BY <2>3, <2>2, InterruptKeeps DEF Withdraw, codex
  <2> QED BY <2>1, <2>2, <2>3 DEF ReconcilerStep, Pass, StopTurnFails, CancelStopped,
                                  CancelStoppedFails, Defer, LeaveTurns, codex
<1>2. /\ UNCHANGED <<turnId, worker>>
      /\ \A e \in Delivery : status'[e] = "completed" => status[e] = "completed"
  <2>1. CASE CancelStopped
    BY <2>1, <1>t DEF CancelStopped, CancelReconciled, Finish, LeaveTurns, TypeOK, RowsOK
  <2> QED BY <2>1 DEF ReconcilerStep, Pass, StopTurn, StopTurnFails,
                      CancelStoppedFails, Withdraw, Defer, LeaveTurns, rows
<1>3. rec'.pc = "idle" \/ (rec.pc # "idle" /\ rec'.d = rec.d /\ rec'.turn = rec.turn)
  <2>1. CASE StopTurn
    BY <2>1, <1>t DEF StopTurn, TypeOK, DaemonOK
  <2>2. CASE ~StopTurn
    <3>1. Done
      BY <2>2 DEF ReconcilerStep, Pass, StopTurnFails, CancelStopped,
                  CancelStoppedFails, Withdraw, Defer
    <3> QED BY <3>1 DEF Done, Idle
  <2> QED BY <2>1, <2>2
<1>4. TurnsOK' /\ CompletedIsConsumed'
  BY <1>1, <1>2, RowsEvidence
<1>5. HoldersOK'
  BY <1>1, <1>2, <1>3, HoldersKept
<1> QED BY <1>4, <1>5 DEF Evidence

\* Nobody else completes a row, and nobody takes a turn or its record back.
LEMMA OthersEvidence ==
  ASSUME IInv, Next, TypeOK',
         ~ \E s \in Session : WorkerStep(s),
         ~ \E d \in Delivery : ReconcileStep(d),
         ~ ReconcilerStep
  PROVE  Evidence'
<1>t. TypeOK /\ TurnsOK /\ HoldersOK /\ RecOK
  BY DEF IInv
<1>rest. ASSUME Kept, Started1',
                \A d \in Delivery : \/ msgTurn'[d] = msgTurn[d]
                                    \/ msgTurn'[d] \in Turn /\ turnOf'[msgTurn'[d]] = d,
                UNCHANGED turnId,
                UNCHANGED <<worker, rec>>,
                \A e \in Delivery : status'[e] = "completed" => status[e] = "completed"
         PROVE  Evidence'
  <2>1. TurnsOK' /\ CompletedIsConsumed'
    BY <1>rest, RowsEvidence
  <2>2. HoldersOK'
    <3>1. rec'.pc = "idle" \/ (rec.pc # "idle" /\ rec'.d = rec.d /\ rec'.turn = rec.turn)
      BY <1>rest
    <3>2. \A x \in Session : \/ worker'[x] = worker[x]
                             \/ worker'[x].pc \notin {"accepted", "running"}
      BY <1>rest DEF NoWorker
    <3>3. \A d \in Delivery : msgTurn[d] # None => msgTurn'[d] # None
      BY <1>rest, ConstantsAssumption
    <3> QED BY <1>rest, <3>1, <3>2, <3>3, HoldersKept
  <2> QED BY <2>1, <2>2 DEF Evidence
<1>same. ASSUME UNCHANGED <<turnOf, turnRow, turnState, msgTurn, turnId>>,
                UNCHANGED <<worker, rec>>,
                \A e \in Delivery : status'[e] = "completed" => status[e] = "completed"
         PROVE  Evidence'
  BY <1>same, <1>rest, SameKeeps
<1>1. ASSUME NEW r \in Record, SaveSnapshot(r) PROVE Evidence'
  <2>1. PICK fresh \in BOOLEAN : status' = Planned(r, fresh)
    BY <1>1 DEF SaveSnapshot
  <2> QED BY <1>1, <1>same, <2>1 DEF SaveSnapshot, Planned, codex
<1>2. ASSUME NEW r \in Record, EditCard(r) \/ RecordStop(r) PROVE Evidence'
  BY <1>2, <1>same DEF EditCard, RecordStop, rows, codex
<1>3. ASSUME NEW r \in Record, InterruptTask(r) PROVE Evidence'
  <2>1. Kept /\ Started1' /\ UNCHANGED msgTurn
    BY <1>3, InterruptKeeps DEF InterruptTask
  <2> QED BY <1>3, <1>rest, <2>1 DEF InterruptTask, rows
<1>4. ASSUME NEW d \in Delivery, ClaimCancels(d) PROVE Evidence'
  BY <1>4, <1>t, <1>same DEF ClaimCancels, Finish, codex, TypeOK, RowsOK
<1>5. ASSUME NEW d \in Delivery, Claim(d) PROVE Evidence'
  <2>1. Kept /\ Started1'
    BY <1>5, SameKeeps DEF Claim
  <2>2. /\ \A e \in Delivery : msgTurn'[e] \in {msgTurn[e], None}
        /\ \A e \in Delivery : turnId'[e] \in {turnId[e], None}
        /\ \A e \in Delivery : status'[e] = "completed" => status[e] = "completed"
        /\ \A e \in Delivery \ {d} : msgTurn'[e] = msgTurn[e] /\ turnId'[e] = turnId[e]
        /\ status[d] # "processing"
    BY <1>5, <1>t DEF Claim, Claimable, TypeOK, RowsOK, CodexOK
  <2>3. TurnsOK' /\ CompletedIsConsumed'
    BY <2>1, <2>2, RowsEvidence
  <2>4. \A x \in Session : \/ worker'[x] = worker[x]
                           \/ worker'[x].pc \notin {"accepted", "running"}
    BY <1>5, <1>t, DeliveryParts DEF Claim, TypeOK, DaemonOK
  <2>5. rec'.pc = "idle"
    BY <1>5 DEF Claim, Consuming, Idle
  <2>6. HoldersOK'
    BY <2>1, <2>2, <2>4, <2>5, HoldersKept
  <2> QED BY <2>3, <2>6 DEF Evidence
<1>6. ASSUME NEW d \in Delivery, LateAccept(d) PROVE Evidence'
  <2>1. /\ Kept /\ Started1'
        /\ \A e \in Delivery : msgTurn'[e] = msgTurn[e]
                                 \/ (msgTurn'[e] \in Turn /\ turnOf'[msgTurn'[e]] = e)
    BY <1>6, AcceptKeeps DEF LateAccept
  <2> QED BY <1>6, <1>rest, <2>1 DEF LateAccept, rows
<1>7. ASSUME NEW d \in Delivery, DropRequest(d) PROVE Evidence'
  BY <1>7, <1>same DEF DropRequest, rows
<1>8. ASSUME NEW s \in Session, OwnerFound(s) PROVE Evidence'
  BY <1>8, <1>same DEF OwnerFound, codex
<1>9. ASSUME NEW s \in Session, SyncTool(s) PROVE Evidence'
  <2>1. Kept /\ Started1'
    BY <1>9, <1>t DEF SyncTool, codex, Kept, Started1, TurnsOK, TypeOK, DaemonOK
  <2> QED BY <1>9, <1>rest, <2>1 DEF SyncTool, codex, rows
<1>10. ASSUME NEW s \in Session, DeleteSession(s) PROVE Evidence'
  <2>1. Kept /\ Started1'
    BY <1>10, <1>t DEF DeleteSession, Kept, Started1, TurnsOK, TypeOK, CodexOK
  <2> QED BY <1>10, <1>rest, <2>1 DEF DeleteSession, rows
<1>11. CASE ResumePermission
  BY <1>11, <1>same DEF ResumePermission, codex
<1>12. CASE Crash
  <2>1. Kept /\ Started1'
    BY <1>12, SameKeeps DEF Crash, codex
  <2>2. TurnsOK' /\ CompletedIsConsumed'
    BY <1>12, <2>1, RowsEvidence DEF Crash, rows, codex
  <2>3. HoldersOK'
    BY <1>12 DEF Crash, HoldersOK, Idle, NoWorker
  <2> QED BY <2>2, <2>3 DEF Evidence
<1>13. CASE Restart
  BY <1>13, <1>same DEF Restart, codex
<1>14. CASE Recover
  BY <1>14, <1>same DEF Recover, codex
<1>15. ASSUME NEW t \in Turn, EndTurn(t) PROVE Evidence'
  <2>1. Kept /\ Started1'
    BY <1>15, <1>t DEF EndTurn, Ended, Kept, Started1, TurnsOK, TypeOK, CodexOK
  <2> QED BY <1>15, <1>rest, <2>1 DEF EndTurn, rows
<1>16. ASSUME NEW t \in Turn, LogStart(t) PROVE Evidence'
  BY <1>16, <1>same DEF LogStart, rows
<1>17. ASSUME NEW t \in Turn, NEW r \in Record, WriteCard(t, r) PROVE Evidence'
  BY <1>17, <1>same DEF WriteCard, rows, codex
<1>18. ASSUME NEW s \in Session, NEW t \in Turn \cup {None}, NEW r \in Record,
              ReadCard(s, t, r)
       PROVE  Evidence'
  BY <1>18, <1>same DEF ReadCard, rows, codex
<1> QED
  BY <1>1, <1>2, <1>3, <1>4, <1>5, <1>6, <1>7, <1>8, <1>9, <1>10, <1>11, <1>12,
     <1>13, <1>14, <1>15, <1>16, <1>17, <1>18 DEF Next

-----------------------------------------------------------------------------
\* The empty database of a daemon that has just started satisfies IInv.
LEMMA InitInv == Init => IInv
<1> SUFFICES ASSUME Init PROVE IInv
  OBVIOUS
<1>1. BoardOK
  <2>1. (CHOOSE x \in Role : TRUE) \in Role
    BY ConstantsAssumption
  <2> QED BY <2>1, ConstantsAssumption DEF Init, BoardOK, CardState
<1>2. RowsOK
  BY DEF Init, RowsOK, DeliveryStatus, TurnStatus
<1>3. CodexOK
  BY DEF Init, CodexOK
<1>4. CallsOK
  BY IdleTypes DEF Init, CallsOK
<1>5. DaemonOK
  BY IdleTypes, ConstantsAssumption DEF Init, DaemonOK
<1>6. SessionExclusive /\ RecOK /\ AwayOK
  BY DEF Init, SessionExclusive, Processing, RecOK, AwayOK, Idle
<1>7. TurnsOK /\ HoldersOK /\ CompletedIsConsumed
  BY DEF Init, TurnsOK, HoldersOK, CompletedIsConsumed, Idle, NoWorker
<1> QED BY <1>1, <1>2, <1>3, <1>4, <1>5, <1>6, <1>7 DEF IInv, TypeOK

\* Every step of the daemon, of Codex and of the board preserves IInv.
LEMMA NextInv == IInv /\ [Next]_vars => IInv'
<1> SUFFICES ASSUME IInv, [Next]_vars PROVE IInv'
  OBVIOUS
<1>1. ASSUME NEW s \in Session, WorkerStep(s) PROVE IInv'
  BY <1>1, WorkerType, WorkerExclusion, WorkerEvidence DEF IInv, Exclusion, Evidence
<1>2. ASSUME NEW d \in Delivery, ReconcileStep(d) PROVE IInv'
  BY <1>2, ReconcileType, ReconcileExclusion, ReconcileEvidence
     DEF IInv, Exclusion, Evidence
<1>3. CASE ReconcilerStep
  BY <1>3, ReconcilerType, ReconcilerExclusion, ReconcilerEvidence
     DEF IInv, Exclusion, Evidence
<1>4. CASE /\ Next /\ ~ReconcilerStep
           /\ ~ \E s \in Session : WorkerStep(s)
           /\ ~ \E d \in Delivery : ReconcileStep(d)
  BY <1>4, OthersType, OthersExclusion, OthersEvidence DEF IInv, Exclusion, Evidence
<1>5. CASE UNCHANGED vars
  <2>1. UNCHANGED <<board, rows, codex, turnRow, worker, rec, calls, daemon, crashes>>
    BY <1>5 DEF vars
  <2>2. TypeOK'
    BY <2>1, Frames DEF IInv, TypeOK
  <2>3. (SessionExclusive /\ RecOK /\ AwayOK)'
    BY <2>1 DEF IInv, SessionExclusive, Processing, RecOK, AwayOK, rows
  <2>4. TurnsOK' /\ CompletedIsConsumed'
    BY <2>1, <2>2, SameKeeps, RowsEvidence DEF rows, codex
  <2>5. HoldersOK'
    BY <2>1 DEF IInv, HoldersOK, Recorded, Turns, rows, codex
  <2> QED BY <2>2, <2>3, <2>4, <2>5 DEF IInv
<1> QED BY <1>1, <1>2, <1>3, <1>4, <1>5

\* IInv is an invariant of the delivery runtime.
LEMMA Invariance == Spec => []IInv
BY InitInv, NextInv, PTL DEF Spec

\* Every row, execution, turn and thread record stays well typed, whatever the
\* order of dispatches, answers, crashes and tool calls.
THEOREM TypeCorrect == Spec => []TypeOK
<1>1. IInv => TypeOK
  BY DEF IInv
<1> QED BY <1>1, Invariance, PTL

\* claim_task_deliveries and the reconciler keep every session exclusive: one
\* processing delivery at most, and the one its worker executes.
THEOREM ExclusiveSessions == Spec => []SessionExclusive
<1>1. IInv => SessionExclusive
  BY DEF IInv
<1> QED BY <1>1, Invariance, PTL

\* No delivery is ever completed without a recorded turn that completed or
\* acknowledged it, even with stale row copies, late tool calls and malformed
\* answers.
THEOREM ConsumedOnEvidence == Spec => []CompletedIsConsumed
<1>1. IInv => CompletedIsConsumed
  BY DEF IInv
<1> QED BY <1>1, Invariance, PTL

-----------------------------------------------------------------------------
(***************************************************************************)
(* What the rows do in a step, and from it TerminalStays, ClaimKept and the *)
(* refinement of Notification.  The row a reconciliation works on is read   *)
(* once and used later; with "staleRow" a worker may settle it in between,  *)
(* and then finish_task_delivery, which looks at nothing, overwrites it.    *)
(* These results are for the behaviours without that race.                  *)
(***************************************************************************)

\* RowInv: while a reconciliation goes on, the row is the one it read and its
\* session has no worker; a row that was never claimed has no turn; a claimed one
\* has a client message id; a worker's row has the turn the worker continues.
VisitOK == rec.pc \in {"visit", "thread", "stop", "cancel"} =>
             /\ status[rec.d] = "processing" /\ turnId[rec.d] = rec.turn
             /\ worker[SessionOf(rec.d)] = NoWorker
FreshOK == \A d \in Delivery : status[d] \in {"absent", "pending"} => turnId[d] = None
SentOK == \A d \in Delivery : status[d] = "processing" => hasMsg[d]
ContOK == \A s \in Session : worker[s].pc \in {"prepare", "send", "accepted"} =>
                               turnId[worker[s].d] = worker[s].cont
RowInv == VisitOK /\ FreshOK /\ SentOK /\ ContOK

\* What a step may do to a row: nothing much; or, for one row d, a claim, giving it
\* back, consuming it or dropping it; Unheld: not while the agent holds the card.
Quiet(e) == \/ status'[e] = status[e]
            \/ status[e] = "absent" /\ status'[e] = "pending"
            \/ status[e] \in Waiting /\ status'[e] = "retry"
Unheld(d) == Active(d, turnId[d]) /\ Active(d, turnId[d])' => SessionOf(d) \in gone
Retried(e) == \/ status'[e] = status[e]
              \/ status[e] \in Waiting /\ status'[e] = "retry"
              \/ status[e] = "failed" /\ status'[e] \in {"retry", "canceled"}
Taken(d) == /\ status[d] \in Claimable /\ status'[d] = "processing"
            /\ \A e \in Delivery : status[e] = "processing" => SessionOf(e) # SessionOf(d)
Released(d) == status[d] = "processing" /\ status'[d] \in {"retry"} \cup Waiting
Consumed(d) == status[d] = "processing" /\ status'[d] = "completed" /\ Unheld(d)
Dropped(d) == /\ status[d] \in {"processing"} \cup Claimable
              /\ status'[d] \in {"failed", "canceled"} /\ Unheld(d)
RowMoves(d) == /\ \A e \in Delivery \ {d} : Quiet(e)
               /\ Quiet(d) \/ Taken(d) \/ Released(d) \/ Consumed(d) \/ Dropped(d)
RowStep == \/ \A e \in Delivery : Quiet(e)
           \/ daemon = "starting" /\ \A e \in Delivery : Retried(e)
           \/ \E d \in Delivery : RowMoves(d)

\* finish_task_delivery changes one row and neither its turn nor its message.
LEMMA FinishRow ==
  ASSUME TypeOK, NEW d \in Delivery, NEW st, NEW ts, Finish(d, st, ts)
  PROVE  /\ \A e \in Delivery \ {d} : status'[e] = status[e]
         /\ status'[d] = st /\ turnId' = turnId /\ hasMsg' = hasMsg
BY DEF Finish, TypeOK, RowsOK

\* The worker's steps: its own row is given back, consumed or dropped, and never
\* dropped while the card is claimed through it and the session exists.
LEMMA WorkerRows ==
  ASSUME IInv, RowInv, NEW s \in Session, WorkerStep(s)
  PROVE  RowStep /\ RowInv'
<1>t. TypeOK /\ SessionExclusive
  BY DEF IInv
<1>pc. worker[s].pc # "none" /\ worker[s] # NoWorker
  BY DEF WorkerStep, PrepareFails, Prepare, SendFails, SendUnanswered, SendAccepted,
         AnswerLost, AnswerMalformed, SaveTurn, SaveTurnFails, LoseTurn, FinishTurn, At,
         NoWorker
<1>is. PICK d \in Delivery : d = worker[s].d
  BY <1>pc, WorkerRow
<1>d. /\ d \in Delivery /\ SessionOf(d) = s /\ status[d] = "processing" /\ daemon = "up"
      /\ d = worker[s].d
  BY <1>pc, <1>is, WorkerRow
<1>frame. UNCHANGED <<rec, hasMsg>>
  BY DEF WorkerStep, PrepareFails, Prepare, SendFails, SendUnanswered, SendAccepted,
         AnswerLost, AnswerMalformed, SaveTurn, SaveTurnFails, LoseTurn, FinishTurn,
         Finish, MarkStarted, rows
<1>others. \A x \in Session \ {s} : worker[x] # NoWorker =>
             worker[x].d \in Delivery \ {d} /\ status[worker[x].d] = "processing"
  BY <1>t, <1>d DEF SessionExclusive, Processing
<1>step. ASSUME \A e \in Delivery \ {d} :
                  /\ status'[e] = status[e] \/ (status[e] = "absent" /\ status'[e] = "pending")
                  /\ turnId'[e] = turnId[e],
                \A x \in Session \ {s} : worker'[x] = worker[x],
                \/ worker'[s] = NoWorker
                \/ worker'[s].pc = "running"
                \/ /\ worker[s].pc \in {"prepare", "send"}
                   /\ worker'[s].d = d /\ worker'[s].cont = worker[s].cont
                   /\ turnId'[d] = turnId[d],
                \/ status'[d] \in {"processing", "retry"} \cup Waiting
                \/ status'[d] \in Terminal /\ Unheld(d)
         PROVE  RowStep /\ RowInv'
  <2>1. RowMoves(d)
    BY <1>step, <1>d DEF RowMoves, Quiet, Released, Consumed, Dropped, Terminal
  <2>2. VisitOK'
    <3>1. rec.pc \in {"visit", "thread", "stop", "cancel"} =>
            rec.d \in Delivery /\ SessionOf(rec.d) \in Session \ {s} /\ rec.d # d
      BY <1>pc, <1>d, DeliveryParts DEF RowInv, VisitOK, IInv, RecOK
    <3> QED BY <1>step, <1>frame, <3>1 DEF RowInv, VisitOK
  <2>3. FreshOK'
    <3> SUFFICES ASSUME NEW e \in Delivery, status'[e] \in {"absent", "pending"}
                 PROVE  turnId'[e] = None
      BY DEF FreshOK
    <3>1. e # d
      BY <1>step DEF Terminal, Waiting
    <3> QED BY <1>step, <3>1 DEF RowInv, FreshOK
  <2>4. SentOK'
    BY <1>step, <1>d, <1>frame DEF RowInv, SentOK
  <2>5. ContOK'
    <3> SUFFICES ASSUME NEW x \in Session, worker'[x].pc \in {"prepare", "send", "accepted"}
                 PROVE  turnId'[worker'[x].d] = worker'[x].cont
      BY DEF ContOK
    <3>1. CASE x = s
      BY <1>d, <1>step, <3>1 DEF RowInv, ContOK, NoWorker
    <3>2. CASE x # s
      <4>1. worker'[x] = worker[x] /\ worker[x].d \in Delivery \ {d}
        BY <1>step, <1>others, <3>2 DEF NoWorker
      <4> QED BY <1>step, <4>1 DEF RowInv, ContOK
    <3> QED BY <3>1, <3>2
  <2> QED BY <1>d, <2>1, <2>2, <2>3, <2>4, <2>5 DEF RowStep, RowInv
<1>exit. Exit(s) => worker'[s] = NoWorker /\ \A x \in Session \ {s} : worker'[x] = worker[x]
  BY <1>t DEF Exit, TypeOK, DaemonOK
<1>stay. ASSUME NEW pc \in {"send", "accepted", "running"},
                worker' = [worker EXCEPT ![s].pc = pc]
         PROVE  /\ worker'[s].d = d /\ worker'[s].cont = worker[s].cont
                /\ worker'[s].pc = pc
                /\ \A x \in Session \ {s} : worker'[x] = worker[x]
  BY <1>d, <1>t, <1>stay DEF TypeOK, DaemonOK
<1>1. CASE PrepareFails(s) \/ AnswerMalformed(s) \/ SaveTurnFails(s)
  <2>1. Exit(s) /\ \E ts : Finish(d, "retry", ts)
    BY <1>1, <1>d DEF PrepareFails, AnswerMalformed, SaveTurnFails
  <2> QED BY <2>1, <1>t, <1>d, <1>exit, <1>step, FinishRow
<1>2. CASE FinishTurn(s)
  <2>1. Exit(s) /\ UNCHANGED board
    BY <1>2 DEF FinishTurn
  <2>2. \E st \in {"retry", "completed", "failed"} : \E ts :
           /\ Finish(d, st, ts)
           /\ st # "retry" => ~Active(d, turnId[d])
    BY <1>2, <1>d DEF FinishTurn, AfterTurn
  <2>3. \/ status'[d] \in {"processing", "retry"} \cup Waiting
        \/ status'[d] \in Terminal /\ Unheld(d)
    BY <2>2, <1>t, <1>d, FinishRow DEF Unheld, Terminal
  <2> QED BY <2>1, <2>2, <2>3, <1>t, <1>d, <1>exit, <1>step, FinishRow
<1>3. ASSUME NEW outcome \in Waiting \cup {"retry", "failed"}, SendFails(s, outcome)
      PROVE  RowStep /\ RowInv'
  <2>1. Exit(s) /\ Finish(d, outcome, Cleared(d)) /\ (outcome = "failed" => s \in gone)
    BY <1>3, <1>d DEF SendFails
  <2>2. \/ status'[d] \in {"processing", "retry"} \cup Waiting
        \/ status'[d] \in Terminal /\ Unheld(d)
    BY <2>1, <1>t, <1>d, FinishRow DEF Unheld, Terminal
  <2> QED BY <2>1, <2>2, <1>t, <1>d, <1>exit, <1>step, FinishRow
<1>4. CASE SendUnanswered(s) \/ AnswerLost(s) \/ LoseTurn(s)
  BY <1>4, <1>d, <1>exit, <1>step DEF SendUnanswered, AnswerLost, LoseTurn, rows
<1>5. CASE SendAccepted(s)
  BY <1>5, <1>d, <1>stay, <1>step DEF SendAccepted, rows, At
<1>6. CASE SaveTurn(s)
  <2>1. /\ status' = status
        /\ \A e \in Delivery \ {d} : turnId'[e] = turnId[e]
    BY <1>6, <1>t, <1>d DEF SaveTurn, MarkStarted, TypeOK, RowsOK
  <2>2. worker' = [worker EXCEPT ![s].pc = "running"]
    BY <1>6 DEF SaveTurn
  <2> QED BY <1>d, <1>stay, <1>step, <2>1, <2>2
<1>7. CASE Prepare(s)
  <2>1. PICK fresh \in BOOLEAN :
          LET planned == Planned(RecordOf(d), fresh) IN
          \/ /\ Exit(s)
             /\ \/ status' = planned
                \/ status' = [planned EXCEPT ![d] = "waiting_permission"]
                \/ worker[s].cont = None /\ status' = [planned EXCEPT ![d] = "canceled"]
          \/ /\ worker' = [worker EXCEPT ![s].pc = "send"]
             /\ status' = planned
    BY <1>7, <1>d DEF Prepare
  <2> DEFINE planned == Planned(RecordOf(d), fresh)
  <2>2. /\ planned[d] = status[d]
        /\ \A e \in Delivery \ {d} :
             \/ planned[e] = status[e]
             \/ status[e] = "absent" /\ planned[e] = "pending"
    BY <1>d DEF Planned
  <2>3. planned \in [Delivery -> DeliveryStatus]
    BY <1>t, <1>d, DeliveryParts, ObserveType
  <2>4. At(s, "prepare") /\ turnId' = turnId
    BY <1>7 DEF Prepare
  <2>5. worker[s].cont = None => turnId[d] = None
    BY <2>4, <1>d DEF At, RowInv, ContOK
  <2> HIDE DEF planned
  <2>6. worker[s].cont = None => Unheld(d)
    BY <2>5, <1>d DEF Unheld, Active, ActiveIn
  <2>7. CASE Exit(s)
    <3>1. /\ \A e \in Delivery \ {d} : status'[e] = planned[e]
          /\ \/ status'[d] = planned[d] \/ status'[d] = "waiting_permission"
             \/ status'[d] = "canceled" /\ worker[s].cont = None
             \/ status' = planned
      <4>1. \/ status' = planned
            \/ status' = [planned EXCEPT ![d] = "waiting_permission"]
            \/ worker[s].cont = None /\ status' = [planned EXCEPT ![d] = "canceled"]
        BY <2>1 DEF planned
      <4> QED BY <2>3, <4>1, <1>d
    <3>2. \/ status'[d] \in {"processing", "retry"} \cup Waiting
          \/ status'[d] \in Terminal /\ Unheld(d)
      BY <1>d, <2>2, <2>6, <3>1 DEF Waiting, Terminal
    <3> QED BY <1>step, <1>exit, <2>2, <2>4, <2>7, <3>1, <3>2
  <2>8. CASE /\ worker' = [worker EXCEPT ![s].pc = "send"]
             /\ status' = planned
    BY <1>step, <1>stay, <1>d, <2>2, <2>4, <2>8 DEF At
  <2> QED BY <2>1, <2>7, <2>8 DEF planned
<1> QED BY <1>1, <1>2, <1>3, <1>4, <1>5, <1>6, <1>7 DEF WorkerStep

\* The reconciler's decisions are taken on the row as it still is: it settles no
\* row whose turn holds the card.
LEMMA ReconcileRows ==
  ASSUME IInv, RowInv, "staleRow" \notin Races, NEW d \in Delivery, ReconcileStep(d)
  PROVE  RowStep /\ RowInv'
<1>t. TypeOK /\ SessionExclusive /\ RecOK /\ AwayOK
  BY DEF IInv
<1>frame. UNCHANGED worker
  BY DEF ReconcileStep, Visit, Materialize, FinishAcknowledged, ReadThread, NoticeQueued,
         ContinueUnconfirmed, CancelUncertain, CancelUnconfirmed, ResetUnsent,
         RecordFound, FailClaimed, FailUnavailable, ReconcileClaimed,
         ReconcileCompleted, ReconcileFailed, ReconcileStale, BeginStop,
         ReconcileAs, LeaveTurns, Adopt
<1>see. \A pcs : Seeing(d, pcs) /\ pcs \subseteq {"visit", "thread"} =>
          /\ rec.d = d /\ worker[SessionOf(d)] = NoWorker
          /\ status[d] = "processing" /\ turnId[d] = rec.turn
  BY DEF Seeing, RowInv, VisitOK
<1>step. ASSUME worker[SessionOf(d)] = NoWorker, status[d] = "processing",
                \A e \in Delivery \ {d} : /\ status'[e] = status[e] /\ turnId'[e] = turnId[e]
                                          /\ hasMsg'[e] = hasMsg[e],
                \/ status'[d] = "processing" /\ hasMsg'[d] = hasMsg[d]
                \/ status'[d] = "retry"
                \/ status'[d] \in Terminal /\ Unheld(d),
                VisitOK'
         PROVE  RowStep /\ RowInv'
  <2>1. RowMoves(d)
    BY <1>step DEF RowMoves, Quiet, Released, Consumed, Dropped, Terminal
  <2>2. FreshOK'
    BY <1>step DEF FreshOK, RowInv, Terminal
  <2>3. SentOK'
    BY <1>step DEF SentOK, RowInv, Terminal
  <2>4. ContOK'
    <3> SUFFICES ASSUME NEW x \in Session, worker[x].pc \in {"prepare", "send", "accepted"}
                 PROVE  turnId'[worker[x].d] = worker[x].cont
      BY <1>frame DEF ContOK
    <3>1. worker[x].d \in Delivery /\ SessionOf(worker[x].d) = x /\ worker[x] # NoWorker
      BY WorkerRow DEF NoWorker
    <3> QED BY <1>step, <3>1 DEF RowInv, ContOK
  <2> QED BY <1>step, <2>1, <2>2, <2>3, <2>4 DEF RowStep, RowInv
<1>idle. rec' = Idle => VisitOK'
  BY DEF VisitOK, Idle
<1>same. ASSUME UNCHANGED rows, VisitOK' PROVE RowStep /\ RowInv'
  BY <1>same, <1>frame DEF rows, RowStep, Quiet, RowInv, FreshOK, SentOK, ContOK
<1>1. CASE Visit(d)
  <2>1. VisitOK'
    BY <1>1 DEF Visit, VisitOK, LeaveTurns, rows
  <2> QED BY <1>1, <1>same, <2>1 DEF Visit
<1>2. CASE ReadThread(d) \/ BeginStop(d)
  <2>1. UNCHANGED rows
    BY <1>2 DEF ReadThread, BeginStop
  <2>2. Seeing(d, {"visit"}) \/ Seeing(d, {"thread"})
    BY <1>2 DEF ReadThread, BeginStop, Seen
  <2>3. rec'.d = d /\ rec'.turn = rec.turn
    BY <1>2, <1>t, <2>2 DEF ReadThread, BeginStop, TypeOK, DaemonOK, Seeing
  <2>4. VisitOK'
    BY <1>see, <1>frame, <2>1, <2>2, <2>3 DEF VisitOK, rows
  <2> QED BY <1>same, <2>1, <2>4
<1>3. CASE Materialize(d) \/ RecordFound(d)
  <2>1. Seeing(d, {"visit"}) \/ Seeing(d, {"thread"})
    BY <1>3 DEF Materialize, RecordFound
  <2>2. PICK prev : MarkStarted(d, msgTurn[d], prev)
    BY <1>3 DEF Materialize, RecordFound, Adopt
  <2>3. /\ turnId'[d] = msgTurn[d] /\ status' = status /\ hasMsg' = hasMsg
        /\ \A e \in Delivery \ {d} : turnId'[e] = turnId[e]
    BY <1>t, <2>2 DEF MarkStarted, TypeOK, RowsOK
  <2>4. rec'.d = d /\ rec'.turn = msgTurn[d]
    BY <1>3, <1>t, <2>1 DEF Materialize, RecordFound, TypeOK, DaemonOK, Seeing
  <2>5. VisitOK'
    BY <1>see, <1>frame, <2>1, <2>3, <2>4 DEF VisitOK
  <2> QED BY <1>see, <1>step, <2>1, <2>3, <2>5
<1>fin. ASSUME Seeing(d, {"visit"}) \/ Seeing(d, {"thread"}) \/ Seeing(d, {"visit", "thread"}),
               VisitOK',
               \E st \in {"processing", "retry"} \cup Terminal : \E ts :
                  Finish(d, st, ts) /\ (st \in Terminal => Unheld(d))
        PROVE  RowStep /\ RowInv'
  BY <1>fin, <1>t, <1>see, <1>step, FinishRow
<1>board. UNCHANGED board /\ ~Active(d, turnId[d]) => Unheld(d)
  BY DEF Unheld
<1>4. CASE NoticeQueued(d) \/ ContinueUnconfirmed(d) \/ ReconcileClaimed(d)
  <2>1. \E st \in {"processing", "retry"} : \E ts : Finish(d, st, ts)
    BY <1>4 DEF NoticeQueued, ContinueUnconfirmed, ReconcileClaimed, ReconcileAs
  <2>2. Seeing(d, {"thread"}) \/ Seeing(d, {"visit", "thread"})
    BY <1>4 DEF NoticeQueued, ContinueUnconfirmed, ReconcileClaimed, Unconfirmed, SeenEnded, Seen
  <2>3. rec' = Idle
    BY <1>4 DEF NoticeQueued, ContinueUnconfirmed, ReconcileClaimed, ReconcileAs, Done
  <2> QED BY <1>fin, <1>idle, <2>1, <2>2, <2>3 DEF Terminal
<1>5. CASE FinishAcknowledged(d) \/ ReconcileCompleted(d) \/ ReconcileFailed(d)
  <2>1. Seeing(d, {"visit"}) \/ Seeing(d, {"thread"}) \/ Seeing(d, {"visit", "thread"})
    BY <1>5 DEF FinishAcknowledged, ReconcileCompleted, ReconcileFailed, Unconfirmed,
                SeenEnded, Seen
  <2>2. ~Active(d, turnId[d])
    BY <1>5, <1>see, <2>1 DEF FinishAcknowledged, ReconcileCompleted, ReconcileFailed,
                              Answered, Claimed
  <2>3. /\ rec' = Idle /\ UNCHANGED board
        /\ \E st \in {"retry", "completed", "failed"} : \E ts : Finish(d, st, ts)
    BY <1>5 DEF FinishAcknowledged, ReconcileCompleted, ReconcileFailed, ReconcileAs,
                Done, AfterTurn
  <2> QED BY <1>fin, <1>idle, <1>board, <2>1, <2>2, <2>3 DEF Terminal
<1>6. CASE FailClaimed(d) \/ FailUnavailable(d)
  <2>1. /\ Seeing(d, {"thread"}) /\ SessionOf(d) \in gone /\ rec' = Idle
        /\ \E ts : Finish(d, "failed", ts)
    BY <1>6 DEF FailClaimed, FailUnavailable, ReconcileAs, Done
  <2>2. Unheld(d)
    BY <2>1 DEF Unheld
  <2> QED BY <1>fin, <1>idle, <2>1, <2>2 DEF Terminal
<1>7. CASE CancelUncertain(d) \/ CancelUnconfirmed(d) \/ ReconcileStale(d)
  <2>1. Seeing(d, {"thread"}) \/ Seeing(d, {"visit", "thread"})
    BY <1>7 DEF CancelUncertain, CancelUnconfirmed, ReconcileStale, Unconfirmed,
                SeenEnded, Seen
  <2>2. ~Active(d, turnId[d])
    BY <1>7, <1>see, <2>1 DEF CancelUncertain, CancelUnconfirmed, ReconcileStale,
                              StillWanted, Claimed
  <2>3. \E t, ts, allow, new : CancelReconciled(d, t, ts, allow, new)
    BY <1>7 DEF CancelUncertain, CancelUnconfirmed, ReconcileStale
  <2>4. (\E ts : Finish(d, "canceled", ts)) /\ (UNCHANGED board \/ \E t : StopExecution(d, t))
    BY <2>3 DEF CancelReconciled
  <2>5. turnId'[d] = turnId[d]
    BY <2>4 DEF Finish
  <2>6. Unheld(d)
    <3>1. CASE UNCHANGED board
      BY <1>board, <2>2, <3>1
    <3>2. ASSUME NEW t, StopExecution(d, t) PROVE ~Active(d, turnId[d])'
      BY <2>2, <2>5, <3>2, <1>t, DeliveryParts
         DEF StopExecution, Bound, Active, ActiveIn, TypeOK, BoardOK
    <3> QED BY <2>4, <3>1, <3>2 DEF Unheld
  <2>7. VisitOK'
    <3>1. rec' = Idle \/ rec' = [rec EXCEPT !.pc = "withdraw"]
      BY <1>7 DEF CancelUncertain, CancelUnconfirmed, ReconcileStale, Done
    <3>2. rec'.pc \in {"idle", "withdraw"}
      BY <1>t, <3>1 DEF Idle, TypeOK, DaemonOK
    <3> QED BY <3>2 DEF VisitOK
  <2> QED BY <1>fin, <2>1, <2>4, <2>6, <2>7 DEF Terminal
<1>8. CASE ResetUnsent(d)
  <2>1. Seeing(d, {"visit", "thread"}) /\ rec' = Idle
    BY <1>8 DEF ResetUnsent, Unconfirmed, Done
  <2>2. /\ \A e \in Delivery \ {d} : /\ status'[e] = status[e] /\ turnId'[e] = turnId[e]
                                     /\ hasMsg'[e] = hasMsg[e]
        /\ status'[d] = "retry"
    BY <1>8, <1>t DEF ResetUnsent, TypeOK, RowsOK
  <2> QED BY <1>see, <1>step, <1>idle, <2>1, <2>2
<1> QED BY <1>1, <1>2, <1>3, <1>4, <1>5, <1>6, <1>7, <1>8 DEF ReconcileStep

\* cancel_reconciled_task_delivery after a stop ends the execution in the same
\* transaction, so the claim does not outlive its delivery.
LEMMA ReconcilerRows ==
  ASSUME IInv, RowInv, ReconcilerStep
  PROVE  RowStep /\ RowInv'
<1>t. TypeOK /\ RecOK
  BY DEF IInv
<1>frame. UNCHANGED worker
  BY DEF ReconcilerStep, Pass, StopTurn, StopTurnFails, CancelStopped,
         CancelStoppedFails, Withdraw, Defer, LeaveTurns
<1>same. ASSUME UNCHANGED rows, VisitOK' PROVE RowStep /\ RowInv'
  BY <1>same, <1>frame DEF rows, RowStep, Quiet, RowInv, FreshOK, SentOK, ContOK
<1>idle. rec' = Idle => VisitOK'
  BY DEF VisitOK, Idle
<1>1. CASE Pass \/ StopTurnFails \/ CancelStoppedFails \/ Withdraw
  BY <1>1, <1>same, <1>idle
     DEF Pass, StopTurnFails, CancelStoppedFails, Withdraw, Defer, Done
<1>2. CASE StopTurn
  <2>1. rec'.d = rec.d /\ rec'.turn = rec.turn
    BY <1>2, <1>t DEF StopTurn, TypeOK, DaemonOK
  <2>2. VisitOK'
    BY <1>2, <1>frame, <2>1 DEF VisitOK, StopTurn, RowInv, rows
  <2> QED BY <1>2, <1>same, <2>2 DEF StopTurn
<1>3. CASE CancelStopped
  <2>r. PICK d \in Delivery : d = rec.d
    BY <1>3, <1>t DEF CancelStopped, RecOK
  <2>d. /\ d \in Delivery /\ status[d] = "processing"
        /\ worker[SessionOf(d)] = NoWorker /\ rec' = Idle
    BY <1>3, <1>t, <2>r DEF CancelStopped, RowInv, VisitOK, RecOK, Done
  <2>1. PICK ts : CancelReconciled(d, rec.turn, rec.ts, TRUE, ts)
    BY <1>3, <2>r DEF CancelStopped
  <2>2. /\ Finish(d, "canceled", ts) /\ turnId[d] = rec.turn
        /\ IF rec.turn # None THEN StopExecution(d, rec.turn) ELSE UNCHANGED board
    BY <2>1 DEF CancelReconciled, CanCancel
  <2>3. /\ \A e \in Delivery \ {d} : status'[e] = status[e]
        /\ status'[d] = "canceled" /\ turnId' = turnId /\ hasMsg' = hasMsg
    BY <1>t, <2>d, <2>2, FinishRow
  <2>4. Unheld(d)
    <3>1. CASE rec.turn = None
      BY <2>2, <3>1 DEF Unheld, Active, ActiveIn
    <3>2. CASE rec.turn # None
      <4>1. ~Active(d, turnId[d])'
        BY <1>t, <2>d, <2>2, <2>3, <3>2, DeliveryParts
           DEF StopExecution, Bound, Active, ActiveIn, TypeOK, BoardOK
      <4> QED BY <4>1 DEF Unheld
    <3> QED BY <3>1, <3>2
  <2>5. RowStep
    BY <2>d, <2>3, <2>4 DEF RowStep, RowMoves, Quiet, Dropped
  <2>6. RowInv'
    BY <1>frame, <1>idle, <2>d, <2>3 DEF RowInv, FreshOK, SentOK, ContOK
  <2> QED BY <2>5, <2>6
<1> QED BY <1>1, <1>2, <1>3 DEF ReconcilerStep

\* Planning, claiming, crash and recovery.
LEMMA OthersRows ==
  ASSUME IInv, RowInv, Next,
         ~ \E s \in Session : WorkerStep(s),
         ~ \E d \in Delivery : ReconcileStep(d),
         ~ ReconcilerStep
  PROVE  RowStep /\ RowInv'
<1>t. TypeOK /\ SessionExclusive /\ RecOK /\ AwayOK
  BY DEF IInv
<1>quiet. ASSUME UNCHANGED <<worker, rec, turnId, hasMsg>>,
                 \A e \in Delivery : Quiet(e)
          PROVE  RowStep /\ RowInv'
  <2>1. VisitOK'
    BY <1>quiet, <1>t DEF RowInv, VisitOK, RecOK, Quiet, Waiting
  <2>2. FreshOK'
    BY <1>quiet DEF RowInv, FreshOK, Quiet
  <2>3. SentOK'
    BY <1>quiet DEF RowInv, SentOK, Quiet
  <2>4. ContOK'
    BY <1>quiet DEF RowInv, ContOK
  <2> QED BY <1>quiet, <2>1, <2>2, <2>3, <2>4 DEF RowStep, RowInv
<1>idle. rec' = Idle => VisitOK'
  BY DEF VisitOK, Idle
<1>1. ASSUME NEW r \in Record, SaveSnapshot(r) PROVE RowStep /\ RowInv'
  <2>1. PICK fresh \in BOOLEAN : status' = Planned(r, fresh)
    BY <1>1 DEF SaveSnapshot
  <2>2. \A e \in Delivery : Quiet(e)
    BY <2>1 DEF Planned, Quiet
  <2> QED BY <1>1, <1>quiet, <2>2 DEF SaveSnapshot
<1>2. ASSUME UNCHANGED <<rows, worker, rec>> PROVE RowStep /\ RowInv'
  BY <1>2, <1>quiet DEF rows, Quiet
<1>3. ASSUME NEW d \in Delivery, ClaimCancels(d) PROVE RowStep /\ RowInv'
  <2>1. /\ \A e \in Delivery \ {d} : status'[e] = status[e]
        /\ status'[d] = "canceled" /\ turnId' = turnId /\ hasMsg' = hasMsg
    BY <1>3, <1>t, FinishRow DEF ClaimCancels
  <2>2. ~Active(d, turnId[d])
    <3>1. CASE status[d] = "retry"
      BY <1>3, <3>1 DEF ClaimCancels
    <3>2. CASE status[d] = "pending"
      BY <3>2 DEF RowInv, FreshOK, Active, ActiveIn
    <3> QED BY <1>3, <3>1, <3>2 DEF ClaimCancels, Claimable
  <2>3. Unheld(d)
    BY <2>2 DEF Unheld
  <2>4. RowStep
    BY <1>3, <2>1, <2>3 DEF RowStep, RowMoves, Quiet, Dropped, ClaimCancels
  <2>5. UNCHANGED <<worker, rec>> /\ rec = Idle
    BY <1>3 DEF ClaimCancels, Consuming
  <2>6. RowInv'
    BY <1>idle, <2>1, <2>5 DEF RowInv, FreshOK, SentOK, ContOK
  <2> QED BY <2>4, <2>6
<1>4. ASSUME NEW d \in Delivery, Claim(d) PROVE RowStep /\ RowInv'
  <2> DEFINE cont == status[d] = "retry" /\ Active(d, turnId[d])
  <2>1. /\ \A e \in Delivery \ {d} : /\ status'[e] = status[e] /\ turnId'[e] = turnId[e]
                                     /\ hasMsg'[e] = hasMsg[e]
        /\ status'[d] = "processing" /\ hasMsg'[d]
        /\ turnId'[d] = IF cont THEN turnId[d] ELSE None
    BY <1>4, <1>t DEF Claim, TypeOK, RowsOK
  <2>2. /\ \A x \in Session \ {SessionOf(d)} : worker'[x] = worker[x]
        /\ worker'[SessionOf(d)].d = d
        /\ worker'[SessionOf(d)].cont = IF cont THEN turnId[d] ELSE None
    BY <1>4, <1>t, DeliveryParts DEF Claim, TypeOK, DaemonOK
  <2>3. /\ SessionOf(d) \notin Reserved /\ status[d] \in Claimable
        /\ rec = Idle /\ rec' = rec
    BY <1>4 DEF Claim, Consuming
  <2> HIDE DEF cont
  <2>4. \A e \in Delivery : status[e] = "processing" => SessionOf(e) # SessionOf(d)
    BY <2>3 DEF Reserved
  <2>5. RowStep
    BY <2>1, <2>3, <2>4 DEF RowStep, RowMoves, Quiet, Taken
  <2>6. FreshOK' /\ SentOK'
    BY <2>1 DEF RowInv, FreshOK, SentOK
  <2>7. ContOK'
    <3> SUFFICES ASSUME NEW x \in Session, worker'[x].pc \in {"prepare", "send", "accepted"}
                 PROVE  turnId'[worker'[x].d] = worker'[x].cont
      BY DEF ContOK
    <3>1. CASE x = SessionOf(d)
      BY <2>1, <2>2, <3>1
    <3>2. CASE x # SessionOf(d)
      <4>1. worker'[x] = worker[x]
        BY <2>2, <3>2
      <4>2. worker[x].d \in Delivery \ {d}
        BY <3>2, <4>1, WorkerRow
      <4> QED BY <2>1, <4>1, <4>2 DEF RowInv, ContOK
    <3> QED BY <3>1, <3>2
  <2> QED BY <1>idle, <2>3, <2>5, <2>6, <2>7 DEF RowInv
<1>5. ASSUME NEW s \in Session, OwnerFound(s) PROVE RowStep /\ RowInv'
  BY <1>5, <1>quiet DEF OwnerFound, Quiet, Waiting
<1>6. CASE ResumePermission
  BY <1>6, <1>quiet DEF ResumePermission, Quiet, Waiting
<1>7. CASE Crash
  <2>1. \A s \in Session : worker'[s] = NoWorker
    BY <1>7 DEF Crash
  <2>2. RowInv'
    BY <1>7, <1>idle, <2>1 DEF Crash, rows, RowInv, FreshOK, SentOK, ContOK, NoWorker
  <2>3. RowStep
    BY <1>7 DEF Crash, rows, RowStep, Quiet
  <2> QED BY <2>2, <2>3
<1>8. CASE Restart
  <2>1. \A e \in Delivery : status'[e] = status[e]
    BY <1>8 DEF Restart, RowInv, SentOK
  <2> QED BY <1>8, <1>quiet, <2>1 DEF Restart, Quiet
<1>9. CASE Recover
  <2>1. \A e \in Delivery : Retried(e)
    BY <1>9 DEF Recover, Retried, Waiting, Retryable
  <2>2. /\ UNCHANGED <<turnId, hasMsg, worker, rec>> /\ rec = Idle /\ daemon = "starting"
    BY <1>9, <1>t DEF Recover, AwayOK
  <2>3. RowInv'
    BY <1>idle, <2>1, <2>2 DEF Retried, RowInv, FreshOK, SentOK, ContOK
  <2> QED BY <2>1, <2>2, <2>3 DEF RowStep
<1>10. ASSUME NEW r \in Record, EditCard(r) \/ InterruptTask(r) \/ RecordStop(r)
       PROVE  RowStep /\ RowInv'
  BY <1>10, <1>2 DEF EditCard, InterruptTask, RecordStop
<1>11. ASSUME NEW d \in Delivery, LateAccept(d) \/ DropRequest(d) PROVE RowStep /\ RowInv'
  BY <1>11, <1>2 DEF LateAccept, DropRequest
<1>12. ASSUME NEW s \in Session, SyncTool(s) \/ DeleteSession(s) PROVE RowStep /\ RowInv'
  BY <1>12, <1>2 DEF SyncTool, DeleteSession
<1>13. ASSUME NEW t \in Turn, EndTurn(t) \/ LogStart(t) PROVE RowStep /\ RowInv'
  BY <1>13, <1>2 DEF EndTurn, LogStart
<1>14. ASSUME NEW t \in Turn, NEW r \in Record, WriteCard(t, r) PROVE RowStep /\ RowInv'
  BY <1>14, <1>2 DEF WriteCard
<1>15. ASSUME NEW s \in Session, NEW t \in Turn \cup {None}, NEW r \in Record,
              ReadCard(s, t, r)
       PROVE  RowStep /\ RowInv'
  BY <1>15, <1>2 DEF ReadCard
<1> QED
  BY <1>1, <1>3, <1>4, <1>5, <1>6, <1>7, <1>8, <1>9, <1>10, <1>11, <1>12, <1>13,
     <1>14, <1>15 DEF Next

\* No step takes back the evidence of a turn or brings back a session.
LEMMA NextKeeps ==
  ASSUME IInv, Next
  PROVE  Kept /\ gone \subseteq gone'
<1>t. TypeOK /\ TurnsOK /\ HoldersOK
  BY DEF IInv
<1>same. ASSUME UNCHANGED <<turnOf, turnRow, turnState, gone>> PROVE Kept /\ gone \subseteq gone'
  BY <1>same, SameKeeps
<1>mark. ASSUME NEW d \in Delivery, msgTurn[d] # None, NEW prev,
                MarkStarted(d, msgTurn[d], prev), UNCHANGED codex
         PROVE  Kept /\ gone \subseteq gone'
  <2>1. msgTurn[d] \in Turn /\ turnOf[msgTurn[d]] = d
    BY <1>mark, <1>t DEF TypeOK, CodexOK, TurnsOK
  <2> QED BY <1>mark, <2>1, MarkStartedKeeps DEF codex
<1>1. ASSUME NEW s \in Session, WorkerStep(s) PROVE Kept /\ gone \subseteq gone'
  <2>1. CASE SendAccepted(s)
    <3>1. worker[s].d \in Delivery
      BY <2>1, WorkerRow DEF SendAccepted, At
    <3> QED BY <2>1, <3>1, AcceptKeeps DEF SendAccepted, Accept
  <2>2. CASE SaveTurn(s)
    <3>1. worker[s].d \in Delivery /\ msgTurn[worker[s].d] # None
      BY <2>2, <1>t, WorkerRow DEF SaveTurn, At, HoldersOK
    <3> QED BY <2>2, <3>1, <1>mark DEF SaveTurn
  <2>3. CASE UNCHANGED <<turnOf, turnRow, turnState, gone>>
    BY <2>3, <1>same
  <2> QED BY <1>1, <2>1, <2>2, <2>3
          DEF WorkerStep, PrepareFails, Prepare, SendFails, SendUnanswered, AnswerLost,
              AnswerMalformed, SaveTurnFails, LoseTurn, FinishTurn, codex
<1>2. ASSUME NEW d \in Delivery, ReconcileStep(d) PROVE Kept /\ gone \subseteq gone'
  <2>1. CASE Materialize(d) \/ RecordFound(d)
    <3>1. msgTurn[d] # None /\ UNCHANGED codex
      BY <2>1 DEF Materialize, RecordFound, Started, Adopt
    <3>2. \E prev : MarkStarted(d, msgTurn[d], prev)
      BY <2>1 DEF Materialize, RecordFound, Adopt
    <3> QED BY <3>1, <3>2, <1>mark
  <2>2. CASE UNCHANGED <<codex, turnRow>>
    BY <2>2, <1>same DEF codex
  <2> QED BY <1>2, <2>1, <2>2
          DEF ReconcileStep, Visit, FinishAcknowledged, ReadThread, NoticeQueued,
              ContinueUnconfirmed, CancelUncertain, CancelUnconfirmed, ResetUnsent,
              FailClaimed, FailUnavailable, ReconcileClaimed, ReconcileCompleted,
              ReconcileFailed, ReconcileStale, BeginStop, ReconcileAs, LeaveTurns
<1>int. ASSUME NEW t, \E done \in BOOLEAN : Interrupt(t, done), UNCHANGED turnRow
        PROVE  Kept /\ gone \subseteq gone'
  BY <1>int, InterruptKeeps DEF Interrupt
<1>3. CASE ReconcilerStep
  <2>1. CASE StopTurn
    BY <2>1, <1>int DEF StopTurn
  <2>2. CASE Withdraw
    BY <2>2, <1>int, <1>same DEF Withdraw, codex
  <2>3. CASE UNCHANGED <<codex, turnRow>>
    BY <2>3, <1>same DEF codex
  <2> QED BY <1>3, <2>1, <2>2, <2>3
          DEF ReconcilerStep, Pass, StopTurnFails, CancelStopped, CancelStoppedFails,
              Defer, LeaveTurns
<1>4. ASSUME NEW r \in Record, InterruptTask(r) PROVE Kept /\ gone \subseteq gone'
  BY <1>4, <1>int DEF InterruptTask
<1>5. ASSUME NEW d \in Delivery, LateAccept(d) PROVE Kept /\ gone \subseteq gone'
  BY <1>5, AcceptKeeps DEF LateAccept, Accept
<1>6. ASSUME NEW s \in Session, SyncTool(s) PROVE Kept /\ gone \subseteq gone'
  BY <1>6, <1>t DEF SyncTool, Kept, codex, TypeOK, DaemonOK
<1>7. ASSUME NEW s \in Session, DeleteSession(s) PROVE Kept /\ gone \subseteq gone'
  BY <1>7, <1>t DEF DeleteSession, Kept
<1>8. ASSUME NEW t \in Turn, EndTurn(t) PROVE Kept /\ gone \subseteq gone'
  BY <1>8, <1>t DEF EndTurn, Kept, TypeOK, CodexOK
<1>9. ASSUME NEW r \in Record, SaveSnapshot(r) \/ EditCard(r) \/ RecordStop(r)
      PROVE Kept /\ gone \subseteq gone'
  BY <1>9, <1>same DEF SaveSnapshot, EditCard, RecordStop, codex
<1>10. ASSUME NEW d \in Delivery, ClaimCancels(d) \/ Claim(d) \/ DropRequest(d)
       PROVE Kept /\ gone \subseteq gone'
  BY <1>10, <1>same DEF ClaimCancels, Claim, DropRequest, codex
<1>11. ASSUME NEW s \in Session, OwnerFound(s) PROVE Kept /\ gone \subseteq gone'
  BY <1>11, <1>same DEF OwnerFound, codex
<1>12. CASE ResumePermission \/ Crash \/ Restart \/ Recover
  BY <1>12, <1>same DEF ResumePermission, Crash, Restart, Recover, codex
<1>13. ASSUME NEW t \in Turn, LogStart(t) PROVE Kept /\ gone \subseteq gone'
  BY <1>13, <1>same DEF LogStart
<1>14. ASSUME NEW t \in Turn, NEW r \in Record, WriteCard(t, r)
       PROVE Kept /\ gone \subseteq gone'
  BY <1>14, <1>same DEF WriteCard, codex
<1>15. ASSUME NEW s \in Session, NEW t \in Turn \cup {None}, NEW r \in Record,
              ReadCard(s, t, r)
       PROVE Kept /\ gone \subseteq gone'
  BY <1>15, <1>same DEF ReadCard, codex
<1> QED
  BY <1>1, <1>2, <1>3, <1>4, <1>5, <1>6, <1>7, <1>8, <1>9, <1>10, <1>11, <1>12, <1>13,
     <1>14, <1>15 DEF Next

\* Every step does to the rows what RowStep allows.
LEMMA NextRows ==
  ASSUME IInv, RowInv, "staleRow" \notin Races, Next
  PROVE  RowStep /\ RowInv'
<1>1. ASSUME NEW s \in Session, WorkerStep(s) PROVE RowStep /\ RowInv'
  BY <1>1, WorkerRows
<1>2. ASSUME NEW d \in Delivery, ReconcileStep(d) PROVE RowStep /\ RowInv'
  BY <1>2, ReconcileRows
<1>3. CASE ReconcilerStep
  BY <1>3, ReconcilerRows
<1> QED BY <1>1, <1>2, <1>3, OthersRows

\* RowInv holds in every reachable state.
LEMMA RowInvariance ==
  ASSUME "staleRow" \notin Races
  PROVE  Spec => []RowInv
<1>1. Init => RowInv
  BY DEF Init, RowInv, VisitOK, FreshOK, SentOK, ContOK, NoWorker, Idle
<1>2. IInv /\ RowInv /\ [Next]_vars => RowInv'
  <2> SUFFICES ASSUME IInv, RowInv, [Next]_vars PROVE RowInv'
    OBVIOUS
  <2>1. CASE Next
    BY <2>1, NextRows
  <2>2. CASE UNCHANGED vars
    BY <2>2 DEF vars, rows, RowInv, VisitOK, FreshOK, SentOK, ContOK
  <2> QED BY <2>1, <2>2
<1> QED BY <1>1, <1>2, Invariance, PTL DEF Spec

\* A delivery that was completed, failed or canceled is never revived, except by
\* the first pass after a restart (TerminalStays), whatever the order of workers,
\* reconciler, crashes and owners found again.
THEOREM SettledStays ==
  ASSUME "staleRow" \notin Races
  PROVE  Spec => TerminalStays
<1>1. ASSUME IInv, RowInv, [Next]_vars
      PROVE [\A d \in Delivery : status[d] \in Terminal =>
               \/ status'[d] = status[d]
               \/ daemon = "starting" /\ status[d] = "failed"]_vars
  <2>1. CASE Next
    <3>1. RowStep
      BY <1>1, <2>1, NextRows
    <3>2. ASSUME NEW d \in Delivery, status[d] \in Terminal
          PROVE  \/ status'[d] = status[d]
                 \/ daemon = "starting" /\ status[d] = "failed"
      BY <3>1, <3>2 DEF RowStep, RowMoves, Quiet, Retried, Taken, Released, Consumed,
                        Dropped, Terminal, Waiting, Claimable
    <3> QED BY <3>2
  <2> QED BY <1>1, <2>1
<1> QED BY <1>1, Invariance, RowInvariance, PTL DEF Spec, TerminalStays

\* While an agent holds the claim on a card no step settles the delivery that made
\* it, unless the session is gone (ClaimKept).
THEOREM ClaimProtected ==
  ASSUME "staleRow" \notin Races
  PROVE  Spec => ClaimKept
<1>1. ASSUME IInv, RowInv, [Next]_vars
      PROVE [\A d \in Delivery :
               /\ Active(d, turnId[d]) /\ Active(d, turnId[d])'
               /\ status[d] \in Live /\ SessionOf(d) \notin gone
               => status'[d] \in Live]_vars
  <2>1. CASE Next
    <3>1. RowStep
      BY <1>1, <2>1, NextRows
    <3>2. ASSUME NEW d \in Delivery, Active(d, turnId[d]), Active(d, turnId[d])',
                 status[d] \in Live, SessionOf(d) \notin gone
          PROVE  status'[d] \in Live
      <4>1. ~Unheld(d)
        BY <3>2 DEF Unheld
      <4> QED
        BY <3>1, <3>2, <4>1
           DEF RowStep, RowMoves, Quiet, Retried, Taken, Released, Consumed,
               Dropped, Live, Waiting, Claimable
    <3> QED BY <3>2
  <2> QED BY <1>1, <2>1
<1> QED BY <1>1, Invariance, RowInvariance, PTL DEF Spec, ClaimKept

\* Stages and statuses correspond.
LEMMA StageIs ==
  ASSUME NEW st \in DeliveryStatus
  PROVE  /\ StageOf(st) \in Promise!Stage
         /\ st = "absent" <=> StageOf(st) = "none"
         /\ st = "processing" <=> StageOf(st) = "taken"
         /\ st \in Claimable \cup Waiting <=> StageOf(st) = "open"
         /\ st \in Terminal => StageOf(st) = st
BY DEF StageOf, DeliveryStatus, Claimable, Waiting, Terminal, Promise!Stage

\* The delivery runtime implements Notification: every step of workers, reconciler,
\* agents, Codex, crashes and restarts is one that Notification allows.
THEOREM Refinement ==
  ASSUME "staleRow" \notin Races
  PROVE  Spec => Implements
<1>1. Init => Promise!Init
  <2> SUFFICES ASSUME Init PROVE Promise!Init
    OBVIOUS
  <2>1. [d \in Delivery |-> StageOf(status[d])] = [d \in Delivery |-> "none"]
    <3>1. StageOf("absent") = "none"
      BY StageIs DEF DeliveryStatus
    <3> QED BY <3>1 DEF Init
  <2>2. {d \in Delivery : WorkedOn(d)} = {}
    BY DEF Init, WorkedOn, Recorded, Turns
  <2>3. {d \in Delivery : Active(d, turnId[d])} = {}
    BY DEF Init, Active, ActiveIn
  <2>4. gone = {} /\ daemon # "starting"
    BY DEF Init
  <2> QED BY <2>1, <2>2, <2>3, <2>4 DEF Promise!Init
<1>2. ASSUME IInv, IInv', RowInv, [Next]_vars PROVE [Promise!Next]_(Promise!vars)
  <2>1. CASE UNCHANGED vars
    BY <2>1 DEF vars, rows, board, codex, Promise!vars, WorkedOn, Recorded, Turns,
                Active, ActiveIn
  <2>2. CASE Next
    <3>1. RowStep /\ Kept /\ gone \subseteq gone'
      BY <1>2, <2>2, NextRows, NextKeeps
    <3> DEFINE stage == [d \in Delivery |-> StageOf(status[d])]
    <3>2. Promise!Surroundings
      <4>1. ASSUME NEW d \in Delivery, WorkedOn(d) PROVE WorkedOn(d)'
        <5>1. PICK t \in Turn : t \in Recorded(d) /\ (turnRow[t] = "acked" \/ turnState[t] = "completed")
          BY <4>1 DEF WorkedOn, Recorded, Turns
        <5>2. t \in Recorded(d)' /\ (turnRow'[t] = "acked" \/ turnState'[t] = "completed")
          BY <3>1, <5>1, ConstantsAssumption DEF Kept, Recorded, Turns
        <5> QED BY <5>2 DEF WorkedOn
      <4> QED BY <3>1, <4>1 DEF Promise!Surroundings
    <3>st. /\ status \in [Delivery -> DeliveryStatus] /\ status' \in [Delivery -> DeliveryStatus]
      BY <1>2 DEF IInv, TypeOK, RowsOK
    <3>s. \A d \in Delivery : /\ stage[d] = StageOf(status[d]) /\ stage'[d] = StageOf(status'[d])
                              /\ status[d] \in DeliveryStatus /\ status'[d] \in DeliveryStatus
      BY <3>st
    <3>3. stage' \in [Delivery -> Promise!Stage]
      BY <3>st, StageIs
    <3>done. \A d \in Delivery : status'[d] = "completed" => WorkedOn(d)'
      BY <1>2 DEF IInv, CompletedIsConsumed, WorkedOn
    <3>q. \A e \in Delivery : Quiet(e) => stage'[e] = stage[e] \/ (stage[e] = "none" /\ stage'[e] = "open")
      BY <3>s, StageIs DEF Quiet, Claimable
    <3>4. ASSUME \A e \in Delivery : Quiet(e)
          PROVE  UNCHANGED stage \/ \E d \in Delivery : Promise!Announce(d)
      <4>1. CASE \A e \in Delivery : stage'[e] = stage[e]
        BY <4>1
      <4>2. ASSUME NEW d \in Delivery, stage'[d] # stage[d] PROVE Promise!Announce(d)
        BY <3>4, <3>q, <4>2 DEF Promise!Announce, Promise!Moves, Promise!Announced
      <4> QED BY <4>1, <4>2
    <3>5. ASSUME \A e \in Delivery : Quiet(e) PROVE Promise!Next
      BY <3>2, <3>3, <3>4, <3>5 DEF Promise!Next
    <3>6. CASE daemon = "starting" /\ \A e \in Delivery : Retried(e)
      <4>1. ASSUME NEW e \in Delivery
            PROVE  \/ stage'[e] = stage[e]
                   \/ stage[e] = "failed" /\ stage'[e] \in {"open", "canceled"}
        BY <3>6, <3>s, StageIs DEF Retried, Claimable, Terminal
      <4>2. Promise!Revive
        BY <3>6, <4>1 DEF Promise!Revive
      <4> QED BY <3>2, <3>3, <4>2 DEF Promise!Next
    <3>7. ASSUME NEW d \in Delivery, RowMoves(d), ~Quiet(d)
          PROVE  \/ Promise!Take(d) \/ Promise!Release(d)
                 \/ Promise!Complete(d) \/ Promise!Drop(d)
      <4>1. \A e \in Delivery \ {d} : stage'[e] = stage[e] \/ Promise!Announced(e)
        BY <3>7, <3>q DEF RowMoves, Promise!Announced
      <4>2. Unheld(d) => ~Promise!Held(d)
        BY DEF Unheld, Promise!Held
      <4>3. CASE Taken(d)
        <5>1. stage[d] = "open" /\ stage'[d] = "taken"
          BY <3>s, <4>3, StageIs DEF Taken
        <5>2. \A e \in Promise!In("taken") : SessionOf(e) # SessionOf(d)
          BY <3>s, <4>3, StageIs DEF Taken, Promise!In
        <5> QED BY <4>1, <5>1, <5>2 DEF Promise!Take, Promise!Moves
      <4>4. CASE Released(d)
        <5>1. stage[d] = "taken" /\ stage'[d] = "open"
          BY <3>s, <4>4, StageIs DEF Released, Claimable
        <5> QED BY <4>1, <5>1 DEF Promise!Release, Promise!Moves
      <4>5. CASE Consumed(d)
        <5>1. stage[d] = "taken" /\ stage'[d] = "completed"
          BY <3>s, <4>5, StageIs DEF Consumed, Terminal
        <5>2. d \in {x \in Delivery : WorkedOn(x)}'
          BY <3>done, <4>5 DEF Consumed
        <5> QED BY <4>1, <4>2, <4>5, <5>1, <5>2
                DEF Promise!Complete, Promise!Moves, Consumed
      <4>6. CASE Dropped(d)
        <5>1. stage[d] \in {"open", "taken"} /\ stage'[d] \in {"failed", "canceled"}
          BY <3>s, <4>6, StageIs DEF Dropped, Terminal
        <5> QED BY <4>1, <4>2, <4>6, <5>1 DEF Promise!Drop, Promise!Moves, Dropped
      <4> QED BY <3>7, <4>3, <4>4, <4>5, <4>6 DEF RowMoves
    <3>8. ASSUME NEW d \in Delivery, RowMoves(d) PROVE Promise!Next
      <4>1. CASE Quiet(d)
        BY <3>5, <3>8, <4>1 DEF RowMoves
      <4>2. CASE ~Quiet(d)
        BY <3>2, <3>3, <3>7, <3>8, <4>2 DEF Promise!Next
      <4> QED BY <4>1, <4>2
    <3> QED BY <3>1, <3>5, <3>6, <3>8 DEF RowStep
  <2> QED BY <1>2, <2>1, <2>2
<1> QED BY <1>1, <1>2, Invariance, RowInvariance, PTL DEF Spec, Implements, Promise!Spec

-----------------------------------------------------------------------------
(***************************************************************************)
(* NoDuplicateTurn.  A start is repeated only when nothing of the earlier   *)
(* one can still be running: a delivery that waits to be claimed has no     *)
(* turn running (StartOK), a request still at the owner belongs to a row    *)
(* whose acceptance is uncertain or that was settled, and a processing row  *)
(* has at most the turn of its present client message.  The reconciler's    *)
(* copy of a row may be stale ("staleRow"); CopyOK says what it is still    *)
(* good for.  A malformed frame ("badFrame") makes a worker give the row    *)
(* back with the turn running.                                              *)
(***************************************************************************)

\* The turns of d that NoDuplicateTurn counts.
Loose(d) == Running(d) \ orphan
Resting == {"absent"} \cup Claimable \cup Waiting
\* The row of d, its client message and the turns of it.
StartOK(d) ==
  /\ \A t \in Loose(d) : t = msgTurn[d]
  /\ d \in transit =>
       /\ msgTurn[d] = None /\ SessionOf(d) \notin gone
       /\ \/ status[d] \in {"canceled", "completed"}
          \/ /\ status[d] = "processing" /\ turnStatus[d] \in QueueState
             /\ worker[SessionOf(d)] = NoWorker
  /\ status[d] = "processing" =>
       /\ turnStatus[d] \in {"null", "inProgress"} \cup QueueState
       /\ turnStatus[d] = "null" => msgTurn[d] = None
       /\ turnStatus[d] = "inProgress" => turnId[d] = msgTurn[d] /\ msgTurn[d] # None
  /\ status[d] \in Resting \cup {"failed"} => Loose(d) = {}
  /\ status[d] \in Resting \/ Retryable(d) => turnId[d] # None \/ msgTurn[d] = None
\* How far the worker of s has come.
PhaseOK(s) ==
  /\ worker[s].pc = "prepare" => turnStatus[worker[s].d] = "null"
  /\ worker[s].pc = "send" => /\ turnStatus[worker[s].d] = "queueing"
                              /\ msgTurn[worker[s].d] = None
  /\ worker[s].pc = "accepted" => turnStatus[worker[s].d] = "queueing"
  /\ worker[s].pc = "running" => turnStatus[worker[s].d] = "inProgress"
  /\ worker[s].pc \in {"prepare", "send", "accepted"} /\ worker[s].cont # None
       => turnId[worker[s].d] # None
\* A rollout is complete only after its turn; a deleted session runs nothing.
RolloutOK ==
  \A t \in Turn : /\ rollout[t] = "task_complete" => turnState[t] \in Ended
                  /\ turnState[t] = "running" => SessionOf(turnOf[t]) \notin gone
\* What the reconciler's copy of a row is still good for when the worker of that
\* row has gone on: the row has a turn if the copy has one, and a worker that
\* settled it left neither a request nor a turn the row does not know.
CopyOK == rec.pc \in {"visit", "thread", "stop", "cancel"} =>
            /\ rec.turn # None => turnId[rec.d] # None
            /\ status[rec.d] # "processing" =>
                 /\ rec.d \notin transit
                 /\ turnId[rec.d] # None \/ msgTurn[rec.d] = None
StartInv == /\ \A d \in Delivery : StartOK(d)
            /\ \A s \in Session : PhaseOK(s)
            /\ RolloutOK /\ CopyOK

\* A row that keeps its turn and message stays as it was while turns only end.
LEMMA StartKept ==
  ASSUME NEW e \in Delivery, StartOK(e),
         status'[e] = status[e] \/ (status[e] = "absent" /\ status'[e] = "pending"),
         turnId'[e] = turnId[e], turnStatus'[e] = turnStatus[e], msgTurn'[e] = msgTurn[e],
         Loose(e)' \subseteq Loose(e),
         e \in transit' => e \in transit /\ SessionOf(e) \notin gone',
         e \in transit' /\ worker[SessionOf(e)] = NoWorker => worker'[SessionOf(e)] = NoWorker
  PROVE  StartOK(e)'
<1> HIDE DEF Loose
<1>1. (\A t \in Loose(e) : t = msgTurn[e])'
  BY DEF StartOK
<1>2. (e \in transit =>
       /\ msgTurn[e] = None /\ SessionOf(e) \notin gone
       /\ \/ status[e] \in {"canceled", "completed"}
          \/ /\ status[e] = "processing" /\ turnStatus[e] \in QueueState
             /\ worker[SessionOf(e)] = NoWorker)'
  BY DEF StartOK
<1>3. (status[e] = "processing" =>
       /\ turnStatus[e] \in {"null", "inProgress"} \cup QueueState
       /\ turnStatus[e] = "null" => msgTurn[e] = None
       /\ turnStatus[e] = "inProgress" => turnId[e] = msgTurn[e] /\ msgTurn[e] # None)'
  BY DEF StartOK
<1>4. (status[e] \in Resting \cup {"failed"} => Loose(e) = {})'
  BY DEF StartOK, Resting, Claimable
<1>5. (status[e] \in Resting \/ Retryable(e) => turnId[e] # None \/ msgTurn[e] = None)'
  BY DEF StartOK, Resting, Claimable, Retryable
<1> QED BY <1>1, <1>2, <1>3, <1>4, <1>5 DEF StartOK

\* No turn of e comes to run unless one is started for it.
LEMMA LooseShrinks ==
  ASSUME NEW e \in Delivery, orphan \subseteq orphan',
         \A t \in Turn : turnOf'[t] = e /\ turnState'[t] = "running" =>
                           turnOf[t] = e /\ turnState[t] = "running"
  PROVE  Loose(e)' \subseteq Loose(e)
BY DEF Loose, Running, Turns

\* A row that leaves processing.
LEMMA SettledRow ==
  ASSUME NEW d \in Delivery, status'[d] # "processing",
         msgTurn' = msgTurn, Loose(d)' \subseteq Loose(d), StartOK(d),
         d \in transit' => /\ status'[d] \in {"canceled", "completed"}
                          /\ d \in transit /\ gone' = gone,
         status'[d] \in Resting \cup {"failed"} => Loose(d)' = {},
         status'[d] \in Resting \/ Retryable(d)' => turnId'[d] # None \/ msgTurn[d] = None
  PROVE  StartOK(d)'
<1>1. (\A t \in Loose(d) : t = msgTurn[d])'
  BY DEF StartOK
<1>2. (d \in transit =>
       /\ msgTurn[d] = None /\ SessionOf(d) \notin gone
       /\ \/ status[d] \in {"canceled", "completed"}
          \/ /\ status[d] = "processing" /\ turnStatus[d] \in QueueState
             /\ worker[SessionOf(d)] = NoWorker)'
  BY DEF StartOK
<1> QED BY <1>1, <1>2 DEF StartOK

\* Codex starts a turn for a message that has none: it is the only one running.
LEMMA AcceptStarts ==
  ASSUME IInv, StartInv, NEW d \in Delivery, Accept(d), msgTurn[d] = None
  PROVE  /\ RolloutOK'
         /\ \A e \in Delivery \ {d} : Loose(e)' \subseteq Loose(e) /\ msgTurn'[e] = msgTurn[e]
         /\ (\A t \in Loose(d) : t = msgTurn[d])'
<1> DEFINE n == CHOOSE x \in Unused : TRUE
<1>1. n \in Turn /\ turnState[n] = "none"
  BY DEF Accept, Unused
<1>2. /\ turnState' = [turnState EXCEPT ![n] = "running"]
      /\ turnOf' = [turnOf EXCEPT ![n] = d]
      /\ msgTurn' = [msgTurn EXCEPT ![d] = n]
      /\ UNCHANGED <<rollout, gone, orphan>> /\ SessionOf(d) \notin gone
  BY DEF Accept
<1> HIDE DEF n
<1>3. /\ turnState'[n] = "running" /\ turnOf'[n] = d /\ msgTurn'[d] = n
      /\ \A t \in Turn \ {n} : turnState'[t] = turnState[t] /\ turnOf'[t] = turnOf[t]
      /\ \A e \in Delivery \ {d} : msgTurn'[e] = msgTurn[e]
  BY <1>1, <1>2 DEF IInv, TypeOK, CodexOK
<1>4. Loose(d) = {}
  BY ConstantsAssumption DEF StartInv, StartOK, Loose, Running, Turns
<1>5. RolloutOK'
  <2>1. RolloutOK
    BY DEF StartInv
  <2>2. rollout[n] # "task_complete"
    BY <1>1, <2>1 DEF RolloutOK, Ended
  <2> QED BY <1>2, <1>3, <2>1, <2>2 DEF RolloutOK
<1>6. \A e \in Delivery \ {d} : Loose(e)' \subseteq Loose(e)
  BY <1>2, <1>3, LooseShrinks
<1>7. (\A t \in Loose(d) : t = msgTurn[d])'
  BY <1>2, <1>3, <1>4 DEF Loose, Running, Turns
<1> QED BY <1>3, <1>5, <1>6, <1>7

\* The worker gives its row back only before it sent the message, or once the turn
\* of it ended or was refused by save_turn.
LEMMA WorkerStarts ==
  ASSUME IInv, StartInv, "badFrame" \notin Races, NEW s \in Session, WorkerStep(s)
  PROVE  StartInv'
<1>t. TypeOK /\ SessionExclusive /\ TurnsOK /\ HoldersOK
  BY DEF IInv
<1>pc. worker[s].pc # "none" /\ worker[s] # NoWorker
  BY DEF WorkerStep, PrepareFails, Prepare, SendFails, SendUnanswered, SendAccepted,
         AnswerLost, AnswerMalformed, SaveTurn, SaveTurnFails, LoseTurn, FinishTurn, At,
         NoWorker
<1>is. PICK d \in Delivery : d = worker[s].d
  BY <1>pc, WorkerRow
<1>d. /\ d \in Delivery /\ SessionOf(d) = s /\ status[d] = "processing"
      /\ d = worker[s].d /\ StartOK(d)
  BY <1>pc, <1>is, WorkerRow DEF StartInv
<1>notr. d \notin transit
  BY <1>d, <1>pc DEF StartOK
<1>frame. UNCHANGED <<rec, gone, rollout>>
  BY DEF WorkerStep, PrepareFails, Prepare, SendFails, SendUnanswered, SendAccepted,
         AnswerLost, AnswerMalformed, SaveTurn, SaveTurnFails, LoseTurn, FinishTurn,
         Accept, codex
<1>others. \A x \in Session \ {s} : worker[x].pc # "none" => worker[x].d \in Delivery \ {d}
  BY <1>d, WorkerRow
<1>step. ASSUME \A e \in Delivery \ {d} :
                  /\ status'[e] = status[e] \/ (status[e] = "absent" /\ status'[e] = "pending")
                  /\ turnId'[e] = turnId[e] /\ turnStatus'[e] = turnStatus[e]
                  /\ msgTurn'[e] = msgTurn[e] /\ Loose(e)' \subseteq Loose(e),
                transit' \subseteq transit \cup {d},
                \A x \in Session \ {s} : worker'[x] = worker[x],
                RolloutOK', StartOK(d)', PhaseOK(s)',
                turnId[d] # None => turnId'[d] # None,
                status'[d] # "processing" => /\ d \notin transit'
                                             /\ turnId'[d] # None \/ msgTurn'[d] = None
         PROVE  StartInv'
  <2>1. ASSUME NEW e \in Delivery \ {d} PROVE StartOK(e)'
    <3>1. StartOK(e)
      BY DEF StartInv
    <3>2. e \in transit' => e \in transit /\ SessionOf(e) \notin gone'
      BY <1>step, <1>frame, <3>1 DEF StartOK
    <3>3. worker[SessionOf(e)] = NoWorker => worker'[SessionOf(e)] = NoWorker
      BY <1>step, <1>pc, DeliveryParts
    <3> QED BY <1>step, <3>1, <3>2, <3>3, StartKept
  <2>2. ASSUME NEW x \in Session \ {s} PROVE PhaseOK(x)'
    <3>1. CASE worker[x].pc = "none"
      BY <1>step, <3>1 DEF PhaseOK
    <3>2. CASE worker[x].pc # "none"
      BY <1>step, <1>others, <3>2 DEF StartInv, PhaseOK
    <3> QED BY <3>1, <3>2
  <2>3. CopyOK'
    <3>1. rec.pc \in {"visit", "thread", "stop", "cancel"} => rec.d \in Delivery
      BY DEF IInv, RecOK
    <3>2. CASE rec.d = d
      BY <1>step, <1>frame, <3>2 DEF StartInv, CopyOK
    <3>3. CASE rec.d # d
      BY <1>step, <1>frame, <3>1, <3>3 DEF StartInv, CopyOK
    <3> QED BY <3>2, <3>3
  <2> QED BY <1>step, <2>1, <2>2, <2>3 DEF StartInv
<1>exit. Exit(s) => /\ worker'[s] = NoWorker /\ \A x \in Session \ {s} : worker'[x] = worker[x]
                    /\ PhaseOK(s)'
  BY <1>t DEF Exit, TypeOK, DaemonOK, PhaseOK, NoWorker
<1>loose. orphan \subseteq orphan' /\ UNCHANGED <<turnOf, turnState>> =>
            RolloutOK' /\ \A e \in Delivery : Loose(e)' \subseteq Loose(e)
  BY <1>frame, LooseShrinks DEF StartInv, RolloutOK
<1>fin. ASSUME NEW st, NEW ts, Finish(d, st, ts), Exit(s), st # "processing",
               orphan \subseteq orphan', UNCHANGED <<turnOf, turnState, msgTurn, transit>>,
               st \in Resting \cup {"failed"} => Loose(d)' = {},
               turnId[d] # None \/ msgTurn[d] = None
        PROVE  StartInv'
  <2>1. /\ \A e \in Delivery \ {d} : status'[e] = status[e] /\ turnStatus'[e] = turnStatus[e]
        /\ status'[d] = st /\ turnStatus'[d] = ts /\ turnId' = turnId
    BY <1>fin, <1>t DEF Finish, TypeOK, RowsOK
  <2>2. StartOK(d)'
    BY <1>d, <1>fin, <1>notr, <1>loose, <2>1, SettledRow DEF Retryable
  <2> QED BY <1>fin, <1>notr, <1>step, <1>exit, <1>loose, <2>1, <2>2
<1>null. msgTurn[d] = None => Loose(d) = {}
  BY <1>d, ConstantsAssumption DEF StartOK, Loose, Running, Turns
<1>1. CASE PrepareFails(s)
  <2>1. msgTurn[d] = None
    BY <1>1, <1>d DEF PrepareFails, At, StartInv, PhaseOK, StartOK
  <2>2. UNCHANGED codex /\ Exit(s) /\ Finish(d, "retry", turnStatus[d])
    BY <1>1, <1>d DEF PrepareFails
  <2> QED BY <1>fin, <1>loose, <1>null, <2>1, <2>2 DEF codex
<1>2. ASSUME NEW outcome \in Waiting \cup {"retry", "failed"}, SendFails(s, outcome)
      PROVE  StartInv'
  <2>1. msgTurn[d] = None
    BY <1>2, <1>d DEF SendFails, At, StartInv, PhaseOK
  <2>2. UNCHANGED codex /\ Exit(s) /\ Finish(d, outcome, Cleared(d)) /\ outcome # "processing"
    BY <1>2, <1>d DEF SendFails, Waiting
  <2> QED BY <1>fin, <1>loose, <1>null, <2>1, <2>2 DEF codex
<1>3. CASE SaveTurnFails(s)
  <2>1. worker[s].cont # None /\ turnId[d] # None
    BY <1>3, <1>d DEF SaveTurnFails, At, CanStart, StartInv, PhaseOK
  <2>2. /\ UNCHANGED <<turnOf, turnState, msgTurn, transit>>
        /\ Exit(s) /\ Finish(d, "retry", Cleared(d)) /\ orphan' = orphan \cup {msgTurn[d]}
    BY <1>3, <1>d DEF SaveTurnFails
  <2>3. Loose(d)' = {}
    BY <1>d, <2>2 DEF StartOK, Loose, Running, Turns
  <2> QED BY <1>fin, <2>1, <2>2, <2>3
<1>4. CASE FinishTurn(s)
  <2>1. /\ turnId[d] = msgTurn[d] /\ turnId[d] # None /\ turnState[turnId[d]] \in Ended
    BY <1>4, <1>d DEF FinishTurn, At, StartInv, PhaseOK, StartOK
  <2>2. Loose(d) = {}
    BY <1>d, <2>1 DEF StartOK, Loose, Running, Turns, Ended
  <2>3. /\ UNCHANGED codex /\ Exit(s)
        /\ \E st \in {"retry", "completed", "failed"} : \E ts : Finish(d, st, ts)
    BY <1>4, <1>d DEF FinishTurn, AfterTurn
  <2> QED BY <1>fin, <1>loose, <2>1, <2>2, <2>3 DEF codex
<1>5. CASE AnswerLost(s) \/ LoseTurn(s)
  <2>1. UNCHANGED <<rows, codex>> /\ Exit(s)
    BY <1>5 DEF AnswerLost, LoseTurn
  <2>2. StartOK(d)'
    BY <1>d, <1>notr, <1>loose, <2>1, StartKept DEF rows, codex
  <2> QED BY <1>d, <1>step, <1>exit, <1>loose, <2>1, <2>2 DEF rows, codex
<1>6. CASE SendUnanswered(s)
  <2>1. /\ UNCHANGED <<rows, turnOf, turnState, msgTurn, orphan>> /\ Exit(s) /\ s \notin gone
        /\ transit' = transit \cup {d}
    BY <1>6, <1>d DEF SendUnanswered
  <2>2. turnStatus[d] = "queueing" /\ msgTurn[d] = None
    BY <1>6, <1>d DEF SendUnanswered, At, StartInv, PhaseOK
  <2>3. StartOK(d)'
    BY <1>d, <1>loose, <1>null, <1>exit, <1>frame, <2>1, <2>2
       DEF StartOK, rows, QueueState, Resting, Claimable, Waiting, Retryable
  <2> QED BY <1>d, <1>step, <1>exit, <1>loose, <2>1, <2>3 DEF rows
<1>stay. ASSUME NEW pc \in {"send", "accepted", "running"},
                worker' = [worker EXCEPT ![s].pc = pc]
         PROVE  /\ worker'[s].d = d /\ worker'[s].pc = pc /\ worker'[s].cont = worker[s].cont
                /\ \A x \in Session \ {s} : worker'[x] = worker[x]
  BY <1>d, <1>t, <1>stay DEF TypeOK, DaemonOK
<1>7. CASE SaveTurn(s)
  <2>1. /\ msgTurn[d] # None /\ UNCHANGED codex
        /\ worker' = [worker EXCEPT ![s].pc = "running"]
    BY <1>7, <1>d, <1>t DEF SaveTurn, At, HoldersOK
  <2>2. /\ turnId'[d] = msgTurn[d] /\ turnStatus'[d] = "inProgress" /\ status' = status
        /\ \A e \in Delivery \ {d} : turnId'[e] = turnId[e] /\ turnStatus'[e] = turnStatus[e]
    BY <1>7, <1>d, <1>t DEF SaveTurn, MarkStarted, TypeOK, RowsOK
  <2>3. StartOK(d)'
    BY <1>d, <1>notr, <1>loose, <2>1, <2>2
       DEF StartOK, codex, Resting, Claimable, Waiting, Retryable
  <2>4. PhaseOK(s)'
    BY <1>stay, <2>1, <2>2 DEF PhaseOK
  <2> QED BY <1>d, <1>step, <1>stay, <1>loose, <2>1, <2>2, <2>3, <2>4 DEF codex
<1>8. CASE SendAccepted(s)
  <2>a. /\ Accept(d) /\ UNCHANGED <<rows, transit>>
        /\ worker' = [worker EXCEPT ![s].pc = "accepted"]
    BY <1>8, <1>d DEF SendAccepted
  <2>b. turnStatus[d] = "queueing" /\ msgTurn[d] = None
    BY <1>8, <1>d DEF SendAccepted, At, StartInv, PhaseOK
  <2>1. StartOK(d)'
    BY <1>d, <1>notr, <2>a, <2>b, AcceptStarts
       DEF StartOK, rows, QueueState, Resting, Claimable, Waiting, Retryable
  <2>2. PhaseOK(s)'
    BY <1>d, <1>8, <1>stay, <2>a, <2>b DEF SendAccepted, At, StartInv, PhaseOK, rows
  <2> QED BY <1>d, <1>step, <1>stay, <2>a, <2>b, <2>1, <2>2, AcceptStarts DEF rows
<1>9. CASE Prepare(s)
  <2>1. PICK fresh \in BOOLEAN :
          LET planned == Planned(RecordOf(d), fresh) IN
          \/ /\ Exit(s) /\ UNCHANGED turnStatus
             /\ \/ status' = planned
                \/ \E st \in {"waiting_permission", "canceled"} :
                     status' = [planned EXCEPT ![d] = st]
          \/ /\ worker' = [worker EXCEPT ![s].pc = "send"]
             /\ status' = planned
             /\ turnStatus' = [turnStatus EXCEPT ![d] = "queueing"]
    BY <1>9, <1>d DEF Prepare
  <2> DEFINE planned == Planned(RecordOf(d), fresh)
  <2>2. /\ planned[d] = status[d]
        /\ \A e \in Delivery \ {d} :
             \/ planned[e] = status[e]
             \/ status[e] = "absent" /\ planned[e] = "pending"
    BY <1>d DEF Planned
  <2>3. planned \in [Delivery -> DeliveryStatus]
    BY <1>t, <1>d, DeliveryParts, ObserveType
  <2>4. UNCHANGED <<turnId, hasMsg, codex>>
    BY <1>9 DEF Prepare
  <2>5. turnStatus[d] = "null" /\ msgTurn[d] = None
    BY <1>9, <1>d DEF Prepare, At, StartInv, PhaseOK, StartOK
  <2> HIDE DEF planned
  <2>6. Loose(d)' = {} /\ RolloutOK' /\ \A e \in Delivery : Loose(e)' \subseteq Loose(e)
    BY <1>loose, <1>null, <2>4, <2>5 DEF codex
  <2>7. CASE Exit(s) /\ UNCHANGED turnStatus
    <3>1. /\ \A e \in Delivery \ {d} : status'[e] = planned[e]
          /\ status'[d] \in {"processing", "waiting_permission", "canceled"}
      <4>1. \/ status' = planned
            \/ \E st \in {"waiting_permission", "canceled"} :
                 status' = [planned EXCEPT ![d] = st]
        BY <2>1, <2>7, <1>d, <1>pc DEF planned
      <4> QED BY <1>d, <2>2, <2>3, <4>1
    <3>2. StartOK(d)'
      BY <1>d, <1>notr, <2>4, <2>5, <2>6, <2>7, <3>1
         DEF StartOK, codex, Resting, Claimable, Waiting, Retryable
    <3> QED BY <1>notr, <1>step, <1>exit, <2>2, <2>4, <2>5, <2>6, <2>7, <3>1, <3>2 DEF codex
  <2>8. CASE /\ worker' = [worker EXCEPT ![s].pc = "send"]
             /\ status' = planned
             /\ turnStatus' = [turnStatus EXCEPT ![d] = "queueing"]
    <3>1. /\ turnStatus'[d] = "queueing"
          /\ \A e \in Delivery \ {d} : turnStatus'[e] = turnStatus[e]
      BY <1>t, <2>8 DEF TypeOK, RowsOK
    <3>2. StartOK(d)'
      BY <1>d, <1>notr, <2>2, <2>4, <2>5, <2>6, <2>8, <3>1
         DEF StartOK, codex, QueueState, Resting, Claimable, Waiting, Retryable
    <3>3. PhaseOK(s)'
      BY <1>9, <1>d, <1>stay, <2>4, <2>5, <2>8, <3>1
         DEF Prepare, At, StartInv, PhaseOK, codex
    <3> QED BY <1>d, <1>step, <1>stay, <2>2, <2>4, <2>6, <2>8, <3>1, <3>2, <3>3 DEF codex
  <2> QED BY <2>1, <2>7, <2>8 DEF planned
<1>10. ~AnswerMalformed(s)
  BY DEF AnswerMalformed
<1> QED BY <1>1, <1>2, <1>3, <1>4, <1>5, <1>6, <1>7, <1>8, <1>9, <1>10 DEF WorkerStep

\* The reconciler gives a row back only on evidence that its turn ended, that its
\* session is gone, or that its message was never sent.
LEMMA ReconcileStarts ==
  ASSUME IInv, StartInv, NEW d \in Delivery, ReconcileStep(d)
  PROVE  StartInv'
<1>t. TypeOK /\ RecOK /\ HoldersOK
  BY DEF IInv
<1>frame. UNCHANGED <<worker, codex>>
  BY DEF ReconcileStep, Visit, Materialize, FinishAcknowledged, ReadThread, NoticeQueued,
         ContinueUnconfirmed, CancelUncertain, CancelUnconfirmed, ResetUnsent,
         RecordFound, FailClaimed, FailUnavailable, ReconcileClaimed,
         ReconcileCompleted, ReconcileFailed, ReconcileStale, BeginStop,
         ReconcileAs, LeaveTurns, Adopt
<1>row. StartOK(d) /\ RolloutOK
  BY DEF StartInv
<1>see. \A pcs : Seeing(d, pcs) /\ pcs \subseteq {"visit", "thread"} =>
          /\ rec.d = d /\ worker[SessionOf(d)] = NoWorker
          /\ rec.turn # None => turnId[d] # None
          /\ status[d] = "processing" \/ turnId[d] # None \/ msgTurn[d] = None
  BY DEF Seeing, StartInv, CopyOK
<1>loose. RolloutOK' /\ \A e \in Delivery : Loose(e)' = Loose(e)
  BY <1>row, <1>frame DEF RolloutOK, codex, Loose, Running, Turns
<1>step. ASSUME worker[SessionOf(d)] = NoWorker,
                \A e \in Delivery \ {d} : /\ status'[e] = status[e] /\ turnId'[e] = turnId[e]
                                          /\ turnStatus'[e] = turnStatus[e],
                StartOK(d)', CopyOK'
         PROVE  StartInv'
  <2>1. ASSUME NEW e \in Delivery \ {d} PROVE StartOK(e)'
    <3>1. StartOK(e)
      BY DEF StartInv
    <3> QED BY <1>step, <1>frame, <1>loose, <3>1, StartKept DEF codex, StartOK
  <2>2. ASSUME NEW x \in Session PROVE PhaseOK(x)'
    <3>1. CASE worker[x].pc = "none"
      BY <1>frame, <3>1 DEF PhaseOK
    <3>2. CASE worker[x].pc # "none"
      <4>1. worker[x].d \in Delivery \ {d}
        BY <1>step, <3>2, WorkerRow DEF NoWorker
      <4> QED BY <1>step, <1>frame, <4>1 DEF StartInv, PhaseOK, codex
    <3> QED BY <3>1, <3>2
  <2> QED BY <1>step, <1>loose, <2>1, <2>2 DEF StartInv
<1>idle. rec' = Idle => CopyOK'
  BY DEF CopyOK, Idle
<1>same. ASSUME UNCHANGED rows, CopyOK' PROVE StartInv'
  <2>1. ASSUME NEW e \in Delivery PROVE StartOK(e)'
    BY <1>same, <1>frame, <1>loose, StartKept DEF StartInv, rows, codex, StartOK
  <2>2. ASSUME NEW x \in Session PROVE PhaseOK(x)'
    BY <1>same, <1>frame DEF StartInv, PhaseOK, rows, codex
  <2> QED BY <1>same, <1>loose, <2>1, <2>2 DEF StartInv
<1>1. CASE Visit(d)
  <2>1. CopyOK'
    BY <1>1 DEF Visit, CopyOK, rows
  <2> QED BY <1>1, <1>same, <2>1 DEF Visit
<1>2. CASE ReadThread(d) \/ BeginStop(d)
  <2>1. UNCHANGED rows
    BY <1>2 DEF ReadThread, BeginStop
  <2>2. rec.pc \in {"visit", "thread"} /\ rec.d = d
    BY <1>2 DEF ReadThread, BeginStop, Seen, Seeing
  <2>3. rec'.d = d /\ rec'.turn = rec.turn
    BY <1>2, <1>t, <2>2 DEF ReadThread, BeginStop, TypeOK, DaemonOK
  <2>4. CopyOK'
    BY <1>frame, <2>1, <2>2, <2>3 DEF StartInv, CopyOK, rows, codex
  <2> QED BY <1>same, <2>1, <2>4
<1>3. CASE Materialize(d) \/ RecordFound(d)
  <2>1. Seeing(d, {"visit"}) \/ Seeing(d, {"thread"})
    BY <1>3 DEF Materialize, RecordFound
  <2>2. PICK prev : MarkStarted(d, msgTurn[d], prev)
    BY <1>3 DEF Materialize, RecordFound, Adopt
  <2>3. /\ turnId'[d] = msgTurn[d] /\ turnStatus'[d] = "inProgress" /\ status' = status
        /\ \A e \in Delivery \ {d} : turnId'[e] = turnId[e] /\ turnStatus'[e] = turnStatus[e]
        /\ status[d] = "processing"
    BY <1>t, <2>2 DEF MarkStarted, CanStart, TypeOK, RowsOK
  <2>4. msgTurn[d] # None
    BY <1>3 DEF Materialize, RecordFound, Started
  <2>5. StartOK(d)'
    BY <1>row, <1>frame, <1>loose, <1>see, <2>1, <2>3, <2>4
       DEF StartOK, codex, Resting, Claimable, Waiting, Retryable
  <2>6. CopyOK'
    <3>1. CASE Materialize(d)
      <4>1. rec'.d = d
        BY <3>1, <1>t DEF Materialize, Seeing, TypeOK, DaemonOK
      <4> QED BY <2>3, <2>4, <4>1 DEF CopyOK
    <3>2. CASE RecordFound(d)
      <4>1. rec'.d = d
        BY <3>2, <1>t DEF RecordFound, Seeing, TypeOK, DaemonOK
      <4> QED BY <2>3, <2>4, <4>1 DEF CopyOK
    <3> QED BY <1>3, <3>1, <3>2
  <2> QED BY <1>see, <1>step, <2>1, <2>3, <2>5, <2>6
<1>fin. ASSUME NEW st, NEW ts, Finish(d, st, ts), CopyOK', st # "processing",
               \E pcs : Seeing(d, pcs) /\ pcs \subseteq {"visit", "thread"},
               d \in transit => st \in {"canceled", "completed"},
               st \in Resting \cup {"failed"} => Loose(d) = {},
               st \in Resting \/ (st = "failed" /\ ts \in {"interrupted", "unconfirmed"})
                 => turnId[d] # None \/ msgTurn[d] = None
        PROVE  StartInv'
  <2>1. /\ \A e \in Delivery \ {d} : status'[e] = status[e] /\ turnStatus'[e] = turnStatus[e]
        /\ status'[d] = st /\ turnStatus'[d] = ts /\ turnId' = turnId
    BY <1>fin, <1>t DEF Finish, TypeOK, RowsOK
  <2>2. StartOK(d)'
    BY <1>row, <1>fin, <1>frame, <1>loose, <2>1, SettledRow DEF Retryable, codex
  <2> QED BY <1>fin, <1>see, <1>step, <2>1, <2>2
<1>null. msgTurn[d] = None => Loose(d) = {}
  BY <1>row, ConstantsAssumption DEF StartOK, Loose, Running, Turns
<1>4. CASE NoticeQueued(d)
  <2>1. Seeing(d, {"visit", "thread"}) /\ Finish(d, "processing", "queued") /\ rec' = Idle
        /\ turnStatus[d] = "queueing" /\ status[d] = "processing"
    BY <1>4 DEF NoticeQueued, Unconfirmed, ReconcileAs, Done
  <2>2. /\ \A e \in Delivery \ {d} : status'[e] = status[e] /\ turnStatus'[e] = turnStatus[e]
        /\ status'[d] = "processing" /\ turnStatus'[d] = "queued" /\ turnId' = turnId
    BY <2>1, <1>t DEF Finish, TypeOK, RowsOK
  <2>3. StartOK(d)'
    BY <1>row, <1>frame, <1>loose, <1>see, <2>1, <2>2
       DEF StartOK, codex, QueueState, Resting, Claimable, Waiting, Retryable
  <2> QED BY <1>see, <1>step, <1>idle, <2>1, <2>2, <2>3
<1>5. CASE ContinueUnconfirmed(d)
  <2>1. /\ Seeing(d, {"visit", "thread"}) /\ Finish(d, "retry", "completed") /\ rec' = Idle
        /\ turnStatus[d] \notin QueueState /\ Completed(turnId[d]) /\ status[d] = "processing"
    BY <1>5 DEF ContinueUnconfirmed, Unconfirmed, Uncertain, ReconcileAs, Done
  <2>2. turnId[d] \in Turn /\ turnState[turnId[d]] \in Ended
    BY <1>t, <1>row, <2>1 DEF Completed, RolloutOK, TypeOK, RowsOK
  <2>3. Loose(d) = {}
    <3>1. CASE turnStatus[d] = "null"
      BY <1>row, <1>null, <1>see, <2>1, <3>1 DEF StartOK
    <3>2. CASE turnStatus[d] = "inProgress"
      BY <1>row, <1>see, <2>1, <2>2, <3>2 DEF StartOK, Loose, Running, Turns, Ended
    <3> QED BY <1>row, <1>see, <2>1, <3>1, <3>2 DEF StartOK
  <2>4. d \notin transit
    BY <1>row, <1>see, <2>1 DEF StartOK
  <2> QED BY <1>fin, <1>idle, <2>1, <2>3, <2>4 DEF Completed
<1>6. CASE ReconcileClaimed(d) \/ ReconcileCompleted(d) \/ ReconcileFailed(d)
  <2>1. Seeing(d, {"thread"}) /\ msgTurn[d] = rec.turn /\ rec.turn # None
        /\ turnState[rec.turn] \in Ended
    BY <1>6 DEF ReconcileClaimed, ReconcileCompleted, ReconcileFailed, SeenEnded, Seen
  <2>2. /\ rec' = Idle
        /\ \E st \in {"retry", "completed", "failed"} : \E ts : Finish(d, st, ts)
    BY <1>6 DEF ReconcileClaimed, ReconcileCompleted, ReconcileFailed, ReconcileAs,
                Done, AfterTurn
  <2>3. Loose(d) = {} /\ d \notin transit
    BY <1>row, <2>1 DEF StartOK, Loose, Running, Turns, Ended
  <2>4. turnId[d] # None
    BY <1>see, <2>1
  <2> QED BY <1>fin, <1>idle, <2>1, <2>2, <2>3, <2>4
<1>7. CASE FailClaimed(d) \/ FailUnavailable(d)
  <2>1. /\ Seeing(d, {"thread"}) /\ SessionOf(d) \in gone /\ rec' = Idle
        /\ \E ts \in {"unavailable", turnStatus[d]} : Finish(d, "failed", ts)
    BY <1>7 DEF FailClaimed, FailUnavailable, ReconcileAs, Done
  <2>2. d \notin transit /\ Loose(d) = {}
    BY <1>row, <2>1 DEF StartOK, RolloutOK, Loose, Running, Turns
  <2>3. \/ turnStatus[d] \notin {"interrupted", "unconfirmed"}
        \/ turnId[d] # None \/ msgTurn[d] = None
    BY <1>row, <1>see, <2>1 DEF StartOK, QueueState
  <2> QED BY <1>fin, <1>idle, <2>1, <2>2, <2>3 DEF Resting, Claimable, Waiting
<1>8. CASE FinishAcknowledged(d)
  <2>1. /\ Finish(d, "completed", "completed") /\ rec' = Idle
        /\ Seeing(d, {"visit"}) \/ Seeing(d, {"thread"}) \/ Seeing(d, {"visit", "thread"})
    BY <1>8 DEF FinishAcknowledged, Unconfirmed, Seen, ReconcileAs, Done
  <2> QED BY <1>fin, <1>idle, <2>1 DEF Resting, Claimable, Waiting
<1>9. CASE CancelUncertain(d) \/ CancelUnconfirmed(d) \/ ReconcileStale(d)
  <2>1. Seeing(d, {"thread"}) \/ Seeing(d, {"visit", "thread"})
    BY <1>9 DEF CancelUncertain, CancelUnconfirmed, ReconcileStale, Unconfirmed,
                SeenEnded, Seen
  <2>2. \E ts : Finish(d, "canceled", ts)
    BY <1>9 DEF CancelUncertain, CancelUnconfirmed, ReconcileStale, CancelReconciled
  <2>3. CopyOK'
    <3>1. rec' = Idle \/ rec' = [rec EXCEPT !.pc = "withdraw"]
      BY <1>9 DEF CancelUncertain, CancelUnconfirmed, ReconcileStale, Done
    <3>2. rec'.pc \in {"idle", "withdraw"}
      BY <1>t, <3>1 DEF Idle, TypeOK, DaemonOK
    <3> QED BY <3>2 DEF CopyOK
  <2> QED BY <1>fin, <2>1, <2>2, <2>3 DEF Resting, Claimable, Waiting
<1>10. CASE ResetUnsent(d)
  <2>1. /\ Seeing(d, {"visit", "thread"}) /\ rec' = Idle
        /\ turnStatus[d] \notin QueueState /\ turnId[d] = None /\ status[d] = "processing"
    BY <1>10 DEF ResetUnsent, Unconfirmed, Uncertain, Done
  <2>2. /\ \A e \in Delivery \ {d} : status'[e] = status[e] /\ turnStatus'[e] = turnStatus[e]
        /\ turnId' = turnId /\ status'[d] = "retry"
    BY <1>10, <1>t DEF ResetUnsent, TypeOK, RowsOK
  <2>3. msgTurn[d] = None /\ d \notin transit
    BY <1>row, <1>see, <2>1 DEF StartOK
  <2>4. StartOK(d)'
    BY <1>row, <1>null, <1>frame, <1>loose, <2>2, <2>3, SettledRow DEF codex
  <2> QED BY <1>see, <1>step, <1>idle, <2>1, <2>2, <2>4
<1> QED BY <1>1, <1>2, <1>3, <1>4, <1>5, <1>6, <1>7, <1>8, <1>9, <1>10 DEF ReconcileStep

\* A step that leaves the rows and the client messages alone, and only ends turns.
LEMMA QuietStarts ==
  ASSUME IInv, StartInv, RolloutOK',
         \A e \in Delivery : /\ \/ status'[e] = status[e]
                                \/ status[e] = "absent" /\ status'[e] = "pending"
                             /\ msgTurn'[e] = msgTurn[e] /\ Loose(e)' \subseteq Loose(e)
                             /\ e \in transit' => e \in transit /\ SessionOf(e) \notin gone',
         UNCHANGED <<turnId, turnStatus>>,
         \A x \in Session : worker'[x] = worker[x] \/ worker'[x] = NoWorker,
         \/ rec'.pc \notin {"visit", "thread", "stop", "cancel"}
         \/ rec' = rec
         \/ rec.pc = "stop" /\ rec'.d = rec.d /\ rec'.turn = rec.turn
  PROVE  StartInv'
<1>1. ASSUME NEW e \in Delivery PROVE StartOK(e)'
  BY StartKept, DeliveryParts DEF StartInv
<1>2. ASSUME NEW x \in Session PROVE PhaseOK(x)'
  <2>1. CASE worker'[x].pc = "none"
    BY <2>1 DEF PhaseOK
  <2>2. CASE worker'[x].pc # "none"
    <3>1. worker'[x] = worker[x] /\ worker[x].d \in Delivery
      BY <2>2, WorkerRow DEF NoWorker
    <3> QED BY <3>1 DEF StartInv, PhaseOK
  <2> QED BY <2>1, <2>2
<1>3. CopyOK'
  <2>1. rec.pc \in {"visit", "thread", "stop", "cancel"} => rec.d \in Delivery
    BY DEF IInv, RecOK
  <2> QED BY <2>1 DEF StartInv, CopyOK
<1> QED BY <1>1, <1>2, <1>3 DEF StartInv

\* An interrupt only ends a turn.
LEMMA InterruptStarts ==
  ASSUME IInv, StartInv, NEW t, NEW done \in BOOLEAN, Interrupt(t, done)
  PROVE  /\ RolloutOK' /\ UNCHANGED <<msgTurn, transit, gone>>
         /\ \A e \in Delivery : Loose(e)' \subseteq Loose(e)
<1>1. TypeOK /\ RolloutOK
  BY DEF IInv, StartInv
<1>2. \A x \in Turn : /\ turnState'[x] = turnState[x] \/ turnState'[x] = "interrupted"
                      /\ rollout'[x] = "task_complete" => \/ rollout[x] = "task_complete"
                                                          \/ turnState'[x] = "interrupted"
                      /\ turnOf'[x] = turnOf[x]
  BY <1>1 DEF Interrupt, TypeOK, CodexOK
<1>3. UNCHANGED <<msgTurn, transit, gone, orphan>>
  BY DEF Interrupt
<1>4. RolloutOK'
  BY <1>1, <1>2, <1>3 DEF RolloutOK, Ended
<1> QED BY <1>2, <1>3, <1>4, LooseShrinks

\* Stopping, canceling and withdrawing start nothing.
LEMMA ReconcilerStarts ==
  ASSUME IInv, StartInv, ReconcilerStep
  PROVE  StartInv'
<1>t. TypeOK /\ RecOK
  BY DEF IInv
<1>frame. UNCHANGED worker
  BY DEF ReconcilerStep, Pass, StopTurn, StopTurnFails, CancelStopped,
         CancelStoppedFails, Withdraw, Defer, LeaveTurns
<1>codex. UNCHANGED codex => /\ RolloutOK' /\ UNCHANGED <<msgTurn, transit, gone>>
                             /\ \A e \in Delivery : Loose(e)' \subseteq Loose(e)
  BY DEF codex, StartInv, RolloutOK, Loose, Running, Turns
<1>tr. \A e \in Delivery : e \in transit => SessionOf(e) \notin gone
  BY DEF StartInv, StartOK
<1>idle. Idle.pc = "idle"
  BY DEF Idle
<1>1. CASE Pass \/ StopTurnFails \/ CancelStoppedFails
  <2>1. UNCHANGED <<codex, rows>> /\ rec' = Idle
    BY <1>1 DEF Pass, StopTurnFails, CancelStoppedFails, Defer, LeaveTurns, Done
  <2> QED BY <1>codex, <1>frame, <1>idle, <1>tr, <2>1, QuietStarts DEF rows
<1>2. CASE StopTurn
  <2>1. /\ rec.pc = "stop" /\ rec'.d = rec.d /\ rec'.turn = rec.turn /\ UNCHANGED rows
        /\ \E done \in BOOLEAN : Interrupt(rec.turn, done)
    BY <1>2, <1>t DEF StopTurn, TypeOK, DaemonOK
  <2>2. /\ RolloutOK' /\ UNCHANGED <<msgTurn, transit, gone>>
        /\ \A e \in Delivery : Loose(e)' \subseteq Loose(e)
    BY <2>1, InterruptStarts
  <2> QED BY <1>frame, <1>tr, <2>1, <2>2, QuietStarts DEF rows
<1>3. CASE Withdraw
  <2>1. UNCHANGED rows /\ rec' = Idle
    BY <1>3 DEF Withdraw, Done
  <2>2. /\ RolloutOK' /\ UNCHANGED <<msgTurn, gone>> /\ transit' \subseteq transit
        /\ \A e \in Delivery : Loose(e)' \subseteq Loose(e)
    <3>1. CASE /\ transit' = transit \ {rec.d}
               /\ UNCHANGED <<msgTurn, turnState, turnOf, rollout, gone, orphan>>
      BY <3>1 DEF StartInv, RolloutOK, Loose, Running, Turns
    <3>2. CASE \E done \in BOOLEAN : Interrupt(msgTurn[rec.d], done)
      BY <3>2, InterruptStarts
    <3> QED BY <1>3, <1>codex, <3>1, <3>2 DEF Withdraw
  <2> QED BY <1>frame, <1>idle, <1>tr, <2>1, <2>2, QuietStarts DEF rows
<1>4. CASE CancelStopped
  <2>d. PICK d \in Delivery : d = rec.d
    BY <1>4, <1>t DEF CancelStopped, RecOK
  <2>1. /\ worker[SessionOf(d)] = NoWorker /\ rec' = Idle /\ UNCHANGED codex
        /\ \E ts : Finish(d, "canceled", ts)
    BY <1>4, <1>t, <2>d DEF CancelStopped, CancelReconciled, RecOK, Done, LeaveTurns
  <2>2. /\ \A e \in Delivery \ {d} : status'[e] = status[e] /\ turnStatus'[e] = turnStatus[e]
        /\ status'[d] = "canceled" /\ turnId' = turnId
    BY <1>t, <2>1 DEF Finish, TypeOK, RowsOK
  <2>3. StartOK(d)'
    BY <1>codex, <2>1, <2>2, SettledRow
       DEF StartInv, Retryable, Resting, Claimable, Waiting
  <2>4. ASSUME NEW e \in Delivery \ {d} PROVE StartOK(e)'
    BY <1>codex, <1>frame, <1>tr, <2>1, <2>2, StartKept DEF StartInv
  <2>5. ASSUME NEW x \in Session PROVE PhaseOK(x)'
    <3>1. CASE worker[x].pc = "none"
      BY <1>frame, <3>1 DEF PhaseOK
    <3>2. CASE worker[x].pc # "none"
      <4>1. worker[x].d \in Delivery \ {d}
        BY <2>1, <3>2, WorkerRow DEF NoWorker
      <4> QED BY <1>codex, <1>frame, <2>1, <2>2, <4>1 DEF StartInv, PhaseOK
    <3> QED BY <3>1, <3>2
  <2>6. CopyOK'
    BY <1>idle, <2>1 DEF CopyOK
  <2> QED BY <1>codex, <2>1, <2>3, <2>4, <2>5, <2>6 DEF StartInv
<1> QED BY <1>1, <1>2, <1>3, <1>4 DEF ReconcilerStep

\* A claim takes a row without a running turn; late acceptance, deletion and
\* recovery leave at most one.
LEMMA OthersStarts ==
  ASSUME IInv, SentOK, StartInv, Next,
         ~ \E s \in Session : WorkerStep(s),
         ~ \E d \in Delivery : ReconcileStep(d),
         ~ ReconcilerStep
  PROVE  StartInv'
<1>t. TypeOK /\ SessionExclusive /\ RecOK /\ AwayOK
  BY DEF IInv
<1>codex. UNCHANGED codex => /\ RolloutOK' /\ UNCHANGED <<msgTurn, transit, gone>>
                             /\ \A e \in Delivery : Loose(e)' \subseteq Loose(e)
  BY DEF codex, StartInv, RolloutOK, Loose, Running, Turns
<1>tr. \A e \in Delivery : e \in transit => SessionOf(e) \notin gone
  BY DEF StartInv, StartOK
<1>same. UNCHANGED <<codex, rows, worker, rec>> => StartInv'
  BY <1>codex, <1>tr, QuietStarts DEF rows
<1>1. ASSUME NEW r \in Record, SaveSnapshot(r) PROVE StartInv'
  <2>1. PICK fresh \in BOOLEAN : status' = Planned(r, fresh)
    BY <1>1 DEF SaveSnapshot
  <2>2. \A e \in Delivery : \/ status'[e] = status[e]
                            \/ status[e] = "absent" /\ status'[e] = "pending"
    BY <2>1 DEF Planned
  <2>3. UNCHANGED <<turnId, turnStatus, codex, worker, rec>>
    BY <1>1 DEF SaveSnapshot
  <2> QED BY <1>codex, <1>tr, <2>2, <2>3, QuietStarts
<1>2. ASSUME NEW r \in Record, EditCard(r) \/ RecordStop(r) PROVE StartInv'
  BY <1>2, <1>same DEF EditCard, RecordStop
<1>3. ASSUME NEW r \in Record, InterruptTask(r) PROVE StartInv'
  <2>1. UNCHANGED <<rows, worker, rec>> /\ \E done \in BOOLEAN : Interrupt(exec[r].t, done)
    BY <1>3 DEF InterruptTask
  <2>2. /\ RolloutOK' /\ UNCHANGED <<msgTurn, transit, gone>>
        /\ \A e \in Delivery : Loose(e)' \subseteq Loose(e)
    BY <2>1, InterruptStarts
  <2> QED BY <1>tr, <2>1, <2>2, QuietStarts DEF rows
<1>rows. ASSUME UNCHANGED <<codex, worker, rec, turnId, turnStatus>>,
                \A e \in Delivery : \/ status'[e] = status[e]
                                    \/ StartOK(e)' /\ status[e] # "processing"
         PROVE  StartInv'
  <2>1. ASSUME NEW e \in Delivery PROVE StartOK(e)'
    BY <1>rows, <1>codex, <1>tr, StartKept DEF StartInv
  <2>2. ASSUME NEW x \in Session PROVE PhaseOK(x)'
    BY <1>rows, <1>codex DEF StartInv, PhaseOK
  <2>3. CopyOK'
    <3>1. rec.pc \in {"visit", "thread", "stop", "cancel"} => rec.d \in Delivery
      BY <1>t DEF RecOK
    <3> QED BY <1>rows, <1>codex, <3>1 DEF StartInv, CopyOK
  <2> QED BY <1>rows, <1>codex, <2>1, <2>2, <2>3 DEF StartInv
<1>retry. ASSUME NEW e \in Delivery, UNCHANGED <<codex, turnId, turnStatus>>,
                 status[e] \in Waiting \/ Retryable(e), status'[e] \in {"retry", "canceled"}
          PROVE  StartOK(e)' /\ status[e] # "processing"
  <2>1. /\ StartOK(e) /\ Loose(e) = {} /\ e \notin transit /\ status[e] # "processing"
        /\ turnId[e] # None \/ msgTurn[e] = None
    BY <1>retry DEF StartInv, StartOK, Resting, Waiting, Retryable
  <2>2. Loose(e)' = {}
    BY <1>retry, <1>codex, <2>1
  <2> QED BY <1>retry, <1>codex, <2>1, <2>2, SettledRow
<1>4. ASSUME NEW d \in Delivery, ClaimCancels(d) PROVE StartInv'
  <2>1. /\ \A e \in Delivery \ {d} : status'[e] = status[e]
        /\ status'[d] = "canceled" /\ turnId' = turnId /\ turnStatus' = turnStatus
    BY <1>4, <1>t DEF ClaimCancels, Finish, TypeOK, RowsOK
  <2>2. UNCHANGED <<codex, worker, rec>> /\ status[d] \in Claimable
    BY <1>4 DEF ClaimCancels
  <2>3. StartOK(d)'
    BY <1>codex, <2>1, <2>2, SettledRow
       DEF StartInv, Resting, Claimable, Waiting, Retryable
  <2> QED BY <1>rows, <2>1, <2>2, <2>3 DEF Claimable
<1>5. ASSUME NEW s \in Session, OwnerFound(s) PROVE StartInv'
  <2>1. UNCHANGED <<codex, worker, rec, turnId, turnStatus>>
    BY <1>5 DEF OwnerFound
  <2>2. \A e \in Delivery : \/ status'[e] = status[e]
                            \/ status[e] \in Waiting /\ status'[e] = "retry"
    BY <1>5 DEF OwnerFound, Waiting
  <2> QED BY <1>rows, <1>retry, <2>1, <2>2
<1>6. CASE ResumePermission
  <2>1. UNCHANGED <<codex, worker, rec, turnId, turnStatus>>
    BY <1>6 DEF ResumePermission
  <2>2. \A e \in Delivery : \/ status'[e] = status[e]
                            \/ status[e] \in Waiting /\ status'[e] = "retry"
    BY <1>6 DEF ResumePermission, Waiting
  <2> QED BY <1>rows, <1>retry, <2>1, <2>2
<1>7. CASE Recover
  <2>1. UNCHANGED <<codex, worker, rec, turnId, turnStatus>>
    BY <1>7 DEF Recover
  <2>2. \A e \in Delivery : \/ status'[e] = status[e]
                            \/ /\ status[e] \in Waiting \/ Retryable(e)
                               /\ status'[e] \in {"retry", "canceled"}
    BY <1>7 DEF Recover, Waiting
  <2> QED BY <1>rows, <1>retry, <2>1, <2>2
<1>8. CASE Restart
  <2>1. UNCHANGED <<codex, worker, rec, turnId, turnStatus>>
    BY <1>8 DEF Restart
  <2>2. \A e \in Delivery : status'[e] = status[e]
    BY <1>8 DEF Restart, SentOK
  <2> QED BY <1>rows, <2>1, <2>2
<1>9. CASE Crash
  <2>1. UNCHANGED <<codex, rows>> /\ rec'.pc = "idle" /\ \A x \in Session : worker'[x] = NoWorker
    BY <1>9 DEF Crash, Idle
  <2> QED BY <1>codex, <1>tr, <2>1, QuietStarts DEF rows
<1>10. ASSUME NEW d \in Delivery, Claim(d) PROVE StartInv'
  <2>1. /\ \A e \in Delivery \ {d} : /\ status'[e] = status[e] /\ turnId'[e] = turnId[e]
                                     /\ turnStatus'[e] = turnStatus[e]
                                     /\ msgTurn'[e] = msgTurn[e]
        /\ status'[d] = "processing" /\ turnStatus'[d] = "null"
        /\ msgTurn'[d] = IF hasMsg[d] /\ turnId[d] = None THEN msgTurn[d] ELSE None
    BY <1>10, <1>t DEF Claim, TypeOK, RowsOK, CodexOK
  <2>2. /\ \A x \in Session \ {SessionOf(d)} : worker'[x] = worker[x]
        /\ worker'[SessionOf(d)].d = d /\ worker'[SessionOf(d)].pc = "prepare"
        /\ worker'[SessionOf(d)].cont = turnId'[d]
    BY <1>10, <1>t, DeliveryParts DEF Claim, TypeOK, DaemonOK, RowsOK
  <2>3. /\ SessionOf(d) \notin Reserved /\ status[d] \in Claimable /\ rec' = rec /\ rec = Idle
        /\ UNCHANGED <<transit, turnState, turnOf, rollout, gone, orphan>>
    BY <1>10 DEF Claim, Consuming
  <2>4. \A e \in Delivery : Loose(e)' = Loose(e)
    BY <2>3 DEF Loose, Running, Turns
  <2>5. /\ Loose(d) = {} /\ d \notin transit /\ msgTurn'[d] = None
    BY <2>1, <2>3 DEF StartInv, StartOK, Resting, Claimable
  <2>6. StartOK(d)'
    BY <2>1, <2>3, <2>4, <2>5
       DEF StartOK, Resting, Claimable, Waiting, Retryable, QueueState
  <2>7. ASSUME NEW e \in Delivery \ {d} PROVE StartOK(e)'
    <3>1. StartOK(e)
      BY DEF StartInv
    <3>2. CASE e \in transit /\ SessionOf(e) = SessionOf(d)
      <4>1. status[e] # "processing"
        BY <2>3, <3>2 DEF Reserved
      <4> QED BY <2>1, <2>3, <2>4, <3>1, <3>2, <4>1
              DEF StartOK, Retryable
    <3>3. CASE ~(e \in transit /\ SessionOf(e) = SessionOf(d))
      BY <1>tr, <2>1, <2>2, <2>3, <2>4, <3>1, <3>3, StartKept, DeliveryParts
    <3> QED BY <3>2, <3>3
  <2>8. ASSUME NEW x \in Session PROVE PhaseOK(x)'
    <3>1. CASE x = SessionOf(d)
      BY <2>1, <2>2, <3>1 DEF PhaseOK
    <3>2. CASE x # SessionOf(d) /\ worker[x].pc = "none"
      BY <2>2, <3>2 DEF PhaseOK
    <3>3. CASE x # SessionOf(d) /\ worker[x].pc # "none"
      <4>1. worker'[x] = worker[x] /\ worker[x].d \in Delivery \ {d}
        BY <2>2, <3>3, WorkerRow
      <4> QED BY <2>1, <4>1 DEF StartInv, PhaseOK
    <3> QED BY <3>1, <3>2, <3>3
  <2>9. RolloutOK' /\ CopyOK'
    BY <2>3 DEF StartInv, RolloutOK, CopyOK, Idle
  <2> QED BY <2>6, <2>7, <2>8, <2>9 DEF StartInv
<1>11. ASSUME NEW d \in Delivery, LateAccept(d) PROVE StartInv'
  <2>1. /\ d \in transit /\ Accept(d) /\ transit' = transit \ {d}
        /\ UNCHANGED <<rows, worker, rec, gone>>
    BY <1>11 DEF LateAccept, Accept
  <2>2. /\ StartOK(d) /\ msgTurn[d] = None
        /\ \/ status[d] \in {"canceled", "completed"}
           \/ /\ status[d] = "processing" /\ turnStatus[d] \in QueueState
              /\ worker[SessionOf(d)] = NoWorker
    BY <2>1 DEF StartInv, StartOK
  <2>3. StartOK(d)'
    BY <2>1, <2>2, AcceptStarts
       DEF StartOK, rows, QueueState, Resting, Claimable, Waiting, Retryable
  <2>4. ASSUME NEW e \in Delivery \ {d} PROVE StartOK(e)'
    BY <1>tr, <2>1, <2>2, AcceptStarts, StartKept DEF StartInv, rows
  <2>5. ASSUME NEW x \in Session PROVE PhaseOK(x)'
    <3>1. CASE worker[x].pc = "none"
      BY <2>1, <3>1 DEF PhaseOK
    <3>2. CASE worker[x].pc # "none"
      <4>1. worker[x].d \in Delivery \ {d}
        BY <2>2, <3>2, WorkerRow DEF NoWorker
      <4> QED BY <2>1, <2>2, <4>1, AcceptStarts DEF StartInv, PhaseOK, rows
    <3> QED BY <3>1, <3>2
  <2>6. RolloutOK'
    BY <2>1, <2>2, AcceptStarts
  <2>7. CopyOK'
    <3>1. rec.pc \in {"visit", "thread", "stop", "cancel"} => rec.d \in Delivery
      BY <1>t DEF RecOK
    <3>2. CASE rec.d = d
      BY <2>1, <3>2 DEF StartInv, CopyOK, rows
    <3>3. CASE rec.d # d
      BY <2>1, <2>2, <3>1, <3>3, AcceptStarts DEF StartInv, CopyOK, rows
    <3> QED BY <3>2, <3>3
  <2> QED BY <2>3, <2>4, <2>5, <2>6, <2>7 DEF StartInv
<1>12. ASSUME NEW d \in Delivery, DropRequest(d) PROVE StartInv'
  <2>1. /\ transit' = transit \ {d}
        /\ UNCHANGED <<rows, msgTurn, turnState, turnOf, rollout, gone, orphan, worker, rec>>
    BY <1>12 DEF DropRequest
  <2>2. RolloutOK' /\ \A e \in Delivery : Loose(e)' \subseteq Loose(e)
    BY <2>1 DEF StartInv, RolloutOK, Loose, Running, Turns
  <2> QED BY <1>tr, <2>1, <2>2, QuietStarts DEF rows
<1>13. ASSUME NEW s \in Session, SyncTool(s) PROVE StartInv'
  BY <1>13, <1>same DEF SyncTool
<1>14. ASSUME NEW s \in Session, DeleteSession(s) PROVE StartInv'
  <2>1. /\ gone' = gone \cup {s} /\ transit' = {d \in transit : SessionOf(d) # s}
        /\ UNCHANGED <<rows, msgTurn, turnOf, orphan, worker, rec>>
    BY <1>14 DEF DeleteSession
  <2>2. \A t \in Turn : /\ turnState'[t] = IF turnState[t] = "running" /\ SessionOf(turnOf[t]) = s
                                           THEN "interrupted" ELSE turnState[t]
                        /\ rollout'[t] = "task_complete" => rollout[t] = "task_complete"
    BY <1>14 DEF DeleteSession
  <2>3. RolloutOK'
    BY <2>1, <2>2 DEF StartInv, RolloutOK, Ended
  <2>4. \A e \in Delivery : Loose(e)' \subseteq Loose(e)
    BY <2>1, <2>2, LooseShrinks
  <2> QED BY <1>tr, <2>1, <2>3, <2>4, QuietStarts DEF rows
<1>15. ASSUME NEW t \in Turn, EndTurn(t) PROVE StartInv'
  <2>1. UNCHANGED <<rows, msgTurn, transit, turnOf, gone, orphan, worker, rec>>
    BY <1>15 DEF EndTurn
  <2>2. \A x \in Turn : /\ turnState'[x] = turnState[x] \/ turnState'[x] \in Ended
                        /\ rollout'[x] = "task_complete" => \/ rollout[x] = "task_complete"
                                                            \/ turnState'[x] \in Ended
    BY <1>15, <1>t DEF EndTurn, TypeOK, CodexOK
  <2>3. RolloutOK'
    BY <2>1, <2>2 DEF StartInv, RolloutOK, Ended
  <2>4. \A e \in Delivery : Loose(e)' \subseteq Loose(e)
    BY <2>1, <2>2, LooseShrinks DEF Ended
  <2> QED BY <1>tr, <2>1, <2>3, <2>4, QuietStarts DEF rows
<1>16. ASSUME NEW t \in Turn, LogStart(t) PROVE StartInv'
  <2>1. UNCHANGED <<rows, msgTurn, transit, turnState, turnOf, gone, orphan, worker, rec>>
    BY <1>16 DEF LogStart
  <2>2. RolloutOK' /\ \A e \in Delivery : Loose(e)' \subseteq Loose(e)
    BY <1>16, <1>t, <2>1 DEF LogStart, StartInv, RolloutOK, Loose, Running, Turns, TypeOK, CodexOK
  <2> QED BY <1>tr, <2>1, <2>2, QuietStarts DEF rows
<1>17. ASSUME NEW t \in Turn, NEW r \in Record, WriteCard(t, r) PROVE StartInv'
  BY <1>17, <1>same DEF WriteCard
<1>18. ASSUME NEW s \in Session, NEW t \in Turn \cup {None}, NEW r \in Record,
              ReadCard(s, t, r)
       PROVE  StartInv'
  BY <1>18, <1>same DEF ReadCard
<1> QED
  BY <1>1, <1>2, <1>3, <1>4, <1>5, <1>6, <1>7, <1>8, <1>9, <1>10, <1>11, <1>12, <1>13,
     <1>14, <1>15, <1>16, <1>17, <1>18 DEF Next

\* A row that is taken has a client message: the claim gives it one, and only a row
\* that is given back loses it.
LEMMA SentNext ==
  ASSUME IInv, SentOK, [Next]_vars
  PROVE  SentOK'
<1>t. TypeOK
  BY DEF IInv
<1>keep. ASSUME hasMsg' = hasMsg,
                \A e \in Delivery : status'[e] = "processing" => status[e] = "processing"
         PROVE  SentOK'
  BY <1>keep DEF SentOK
<1>same. UNCHANGED <<status, hasMsg>> => SentOK'
  BY DEF SentOK
<1>fin. ASSUME NEW d, NEW st \in DeliveryStatus \ {"processing"}, NEW ts, Finish(d, st, ts)
        PROVE  SentOK'
  BY <1>t, <1>fin, <1>keep DEF Finish, TypeOK, RowsOK
<1>ended. {"canceled", "completed", "retry", "failed"} \cup Waiting \subseteq DeliveryStatus \ {"processing"}
  BY DEF DeliveryStatus, Claimable, Waiting, Terminal
<1>1. ASSUME NEW s \in Session, WorkerStep(s) PROVE SentOK'
  <2>1. CASE \/ PrepareFails(s) \/ AnswerMalformed(s) \/ SaveTurnFails(s) \/ FinishTurn(s)
             \/ \E outcome \in Waiting \cup {"retry", "failed"} : SendFails(s, outcome)
    <3>1. \E d, ts : \E st \in {"completed", "retry", "failed"} \cup Waiting : Finish(d, st, ts)
      BY <2>1 DEF PrepareFails, AnswerMalformed, SaveTurnFails, FinishTurn, AfterTurn, SendFails
    <3> QED BY <1>ended, <1>fin, <3>1
  <2>2. CASE SendUnanswered(s) \/ SendAccepted(s) \/ AnswerLost(s) \/ LoseTurn(s) \/ SaveTurn(s)
    BY <1>same, <2>2 DEF SendUnanswered, SendAccepted, AnswerLost, LoseTurn, SaveTurn,
                         MarkStarted, rows
  <2>3. CASE Prepare(s)
    <3> DEFINE d == worker[s].d
               r == RecordOf(d)
    <3>1. PICK fresh \in BOOLEAN :
            \/ status' = Planned(r, fresh)
            \/ \E st \in {"canceled", "waiting_permission"} :
                 status' = [Planned(r, fresh) EXCEPT ![d] = st]
      BY <2>3 DEF Prepare
    <3> HIDE DEF d, r
    <3>2. \A e \in Delivery : Planned(r, fresh)[e] = "processing" => status[e] = "processing"
      BY DEF Planned
    <3>3. \A e \in Delivery : status'[e] = "processing" => status[e] = "processing"
      BY <3>1, <3>2 DEF Planned
    <3>4. hasMsg' = hasMsg
      BY <2>3 DEF Prepare
    <3> QED BY <1>keep, <3>3, <3>4
  <2> QED BY <1>1, <2>1, <2>2, <2>3 DEF WorkerStep
<1>2. ASSUME NEW d \in Delivery, ReconcileStep(d) PROVE SentOK'
  <2>1. CASE Visit(d) \/ ReadThread(d) \/ BeginStop(d) \/ Materialize(d) \/ RecordFound(d)
    BY <1>same, <2>1 DEF Visit, ReadThread, BeginStop, Materialize, RecordFound, Adopt,
                         MarkStarted, rows
  <2>2. CASE ResetUnsent(d)
    BY <1>t, <2>2 DEF ResetUnsent, SentOK, TypeOK, RowsOK
  <2>3. CASE NoticeQueued(d)
    BY <1>t, <1>keep, <2>3 DEF NoticeQueued, Unconfirmed, ReconcileAs, Finish, TypeOK, RowsOK
  <2>4. CASE \/ ContinueUnconfirmed(d) \/ FinishAcknowledged(d) \/ ReconcileClaimed(d)
             \/ ReconcileCompleted(d) \/ ReconcileFailed(d) \/ FailClaimed(d) \/ FailUnavailable(d)
    <3>1. \E ts : \E st \in {"completed", "retry", "failed"} : Finish(d, st, ts)
      BY <2>4 DEF ContinueUnconfirmed, FinishAcknowledged, ReconcileClaimed, ReconcileCompleted,
                  ReconcileFailed, FailClaimed, FailUnavailable, ReconcileAs, AfterTurn
    <3> QED BY <1>ended, <1>fin, <3>1
  <2>5. CASE CancelUncertain(d) \/ CancelUnconfirmed(d) \/ ReconcileStale(d)
    <3>1. \E ts : Finish(d, "canceled", ts)
      BY <2>5 DEF CancelUncertain, CancelUnconfirmed, ReconcileStale, CancelReconciled
    <3> QED BY <1>ended, <1>fin, <3>1
  <2> QED BY <1>2, <2>1, <2>2, <2>3, <2>4, <2>5 DEF ReconcileStep
<1>3. CASE ReconcilerStep
  <2>1. CASE CancelStopped
    <3>1. \E d, ts : Finish(d, "canceled", ts)
      BY <2>1 DEF CancelStopped, CancelReconciled
    <3> QED BY <1>ended, <1>fin, <3>1
  <2>2. CASE ~CancelStopped
    <3>1. UNCHANGED rows
      BY <1>3, <2>2 DEF ReconcilerStep, Pass, StopTurn, StopTurnFails, CancelStoppedFails,
                        Withdraw, Defer
    <3> QED BY <1>same, <3>1 DEF rows
  <2> QED BY <2>1, <2>2
<1>4. ASSUME NEW d \in Delivery, Claim(d) PROVE SentOK'
  BY <1>4, <1>t DEF Claim, SentOK, TypeOK, RowsOK
<1>5. ASSUME NEW d \in Delivery, ClaimCancels(d) PROVE SentOK'
  BY <1>5, <1>ended, <1>fin DEF ClaimCancels
<1>6. ASSUME NEW r \in Record, SaveSnapshot(r) PROVE SentOK'
  BY <1>6, <1>keep DEF SaveSnapshot, Planned
<1>7. CASE ResumePermission \/ Restart \/ Recover \/ \E s \in Session : OwnerFound(s)
  BY <1>7, <1>keep DEF ResumePermission, Restart, Recover, OwnerFound
<1>8. CASE \/ Crash
           \/ \E r \in Record : EditCard(r) \/ InterruptTask(r) \/ RecordStop(r)
           \/ \E d \in Delivery : LateAccept(d) \/ DropRequest(d)
           \/ \E s \in Session : SyncTool(s) \/ DeleteSession(s)
           \/ \E t \in Turn : EndTurn(t) \/ LogStart(t)
           \/ \E t \in Turn, r \in Record : WriteCard(t, r)
           \/ \E s \in Session, t \in Turn \cup {None}, r \in Record : ReadCard(s, t, r)
  BY <1>8, <1>same DEF Crash, EditCard, InterruptTask, RecordStop, LateAccept, DropRequest,
       SyncTool, DeleteSession, EndTurn, LogStart, WriteCard, ReadCard, rows
<1>9. CASE UNCHANGED vars
  BY <1>9, <1>same DEF vars, rows
<1> QED
  BY <1>1, <1>2, <1>3, <1>4, <1>5, <1>6, <1>7, <1>8, <1>9 DEF Next

\* A delivery never has two recorded or recordable turns running at once: a start
\* whose acceptance is unknown is not repeated without evidence (NoDuplicateTurn).
THEOREM NeverTwoTurns ==
  ASSUME "badFrame" \notin Races
  PROVE  Spec => []NoDuplicateTurn
<1>1. Init => StartInv
  <2> SUFFICES ASSUME Init PROVE StartInv
    OBVIOUS
  <2>1. \A d \in Delivery : Loose(d) = {}
    BY DEF Init, Loose, Running, Turns
  <2>2. \A d \in Delivery : StartOK(d)
    BY <2>1 DEF Init, StartOK, Retryable, Resting
  <2>3. \A s \in Session : PhaseOK(s)
    BY DEF Init, PhaseOK, NoWorker
  <2>4. RolloutOK /\ CopyOK
    BY DEF Init, RolloutOK, CopyOK, Idle
  <2> QED BY <2>2, <2>3, <2>4 DEF StartInv
<1>2. IInv /\ SentOK /\ StartInv /\ [Next]_vars => StartInv'
  <2> SUFFICES ASSUME IInv, SentOK, StartInv, [Next]_vars PROVE StartInv'
    OBVIOUS
  <2>1. ASSUME NEW s \in Session, WorkerStep(s) PROVE StartInv'
    BY <2>1, WorkerStarts
  <2>2. ASSUME NEW d \in Delivery, ReconcileStep(d) PROVE StartInv'
    BY <2>2, ReconcileStarts
  <2>3. CASE ReconcilerStep
    BY <2>3, ReconcilerStarts
  <2>4. CASE UNCHANGED vars
    <3>1. UNCHANGED <<rows, codex, worker, rec>>
      BY <2>4 DEF vars
    <3>2. RolloutOK' /\ \A e \in Delivery : Loose(e)' \subseteq Loose(e)
      BY <3>1 DEF codex, StartInv, RolloutOK, Loose, Running, Turns
    <3>3. \A e \in Delivery : e \in transit => SessionOf(e) \notin gone
      BY DEF StartInv, StartOK
    <3> QED BY <3>1, <3>2, <3>3, QuietStarts DEF rows, codex
  <2> QED BY <2>1, <2>2, <2>3, <2>4, OthersStarts
<1>3. StartInv => NoDuplicateTurn
  <2> SUFFICES ASSUME StartInv, NEW d \in Delivery PROVE Cardinality(Loose(d)) <= 1
    BY DEF NoDuplicateTurn, Loose
  <2>1. Loose(d) \subseteq {msgTurn[d]}
    BY DEF StartInv, StartOK
  <2>2. IsFiniteSet({msgTurn[d]}) /\ Cardinality({msgTurn[d]}) = 1
    BY FS_Singleton
  <2> QED BY <2>1, <2>2, FS_Subset
<1>4. Init => SentOK
  BY DEF Init, SentOK
<1>5. IInv /\ SentOK /\ [Next]_vars => SentOK'
  BY SentNext
<1> QED BY <1>1, <1>2, <1>3, <1>4, <1>5, Invariance, PTL DEF Spec
=============================================================================
