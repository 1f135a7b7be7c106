-------------------------- MODULE TaskEventsPlanning --------------------------
(***************************************************************************)
(* Every registered agent gets its delivery: proof of QuietDispatched for  *)
(* any number of cards, agents and assignments, whoever listens, connects, *)
(* disables or crashes meanwhile.                                          *)
(*                                                                         *)
(* A catch-up leaves nobody without a row.  Whatever undoes this, a saved  *)
(* card or a change of the staff, leaves something behind that ends in     *)
(* another catch-up (PlanComing).                                          *)
(***************************************************************************)
EXTENDS TaskEventsProofs

\* A card keeps its role while it stays in a state that dispatches to this role.
\* Otherwise the event that entered the state, which the catch-up takes, need
\* not be the one that dispatches the card (section 9 of the README); nor may a
\* row be canceled by the live read of a worker.
Steady == /\ "live" \notin Incidents
          /\ \A v, w \in Content : v.st = w.st /\ Dispatch[v.st] = "task_role" => v.role = w.role

Planned == \A c \in Card : snap[c].c # None =>
             \A a \in Registered(Target(snap[c].c)) : HasRow(a, c)
\* A catch-up is still to come, before the workspace is quiet.
PlanComing == \/ ~enabled \/ ~route \/ {"agent", "enable"} \cap calls # {}
              \/ sync.pc \in {"revision", "list", "save", "recover", "prepare", "catchup"}
              \/ sync.pc = "commit" /\ sync.by \in {"agent", "enable"}
              \/ consumer.pc # "none"
              \/ \E e \in Rev : inbox[e] \in Due \cup {"failed"}
PlanOK == Planned \/ PlanComing
\* Only rows of an assignment that has ended are canceled.
RowsOK == \A r \in rows : /\ r.rev <= agents[r.agent].rev
                          /\ r.st = "canceled" => \/ ~agents[r.agent].on
                                                  \/ agents[r.agent].rev # r.rev
\* An event that only updates a card has seen it in the same state before.
UpdatesOK == \A i \in DOMAIN events : events[i].type = "updated" =>
               events[i].before # None /\ events[i].before.st = events[i].after.st
\* A reconciliation is for a workspace without a route.
ReconcileOK == /\ sync.pc \in {"revision", "list", "save"} => ~route
               /\ ~up => ~route /\ sync.pc = "none"
PInv == IInv /\ PlanOK /\ RowsOK /\ UpdatesOK /\ ReconcileOK

-----------------------------------------------------------------------------
(* The database.                                                            *)

\* The event that entered the state dispatches the card.
LEMMA Entered ==
  ASSUME Steady, IInv, UpdatesOK, NEW c \in Card, snap[c].c # None,
         Dispatch[snap[c].c.st] # "none"
  PROVE  LastEntered(c) = Current(c) /\ Current(c) # 0
<1> DEFINE e == {i \in DOMAIN events : /\ snap[c].c # None /\ events[i].card = c
                                       /\ events[i].type = "entered"
                                       /\ events[i].after.st = snap[c].c.st}
           d == {i \in DOMAIN events : /\ snap[c].c # None /\ events[i].card = c
                                       /\ events[i].after.st = snap[c].c.st
                                       /\ Dispatches(events[i])}
<1>1. \A i \in DOMAIN events : events[i] \in TaskEvent
  BY DEF IInv, TypeOK
<1>2. ASSUME NEW i \in DOMAIN events, events[i].after.st = snap[c].c.st
      PROVE  Dispatches(events[i]) <=> events[i].type = "entered"
  <2>1. CASE events[i].type = "entered"
    BY <1>2, <2>1 DEF Dispatches
  <2>2. CASE events[i].type = "updated"
    <3>1. /\ events[i].before \in Content /\ events[i].after \in Content
          /\ events[i].before.st = events[i].after.st
      BY <1>1, <2>2 DEF TaskEvent, UpdatesOK
    <3>2. QED
      BY <2>2, <3>1 DEF Steady, Dispatches
  <2>3. QED
    BY <1>1, <2>1, <2>2 DEF TaskEvent
<1>3. e = d
  BY <1>2
<1>4. LastEntered(c) = (IF e = {} THEN 0 ELSE CHOOSE i \in e : \A j \in e : j <= i)
  BY DEF LastEntered
<1>5. Current(c) = (IF d = {} THEN 0 ELSE CHOOSE i \in d : \A j \in d : j <= i)
  BY DEF Current, CurrentIn
<1>6. d # {} /\ Len(events) \in Nat /\ d \subseteq 1..Len(events)
  BY DEF IInv, TypeOK, KnownOK, Announces
<1> HIDE DEF e, d
<1>7. Current(c) \in 1..Len(events)
  BY <1>5, <1>6, Youngest
<1>8. Current(c) # 0
  BY <1>6, <1>7
<1>9. LastEntered(c) = Current(c)
  BY <1>3, <1>4, <1>5, Zenon
<1>10. QED
  BY <1>8, <1>9

\* A catch-up leaves nobody without a row.
LEMMA CatchupPlans ==
  ASSUME Steady, PInv, PrepareCatchup
  PROVE  Planned'
<1>1. UNCHANGED <<snap, events, agents>>
  BY DEF PrepareCatchup
<1> SUFFICES ASSUME NEW c \in Card, snap[c].c # None,
                    NEW a \in Registered(Target(snap[c].c))
             PROVE  \E r \in rows' : /\ r.ev = Current(c) /\ r.agent = a
                                     /\ r.rev = agents[a].rev /\ r.st # "canceled"
  <2>1. \A c \in Card : Current(c)' = Current(c)
    BY <1>1 DEF Current, CurrentIn, Dispatches
  <2>2. \A role : Registered(role)' = Registered(role)
    BY <1>1 DEF Registered
  <2>3. QED
    BY <1>1, <2>1, <2>2 DEF Planned, HasRow
<1>2. a \in Agent /\ agents[a].on /\ RoleOf[a] = Target(snap[c].c)
  BY DEF Registered
<1>3. Dispatch[snap[c].c.st] # "none"
  <2>1. RoleOf[a] # None
    BY <1>2, EventsAssumption
  <2>2. QED
    BY <1>2, <2>1 DEF Target
<1>4. LastEntered(c) = Current(c) /\ Current(c) # 0
  BY <1>3, Entered DEF PInv
<1>5. CatchUp(c) = Insert(Current(c), Target(snap[c].c), rows)
  BY <1>4 DEF CatchUp
<1>6. CatchUp(c) \subseteq rows'
  BY DEF PrepareCatchup
<1>7. CASE \E r \in rows : r.ev = Current(c) /\ r.agent = a /\ r.rev = agents[a].rev
  <2>1. PICK r \in rows : r.ev = Current(c) /\ r.agent = a /\ r.rev = agents[a].rev
    BY <1>7
  <2>2. r.st # "canceled"
    BY <1>2, <2>1 DEF PInv, RowsOK
  <2>3. QED
    BY <2>1, <2>2 DEF PrepareCatchup
<1>8. CASE ~\E r \in rows : r.ev = Current(c) /\ r.agent = a /\ r.rev = agents[a].rev
  <2> DEFINE q == [ev |-> Current(c), agent |-> a, rev |-> agents[a].rev, st |-> "pending"]
  <2>1. q \in Insert(Current(c), Target(snap[c].c), rows)
    BY <1>8 DEF Insert
  <2>2. q \in rows' /\ q.ev = Current(c) /\ q.agent = a /\ q.rev = agents[a].rev
        /\ q.st # "canceled"
    BY <1>5, <1>6, <2>1
  <2>3. QED
    BY <2>2
<1>9. QED
  BY <1>7, <1>8

\* The rows that are inserted are of present assignments.
LEMMA InsertRows ==
  ASSUME PInv, NEW i, NEW role
  PROVE  \A r \in Insert(i, role, rows) : /\ r.rev <= agents[r.agent].rev
                                          /\ r.st = "canceled" => \/ ~agents[r.agent].on
                                                                  \/ agents[r.agent].rev # r.rev
<1>1. \A a \in Registered(role) : agents[a].rev \in Nat
  BY EventsAssumption DEF Registered, PInv, IInv, TypeOK
<1>2. \A a \in Registered(role) :
        LET q == [ev |-> i, agent |-> a, rev |-> agents[a].rev, st |-> "pending"] IN
        q.rev <= agents[q.agent].rev /\ q.st # "canceled"
  BY <1>1
<1>3. QED
  BY <1>2 DEF Insert, PInv, RowsOK

\* The transactions keep what is said of rows and events.
LEMMA SaveUpdates ==
  ASSUME PInv, NEW c \in Card, NEW after \in Shown, NEW rev \in 0..Revision(MaxRev),
         SaveTaskSnapshot(c, after, rev)
  PROVE  UpdatesOK'
<1>1. events \in Seq(TaskEvent) /\ Len(events) \in Nat /\ DOMAIN events = 1..Len(events)
  BY DEF PInv, IInv, TypeOK
<1>2. CASE events' = events
  BY <1>2 DEF PInv, UpdatesOK
<1>3. CASE events' # events
  <2>1. Saved(c, after, rev) /\ Made(c, after, rev) # {}
    BY <1>3 DEF SaveTaskSnapshot, Appended
  <2>2. \A x \in Made(c, after, rev) : x.type = "updated" => x.before # None /\ x.before.st = x.after.st
    BY DEF Made, TypesOf
  <2>3. PICK x \in Made(c, after, rev) : events' = events \o <<x>>
    BY <2>1 DEF SaveTaskSnapshot, Appended
  <2>4. /\ DOMAIN events' = 1..(Len(events) + 1) /\ events'[Len(events) + 1] = x
        /\ \A i \in 1..Len(events) : events'[i] = events[i]
    BY <1>1, <2>3
  <2>5. QED
    BY <1>1, <2>2, <2>4 DEF PInv, UpdatesOK
<1>4. QED
  BY <1>2, <1>3

\* prepare_task_deliveries changes only the routing of the events.
LEMMA PrepareRows ==
  ASSUME PInv, PrepareTaskDeliveries
  PROVE  RowsOK' /\ UpdatesOK'
<1>1. UNCHANGED agents
  BY DEF PrepareTaskDeliveries
<1>2. UpdatesOK'
  <2>1. /\ DOMAIN events' = DOMAIN events
        /\ \A i \in DOMAIN events :
              events'[i] = [events[i] EXCEPT !.routing = events'[i].routing]
    BY PrepareEffect DEF PInv, IInv
  <2>2. \A i \in DOMAIN events : events[i] \in TaskEvent
    BY DEF PInv, IInv, TypeOK
  <2>3. \A i \in DOMAIN events : /\ events'[i].type = events[i].type
                                 /\ events'[i].before = events[i].before
                                 /\ events'[i].after = events[i].after
    BY <2>1, <2>2 DEF TaskEvent
  <2>4. QED
    BY <2>1, <2>3 DEF PInv, UpdatesOK
<1>3. RowsOK'
  <2>1. rows' = rows \cup
       UNION {Insert(i, Target(snap[events[i].card].c), rows) : i \in RoutedNow}
    BY DEF PrepareTaskDeliveries
  <2>2. QED
    BY <1>1, <2>1, InsertRows DEF PInv, RowsOK
<1>4. QED
  BY <1>2, <1>3

\* The catch-up inserts rows of present assignments, too.
LEMMA CatchupRows ==
  ASSUME PInv, PrepareCatchup
  PROVE  RowsOK' /\ UpdatesOK'
<1>1. UNCHANGED <<events, agents>> /\ rows' = rows \cup UNION {CatchUp(c) : c \in Card}
  BY DEF PrepareCatchup
<1>2. \A c \in Card : \A r \in CatchUp(c) :
        /\ r.rev <= agents[r.agent].rev
        /\ r.st = "canceled" => ~agents[r.agent].on \/ agents[r.agent].rev # r.rev
  BY InsertRows DEF CatchUp
<1>3. QED
  BY <1>1, <1>2 DEF PInv, RowsOK, UpdatesOK

-----------------------------------------------------------------------------
(* The steps.                                                               *)

\* A step that leaves the database alone keeps the plan, if what is to come
\* stays so.
LEMMA PlanFrame ==
  ASSUME PInv, UNCHANGED store, PlanComing => PlanComing'
  PROVE  PlanOK' /\ RowsOK' /\ UpdatesOK'
<1>1. RowsOK' /\ UpdatesOK'
  BY DEF PInv, RowsOK, UpdatesOK, store
<1>2. Planned => Planned'
  <2>1. \A c \in Card : Current(c)' = Current(c)
    BY DEF Current, CurrentIn, Dispatches, store
  <2>2. \A role : Registered(role)' = Registered(role)
    BY DEF Registered, store
  <2>3. QED
    BY <2>1, <2>2 DEF Planned, HasRow, store
<1>3. QED
  BY <1>1, <1>2 DEF PInv, PlanOK

\* Route and sync.
LEMMA ReconcileNext ==
  ASSUME PInv, [Next]_vars
  PROVE  ReconcileOK'
<1>1. CASE UNCHANGED <<sync, route, up>>
  BY <1>1 DEF PInv, ReconcileOK
<1>2. CASE SyncStep
  <2>0. sync \in SyncType /\ NoSync.pc = "none" /\ up' = up
    BY <1>2, JobTyped DEF PInv, IInv, TypeOK, SyncType, SyncStep, SyncWork, SyncRevision, SyncList,
         SyncCommit, SyncRecover, SyncPrepare, SyncCatchup, SyncSave, SyncFails, SyncBegin,
         ConnectFails, service
  <2>1. ASSUME NEW by \in calls, SyncBegin(by)
        PROVE  ReconcileOK'
    BY <2>1 DEF SyncBegin, PInv, ReconcileOK, NoSync
  <2>2. ASSUME sync'.pc = "none", UNCHANGED route
        PROVE  ReconcileOK'
    BY <2>0, <2>2 DEF PInv, ReconcileOK
  <2>3. CASE SyncFails \/ SyncCatchup \/ \E by \in calls : ConnectFails(by)
    BY <2>0, <2>2, <2>3 DEF SyncFails, SyncCatchup, ConnectFails, Failed, Returned
  <2>4. CASE SyncRevision \/ SyncList \/ SyncRecover \/ SyncPrepare \/ \E c \in Card : SyncSave(c)
    <3>1. /\ UNCHANGED route /\ sync.pc # "none"
          /\ sync'.pc \in {"revision", "list", "save"} => sync.pc \in {"revision", "list", "save"}
      BY <2>0, <2>4 DEF SyncRevision, SyncList, SyncRecover, SyncPrepare, SyncSave, SyncType, service
    <3>2. QED
      BY <2>0, <3>1 DEF PInv, ReconcileOK
  <2>5. CASE SyncCommit
    <3>1. sync'.pc \in {"prepare", "recover"} /\ sync.pc # "none"
      BY <2>0, <2>5 DEF SyncCommit, SyncType
    <3>2. QED
      BY <2>0, <3>1 DEF PInv, ReconcileOK
  <2>6. QED
    BY <1>2, <2>1, <2>3, <2>4, <2>5 DEF SyncStep, SyncWork
<1>3. CASE ServiceStep
  <2>1. CASE Crash \/ CheckWorkers \/ Restart \/ \E who \in ending : PopRoute(who)
    BY <2>1, JobTyped DEF Crash, CheckWorkers, Stop, Restart, PopRoute, threads, PInv, ReconcileOK
  <2>2. CASE ~(Crash \/ CheckWorkers \/ Restart \/ \E who \in ending : PopRoute(who))
    BY <1>1, <1>3, <2>2 DEF ServiceStep, Enable, Disable, VerifyEnds, ListenEnds, Release,
         StreamDies, AskBlind, threads
  <2>3. QED
    BY <2>1, <2>2
<1>4. CASE BoardStep \/ LarkStep
  BY <1>1, <1>4 DEF BoardStep, LarkStep, WriteCards, DeleteCard, ChangeField, Change, Push,
                    Lose, threads, service
<1>5. CASE ConsumerStep
  BY <1>1, <1>5 DEF ConsumerStep, ConsumerWork, Lookup, FinishEvent, ConsumePrepare,
                    ConsumeCatchup, ReadCard, SaveCard, ReadFails, Claim, service
<1>6. CASE AgentStep
  BY <1>1, <1>6 DEF AgentStep, Register, UpdateAgent, Unregister, AgentChanged, threads
<1>7. CASE WorkerStep
  BY <1>1, <1>7 DEF WorkerStep, LiveRead, LiveSave, LivePrepare, Decide, ClaimRow,
                    ReconcileRow, threads, service
<1>8. CASE UNCHANGED vars
  BY <1>1, <1>8 DEF vars, threads, service
<1>9. QED
  BY <1>2, <1>3, <1>4, <1>5, <1>6, <1>7, <1>8 DEF Next

\* The consumer ends with a catch-up, or leaves an event to be repeated.
LEMMA ConsumerPlans ==
  ASSUME Steady, PInv, ConsumerStep
  PROVE  PlanOK' /\ RowsOK' /\ UpdatesOK'
<1>1. /\ consumer \in JobType /\ NoJob \in JobType /\ NoJob.pc = "none"
      /\ inbox \in [Rev -> InboxStatus] /\ 1..Len(log) \subseteq Rev
      /\ UNCHANGED <<sync, service>>
  <2>1. 1..Len(log) \subseteq Rev
    BY EventsAssumption DEF PInv, IInv, TypeOK, Rev
  <2>2. UNCHANGED <<sync, service>>
    BY DEF ConsumerStep, ConsumerWork, Lookup, FinishEvent, ConsumePrepare,
           ConsumeCatchup, ReadCard, SaveCard, ReadFails, Claim
  <2>3. QED
    BY <2>1, <2>2, JobTyped DEF PInv, IInv, TypeOK, JobType
<1>2. ASSUME consumer'.pc # "none", UNCHANGED store
      PROVE  PlanOK' /\ RowsOK' /\ UpdatesOK'
  BY <1>2, PlanFrame DEF PlanComing
<1>3. ASSUME Retry(consumer.e), consumer.pc \in {"lookup", "work"}, UNCHANGED store
      PROVE  PlanOK' /\ RowsOK' /\ UpdatesOK'
  <2>1. consumer.e \in Rev
    BY <1>1, <1>3 DEF PInv, IInv, JobOK
  <2>2. inbox'[consumer.e] \in Due \cup {"failed"}
    BY <1>1, <1>3, <2>1 DEF Retry, Due
  <2>3. QED
    BY <1>3, <2>1, <2>2, PlanFrame DEF PlanComing
<1>4. ASSUME NEW e \in Rev, Claim(e)
      PROVE  PlanOK' /\ RowsOK' /\ UpdatesOK'
  <2>1. consumer'.pc = "lookup"
    BY <1>1, <1>4 DEF Claim, JobType
  <2>2. QED
    BY <1>2, <1>4, <2>1 DEF Claim
<1>5. CASE Lookup
  <2>1. CASE ~route
    <3>1. PlanComing' /\ UNCHANGED store
      BY <1>1, <1>5, <2>1 DEF Lookup, service, PlanComing
    <3>2. QED
      BY <3>1, PlanFrame
  <2>2. CASE route /\ verifying
    BY <1>3, <1>5, <2>2 DEF Lookup
  <2>3. CASE route /\ ~verifying
    <3>1. consumer'.pc = "work" /\ UNCHANGED store
      BY <1>1, <1>5, <2>3 DEF Lookup, JobType
    <3>2. QED
      BY <1>2, <3>1
  <2>4. QED
    BY <2>1, <2>2, <2>3
<1>6. CASE ReadFails
  BY <1>3, <1>6 DEF ReadFails
<1>7. CASE FinishEvent
  <2>1. consumer'.pc = "prepare"
    BY <1>1, <1>7 DEF FinishEvent, JobType
  <2>2. QED
    BY <1>2, <1>7, <2>1 DEF FinishEvent
<1>8. ASSUME NEW c \in Card, ReadCard(c)
      PROVE  PlanOK' /\ RowsOK' /\ UpdatesOK'
  <2>1. consumer'.pc = "work"
    BY <1>1, <1>8 DEF ReadCard, JobType
  <2>2. QED
    BY <1>2, <1>8, <2>1 DEF ReadCard
<1>9. ASSUME NEW c \in Card, SaveCard(c)
      PROVE  PlanOK' /\ RowsOK' /\ UpdatesOK'
  <2>1. consumer'.pc = "work" /\ UNCHANGED <<rows, agents>>
    BY <1>1, <1>9 DEF SaveCard, JobType
  <2>2. consumer.got[c] \in Shown /\ consumer.e \in 1..Len(log)
    BY <1>1, <1>9 DEF SaveCard, JobType, PInv, IInv, JobOK
  <2>3. Revision(consumer.e) \in 0..Revision(MaxRev)
    BY <2>2, EventsAssumption DEF PInv, IInv, TypeOK, Revision
  <2>4. UpdatesOK'
    BY <1>9, <2>2, <2>3, SaveUpdates DEF SaveCard
  <2>5. QED
    BY <2>1, <2>4 DEF PInv, RowsOK, PlanOK, PlanComing
<1>10. CASE ConsumePrepare
  <2>1. CASE enabled
    <3>1. PrepareTaskDeliveries /\ consumer'.pc = "catchup"
      BY <1>1, <1>10, <2>1 DEF ConsumePrepare, JobType
    <3>2. QED
      BY <3>1, PrepareRows DEF PlanOK, PlanComing
  <2>2. CASE ~enabled
    <3>1. UNCHANGED store /\ PlanComing'
      BY <1>1, <1>10, <2>2 DEF ConsumePrepare, PlanComing, service
    <3>2. QED
      BY <3>1, PlanFrame
  <2>3. QED
    BY <2>1, <2>2
<1>11. CASE ConsumeCatchup
  <2>1. PrepareCatchup
    BY <1>11 DEF ConsumeCatchup
  <2>2. QED
    BY <2>1, CatchupPlans, CatchupRows DEF PlanOK
<1>12. QED
  BY <1>4, <1>5, <1>6, <1>7, <1>8, <1>9, <1>10, <1>11 DEF ConsumerStep, ConsumerWork

\* So does a sync; the call of one that failed is repeated, or there is no route.
LEMMA SyncPlans ==
  ASSUME Steady, PInv, SyncStep
  PROVE  PlanOK' /\ RowsOK' /\ UpdatesOK'
<1>1. /\ sync \in SyncType /\ NoSync.pc = "none"
      /\ UNCHANGED <<inbox, consumer, enabled>>
  BY JobTyped DEF PInv, IInv, TypeOK, SyncType, SyncStep, SyncWork, SyncRevision, SyncList,
         SyncCommit, SyncRecover, SyncPrepare, SyncCatchup, SyncSave, SyncFails, SyncBegin,
         ConnectFails, service
<1> DEFINE Coming == {"revision", "list", "save", "recover", "prepare", "catchup"}
<1>2. ASSUME sync'.pc \in Coming, UNCHANGED store
      PROVE  PlanOK' /\ RowsOK' /\ UpdatesOK'
  BY <1>2, PlanFrame DEF PlanComing
<1>3. ASSUME NEW by \in calls, SyncBegin(by)
      PROVE  PlanOK' /\ RowsOK' /\ UpdatesOK'
  <2>1. /\ sync'.by = by /\ sync'.pc \in {"revision", "commit"} /\ sync.pc = "none"
        /\ calls' = calls \ {by} /\ UNCHANGED <<store, route>>
    BY <1>3 DEF SyncBegin, NoSync
  <2>2. PlanComing => PlanComing'
    BY <1>1, <2>1 DEF PlanComing
  <2>3. QED
    BY <2>1, <2>2, PlanFrame
<1>4. ASSUME NEW by, Failed(by), UNCHANGED <<store, route>>,
             sync.pc = "none" \/ (by = sync.by /\ sync.pc \in {"revision", "list", "commit"})
      PROVE  PlanOK' /\ RowsOK' /\ UpdatesOK'
  <2>1. PlanComing => PlanComing'
    <3>1. CASE by \in {"agent", "enable"}
      BY <1>4, <3>1 DEF Failed, PlanComing
    <3>2. CASE sync.pc \in {"revision", "list"}
      BY <1>4, <3>2 DEF PInv, ReconcileOK, PlanComing
    <3>3. CASE by \notin {"agent", "enable"} /\ sync.pc \in {"none", "commit"}
      <4>1. calls' = calls \ {by}
        BY <1>4, <3>3 DEF Failed
      <4>2. QED
        BY <1>1, <1>4, <3>3, <4>1 DEF PlanComing
    <3>4. QED
      BY <1>4, <3>1, <3>2, <3>3
  <2>2. QED
    BY <1>4, <2>1, PlanFrame
<1>5. CASE SyncFails \/ \E by \in calls : ConnectFails(by)
  BY <1>4, <1>5 DEF SyncFails, ConnectFails
<1>6. CASE SyncRevision \/ SyncList
  <2>1. sync'.pc \in Coming
    BY <1>1, <1>6 DEF SyncRevision, SyncList, SyncType
  <2>2. QED
    BY <1>2, <1>6, <2>1 DEF SyncRevision, SyncList
<1>7. CASE SyncCommit
  <2>1. sync'.pc \in Coming
    BY <1>1, <1>7 DEF SyncCommit, SyncType
  <2>2. QED
    BY <1>2, <1>7, <2>1 DEF SyncCommit
<1>8. ASSUME NEW c \in Card, SyncSave(c)
      PROVE  PlanOK' /\ RowsOK' /\ UpdatesOK'
  <2>1. sync'.pc = "save" /\ UNCHANGED <<rows, agents>>
    BY <1>1, <1>8 DEF SyncSave, SyncType
  <2>2. sync.got[c] \in Shown /\ sync.rev \in 0..Revision(MaxRev)
    BY <1>1 DEF SyncType
  <2>3. UpdatesOK'
    BY <1>8, <2>2, SaveUpdates DEF SyncSave
  <2>4. QED
    BY <2>1, <2>3 DEF PInv, RowsOK, PlanOK, PlanComing
<1>9. CASE SyncRecover
  <2>1. sync'.pc = "prepare" /\ UNCHANGED <<events, agents>>
    BY <1>1, <1>9 DEF SyncRecover, SyncType
  <2>2. PICK unsent \in SUBSET {r \in rows : enabled /\ r.st = "processing"} :
          rows' = (rows \ unsent) \cup {[r EXCEPT !.st = "pending"] : r \in unsent}
    BY <1>9 DEF SyncRecover
  <2>3. \A r \in rows : /\ [r EXCEPT !.st = "pending"].st = "pending"
                        /\ [r EXCEPT !.st = "pending"].rev = r.rev
                        /\ [r EXCEPT !.st = "pending"].agent = r.agent
    BY DEF PInv, IInv, TypeOK, RowRecord
  <2>4. RowsOK'
    <3>1. \A q \in rows' : q \in rows \/ \E r \in rows : q = [r EXCEPT !.st = "pending"]
      BY <2>2
    <3>2. ASSUME NEW r \in rows
          PROVE  LET q == [r EXCEPT !.st = "pending"] IN
                 /\ q.rev <= agents[q.agent].rev
                 /\ q.st = "canceled" => ~agents[q.agent].on \/ agents[q.agent].rev # q.rev
      BY <2>3 DEF PInv, RowsOK
    <3>3. \A q \in rows' :
            /\ q.rev <= agents[q.agent].rev
            /\ q.st = "canceled" => ~agents[q.agent].on \/ agents[q.agent].rev # q.rev
      BY <3>1, <3>2 DEF PInv, RowsOK
    <3>4. QED
      BY <2>1, <3>3 DEF RowsOK
  <2>5. QED
    BY <2>1, <2>4 DEF PInv, UpdatesOK, PlanOK, PlanComing
<1>10. CASE SyncPrepare
  <2>1. sync'.pc = "catchup"
    BY <1>1, <1>10 DEF SyncPrepare, SyncType
  <2>2. CASE enabled
    BY <1>10, <2>1, <2>2, PrepareRows DEF SyncPrepare, PlanOK, PlanComing
  <2>3. CASE ~enabled
    BY <1>2, <1>10, <2>1, <2>3 DEF SyncPrepare
  <2>4. QED
    BY <2>2, <2>3
<1>11. CASE SyncCatchup
  <2>1. CASE enabled
    BY <1>11, <2>1, CatchupPlans, CatchupRows DEF SyncCatchup, PlanOK
  <2>2. CASE ~enabled
    <3>1. UNCHANGED store /\ PlanComing'
      BY <1>1, <1>11, <2>2 DEF SyncCatchup, PlanComing
    <3>2. QED
      BY <3>1, PlanFrame
  <2>3. QED
    BY <2>1, <2>2
<1>12. QED
  BY <1>3, <1>5, <1>6, <1>7, <1>8, <1>9, <1>10, <1>11 DEF SyncStep, SyncWork

\* The change of an agent is followed by a sync, if the workspace has a route.
LEMMA AgentPlans ==
  ASSUME PInv, AgentStep
  PROVE  PlanOK' /\ RowsOK' /\ UpdatesOK'
<1>1. PICK a \in Agent : Register(a) \/ UpdateAgent(a) \/ Unregister(a)
  BY DEF AgentStep
<1>2. AgentChanged
  BY <1>1 DEF Register, UpdateAgent, Unregister
<1>3. UpdatesOK'
  BY <1>2 DEF AgentChanged, PInv, UpdatesOK
<1>4. PlanOK'
  <2>1. up /\ enabled => "agent" \in calls'
    BY <1>2 DEF AgentChanged, Call
  <2>2. QED
    BY <1>2, <2>1 DEF AgentChanged, PInv, ReconcileOK, PlanOK, PlanComing
<1>5. agents \in [Agent -> [on : BOOLEAN, rev : 0..MaxAssign]] /\ rows \subseteq RowRecord
  BY DEF PInv, IInv, TypeOK
<1>6. RowsOK'
  <2>0. ASSUME NEW r \in rows
        PROVE  /\ r.agent \in Agent /\ r.rev \in Nat /\ r.rev >= 1
               /\ agents[r.agent].rev \in Nat /\ r.rev <= agents[r.agent].rev
    BY <1>5, EventsAssumption DEF PInv, RowsOK, RowRecord
  <2>1. CASE Register(a)
    <3>1. rows' = rows /\ \A b \in Agent : b # a => agents'[b] = agents[b]
      BY <1>5, <2>1 DEF Register
    <3>2. \A r \in rows : r.agent # a
      BY <2>0, <2>1 DEF Register
    <3>3. QED
      BY <2>0, <3>1, <3>2 DEF PInv, RowsOK
  <2>2. ASSUME NEW revs, rows' = Canceled(a, revs), NEW q \in rows'
        PROVE  \E r \in rows : /\ q.agent = r.agent /\ q.rev = r.rev
                               /\ q.st = "canceled" => r.st = "canceled" \/ r.agent = a
    <3>1. PICK r \in rows : q = IF r.agent = a /\ r.rev \in revs /\ r.st = "pending"
                               THEN [r EXCEPT !.st = "canceled"] ELSE r
      BY <2>2 DEF Canceled
    <3>2. QED
      BY <1>5, <3>1 DEF RowRecord
  <2>3. CASE UpdateAgent(a)
    <3>1. /\ rows' = Canceled(a, {agents[a].rev})
          /\ \A b \in Agent : b # a => agents'[b] = agents[b]
          /\ agents'[a].rev = agents[a].rev + 1 /\ agents[a].rev \in Nat
      BY <1>5, <2>3 DEF UpdateAgent
    <3> SUFFICES ASSUME NEW q \in rows'
                 PROVE  /\ q.rev <= agents'[q.agent].rev
                        /\ q.st = "canceled" => ~agents'[q.agent].on \/ agents'[q.agent].rev # q.rev
      BY DEF RowsOK
    <3>2. PICK r \in rows : /\ q.agent = r.agent /\ q.rev = r.rev
                            /\ q.st = "canceled" => r.st = "canceled" \/ r.agent = a
      BY <2>2, <3>1
    <3>3. CASE r.agent = a
      <4>1. q.rev \in Nat /\ q.rev <= agents[a].rev /\ q.agent = a
        BY <2>0, <3>2, <3>3
      <4>2. QED
        BY <3>1, <4>1
    <3>4. CASE r.agent # a
      <4>1. /\ agents'[q.agent] = agents[r.agent] /\ q.rev = r.rev
            /\ q.st = "canceled" => r.st = "canceled"
        BY <2>0, <3>1, <3>2, <3>4
      <4>2. QED
        BY <4>1 DEF PInv, RowsOK
    <3>5. QED
      BY <3>3, <3>4
  <2>4. CASE Unregister(a)
    <3>1. /\ rows' = Canceled(a, 1..MaxAssign)
          /\ \A b \in Agent : b # a => agents'[b] = agents[b]
          /\ agents'[a].rev = agents[a].rev /\ ~agents'[a].on
      BY <1>5, <2>4 DEF Unregister
    <3> SUFFICES ASSUME NEW q \in rows'
                 PROVE  /\ q.rev <= agents'[q.agent].rev
                        /\ q.st = "canceled" => ~agents'[q.agent].on \/ agents'[q.agent].rev # q.rev
      BY DEF RowsOK
    <3>2. PICK r \in rows : /\ q.agent = r.agent /\ q.rev = r.rev
                            /\ q.st = "canceled" => r.st = "canceled" \/ r.agent = a
      BY <2>2, <3>1
    <3>3. CASE r.agent = a
      <4>1. q.rev \in Nat /\ q.rev <= agents[a].rev /\ q.agent = a
        BY <2>0, <3>2, <3>3
      <4>2. QED
        BY <3>1, <4>1
    <3>4. CASE r.agent # a
      <4>1. /\ agents'[q.agent] = agents[r.agent] /\ q.rev = r.rev
            /\ q.st = "canceled" => r.st = "canceled"
        BY <2>0, <3>1, <3>2, <3>4
      <4>2. QED
        BY <4>1 DEF PInv, RowsOK
    <3>5. QED
      BY <3>3, <3>4
  <2>5. QED
    BY <1>1, <2>1, <2>3, <2>4
<1>7. QED
  BY <1>3, <1>4, <1>6

\* A workspace that is enabled is synced; one that loses its route gets it back
\* only from a sync that catches up.
LEMMA ServicePlans ==
  ASSUME PInv, ServiceStep
  PROVE  PlanOK' /\ RowsOK' /\ UpdatesOK'
<1>1. UNCHANGED store
  BY DEF ServiceStep, Enable, Disable, VerifyEnds, ListenEnds, Release, StreamDies,
         CheckWorkers, Crash, Stop, Restart, PopRoute, AskBlind
<1>2. PlanComing => PlanComing'
  <2>1. CASE Enable \/ Disable
    BY <2>1 DEF Enable, Disable, Call, PlanComing
  <2>2. CASE Crash \/ CheckWorkers \/ \E who \in ending : PopRoute(who)
    BY <2>2 DEF Crash, CheckWorkers, Stop, PopRoute, PlanComing
  <2>3. CASE Restart
    BY <2>3 DEF Restart, PInv, ReconcileOK, PlanComing
  <2>4. CASE VerifyEnds \/ ListenEnds \/ Release \/ StreamDies \/ \E by \in Callers : AskBlind(by)
    <3>1. calls \subseteq calls' /\ UNCHANGED <<inbox, threads, route, enabled>>
      BY <2>4 DEF VerifyEnds, ListenEnds, Release, StreamDies, AskBlind, Call
    <3>2. QED
      BY <3>1 DEF PlanComing, threads
  <2>5. QED
    BY <2>1, <2>2, <2>3, <2>4 DEF ServiceStep
<1>3. QED
  BY <1>1, <1>2, PlanFrame

\* A change of the board is nothing to plan before its event is in the inbox.
LEMMA BoardPlans ==
  ASSUME PInv, BoardStep \/ LarkStep
  PROVE  PlanOK' /\ RowsOK' /\ UpdatesOK'
<1>1. /\ UNCHANGED <<store, threads, service>>
      /\ \/ inbox' = inbox
         \/ \E e : inbox' = [inbox EXCEPT ![e] = IF @ = "absent" THEN "pending" ELSE @]
  BY DEF BoardStep, LarkStep, WriteCards, DeleteCard, ChangeField, Change, Push, Lose
<1>2. inbox \in [Rev -> InboxStatus]
  BY DEF PInv, IInv, TypeOK
<1>3. \A e \in Rev : inbox[e] \in Due \cup {"failed"} => inbox'[e] = inbox[e]
  BY <1>1, <1>2 DEF Due
<1>4. PlanComing => PlanComing'
  BY <1>1, <1>3 DEF PlanComing, threads, service
<1>5. QED
  BY <1>1, <1>4, PlanFrame

-----------------------------------------------------------------------------

\* A daemon starts without a route and without rows.
LEMMA PlanInit == Init => PInv
<1> SUFFICES ASSUME Init PROVE PInv
  OBVIOUS
<1>1. PlanOK /\ RowsOK /\ UpdatesOK
  BY DEF Init, PlanOK, PlanComing, RowsOK, UpdatesOK
<1>2. ReconcileOK
  BY DEF Init, ReconcileOK, NoSync
<1>3. QED
  BY <1>1, <1>2, InitInductive DEF PInv

\* Every step keeps the plan.
LEMMA PlanNext ==
  ASSUME Steady, PInv, [Next]_vars
  PROVE  PInv'
<1>1. IInv' /\ ReconcileOK'
  BY NextInductive, ReconcileNext DEF PInv
<1>2. PlanOK' /\ RowsOK' /\ UpdatesOK'
  <2>1. CASE UNCHANGED vars
    <3>1. UNCHANGED store /\ (PlanComing => PlanComing')
      BY <2>1 DEF vars, threads, service, PlanComing
    <3>2. QED
      BY <3>1, PlanFrame
  <2>2. ~WorkerStep
    BY DEF Steady, WorkerStep
  <2>3. QED
    BY <2>1, <2>2, ConsumerPlans, SyncPlans, AgentPlans, ServicePlans, BoardPlans DEF Next
<1>3. QED
  BY <1>1, <1>2 DEF PInv

\* When the workspace is quiet nothing is left to plan, so every registered agent
\* of the role a card is dispatched to has its delivery row: the rows of
\* prepare_task_deliveries and of prepare_agent_catchup_deliveries together miss
\* nobody, whatever crashes, failed syncs and changes of the staff came between.
THEOREM Dispatched ==
  ASSUME Steady
  PROVE  Spec => []QuietDispatched
<1>1. PInv /\ [Next]_vars => PInv'
  BY PlanNext
<1>2. PInv => QuietDispatched
  BY DEF PInv, PlanOK, PlanComing, Planned, QuietDispatched, Quiet
<1>3. QED
  BY <1>1, <1>2, PlanInit, PTL DEF Spec
=============================================================================
