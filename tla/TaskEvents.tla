----------------------------- MODULE TaskEvents -----------------------------
(***************************************************************************)
(* The event pipeline of the TeamFlow daemon: how a change that somebody   *)
(* makes on the Lark board reaches the workspace database, becomes a task  *)
(* event, and is planned as a delivery for the agents of the target role.  *)
(*                                                                         *)
(*   core/global_db.py              the inbox of pushed Lark events        *)
(*   core/event_runtime.py          the consumer of the inbox, reconcile   *)
(*   core/lark_events.py            snapshots and the events they make     *)
(*   core/task_routing.py           which event dispatches a card, to whom *)
(*   core/task_delivery_planner.py  delivery rows for events and agents    *)
(*   core/workspace_runtime.py      sync: stream, reconcile, route         *)
(*                                                                         *)
(* One workspace and one board.  One action is one database transaction,   *)
(* one request to Lark, or one section under sync_lock.  A retry's         *)
(* next_attempt_at and the one day limit may have passed at any moment.    *)
(* What a worker does with a delivery row after its live read of the card  *)
(* is module TaskDelivery.                                                 *)
(***************************************************************************)
EXTENDS Naturals, Sequences, FiniteSets

CONSTANTS
  Card,         \* records of the board's task table
  State,        \* lifecycle states of the workflow
  Dispatch,     \* what a state dispatches to: none, task_role or coordinator
  Role,         \* workflow roles
  Content,      \* bound: what people write on a card, a state and a role
  Coordinator,  \* the workflow's coordinator_role
  Kinds,        \* bound: the kinds of change people make on the board
  Agent,        \* agent ids that may be registered
  Early,        \* agents that are registered when the daemon starts
  RoleOf,       \* the role each of them is registered for
  None,         \* NULL, or no such record
  MaxRev,       \* bound: changes of the board
  MaxAssign,    \* bound: assignment revisions of an agent
  MaxCrashes,   \* bound: daemon crashes
  Incidents     \* which of the incidents below may happen

\* "lark": a request to Lark fails; "age": an event is still failing a day
\* after it came; "staff": agents are registered, changed and removed; "down":
\* the workspace is disabled and enabled again; "dies": the event stream stops
\* by itself; "blind": the listener is verified, or listened to without a
\* route; "live": delivery workers read the card they are about to deliver.
IncidentKinds == {"lark", "age", "staff", "down", "dies", "blind", "live"}

\* A card is modelled by the fields that dispatching depends on.  Its
\* snapshot_hash is this content: no field of a card changes by itself.
ASSUME EventsAssumption ==
  /\ Content \subseteq [st : State, role : Role]
  /\ Dispatch \in [State -> {"none", "task_role", "coordinator"}]
  /\ Kinds \subseteq {"edit", "delete", "field"} /\ Early \subseteq Agent
  /\ Coordinator \in Role /\ RoleOf \in [Agent -> Role]
  /\ None \notin Content \cup Role
  /\ MaxRev \in Nat /\ MaxAssign \in Nat \ {0} /\ MaxCrashes \in Nat
  /\ Incidents \subseteq IncidentKinds

VARIABLES
  board,      \* the cards on the Lark board
  log,        \* what each revision of the table changed: Lark's events
  wire,       \* events that Lark has still to push, or pushes again
  inbox,      \* lark_event_inbox.status
  snap,       \* lark_task_state: snapshot and source_revision
  events,     \* task_events that may dispatch a card, in rowid order
  rows,       \* task_event_deliveries planned, and their status
  agents,     \* agents: registered, assignment_revision
  consumer,   \* the event consumer thread
  sync,       \* the thread inside WorkspaceSynchronizer.sync, under sync_lock
  worker,     \* a delivery worker around its live read
  calls,      \* sync calls the daemon has been asked for
  route,      \* runtime.routes has the workspace
  stream,     \* the app's event stream process: none, on, or dead
  verifying,  \* the workspace is in verifying_workspaces
  ending,     \* requests that still stream events, or that end by taking the
              \* route away: listening, check, release, disable
  enabled,    \* workspaces.enabled in the global database
  ready,      \* routes_ready
  up, crashes

lark == <<board, log>>
store == <<snap, events, rows, agents>>
threads == <<consumer, sync, worker>>
service == <<calls, route, stream, verifying, ending, enabled, ready, up,
             crashes>>
vars == <<lark, wire, inbox, store, threads, service>>

Rev == 1..MaxRev
\* The table's revision after n changes; 0 stands for a NULL source_revision.
Revision(n) == n + 1
InboxStatus == {"absent", "pending", "processing", "retry", "processed",
                "ignored", "failed"}
Settled == {"processed", "ignored", "failed"}
Due == {"pending", "retry"}
NoSnap == [c |-> None, rev |-> 0]   \* no row in lark_task_state
NoRead == [c \in Card |-> None]
\* pc "none": idle.  todo: cards still to read; read: those read and not yet
\* saved; got: what was read of them.
NoJob == [pc |-> "none", e |-> 0, todo |-> {}, read |-> {}, got |-> NoRead]
NoSync == [pc |-> "none", by |-> "none", rev |-> 0, read |-> {}, got |-> NoRead]
NoWork == [pc |-> "none", row |-> None, got |-> None]
Callers == {"startup", "agent", "enable", "verify", "listen"}
RowStatus == {"pending", "processing", "delivered", "canceled"}

-----------------------------------------------------------------------------
(* Routing: which task event dispatches a card, and to which role.          *)

\* task_dispatch_target: the role a card of this content is dispatched to.
Target(c) == CASE Dispatch[c.st] = "task_role" -> c.role
               [] Dispatch[c.st] = "coordinator" -> Coordinator
               [] OTHER -> None
\* dispatch_event_state: the event enters a dispatching state, or changes the
\* role of a card in a state that dispatches to the card's own role.
Dispatches(ev) ==
  \/ ev.type = "entered" /\ Dispatch[ev.after.st] # "none"
  \/ /\ ev.type = "updated" /\ Dispatch[ev.after.st] = "task_role"
     /\ ev.before.role # ev.after.role
\* current_dispatch: the youngest event that dispatches the card in the state
\* its snapshot sn shows (0: none).
CurrentIn(c, sn, evs) ==
  LET at == {i \in DOMAIN evs : /\ sn.c # None /\ evs[i].card = c
                                /\ evs[i].after.st = sn.c.st
                                /\ Dispatches(evs[i])} IN
  IF at = {} THEN 0 ELSE CHOOSE i \in at : \A j \in at : j <= i
Current(c) == CurrentIn(c, snap[c], events)
\* The event prepare_agent_catchup_deliveries uses: the youngest that entered
\* the state, whatever dispatched the card since.
LastEntered(c) ==
  LET at == {i \in DOMAIN events : /\ snap[c].c # None /\ events[i].card = c
                                   /\ events[i].type = "entered"
                                   /\ events[i].after.st = snap[c].c.st} IN
  IF at = {} THEN 0 ELSE CHOOSE i \in at : \A j \in at : j <= i

Registered(role) == {a \in Agent : agents[a].on /\ RoleOf[a] = role}
InsertNextEvent(i, role, rs) ==
  rs \cup {[ev |-> i + 1, agent |-> a, rev |-> agents[a].rev, st |-> "pending"] :
             a \in Registered(role)}

\* insert_delivery of event i for the agents of a role: INSERT OR IGNORE.
Insert(i, role, rs) ==
  rs \cup {[ev |-> i, agent |-> a, rev |-> agents[a].rev, st |-> "pending"] :
             a \in {b \in Registered(role) :
                      ~\E r \in rs : /\ r.ev = i /\ r.agent = b
                                     /\ r.rev = agents[b].rev}}

-----------------------------------------------------------------------------
(* Snapshots.                                                               *)

\* _task_event_types, without the types that never dispatch a card.
TypesOf(before, after) ==
  IF after = None THEN {}
  ELSE IF before = None THEN {"entered"}
  ELSE {IF before.st # after.st THEN "entered" ELSE "updated"}

\* event_key: the source revision, or the hash of a snapshot that has none.
KeyOf(after, rev) == IF rev = 0 THEN [rev |-> 0, hash |-> after]
                                ELSE [rev |-> rev, hash |-> None]
KnownInAnyState(c, key, type, after) ==
  \E i \in DOMAIN events : /\ events[i].card = c /\ events[i].key = key
                           /\ events[i].type = type
Known(c, key, type, after) ==
  \E i \in DOMAIN events : /\ events[i].card = c /\ events[i].key = key
                           /\ events[i].type = type
                           /\ events[i].after.st = after.st
\* The events that saving content `after` under revision `rev` inserts.
Made(c, after, rev) ==
  LET before == snap[c].c IN
  {[card |-> c, type |-> t, key |-> KeyOf(after, rev), before |-> before,
    after |-> after, routing |-> "pending"] :
     t \in {u \in TypesOf(before, after) :
              ~Known(c, KeyOf(after, rev), u, after)}}
Appended(s, S) == IF S = {} THEN s ELSE s \o <<CHOOSE x \in S : TRUE>>

OlderNever(rev, sn) == FALSE

\* _older_revision: never true of a live read, or after one.
Older(rev, sn) == rev # 0 /\ sn.rev # 0 /\ rev < sn.rev

\* save_task_snapshot(record_id, task, source_revision).
Saved(c, after, rev) ==
  /\ ~Older(rev, snap[c])
  /\ snap[c].c # after
SaveTaskSnapshot(c, after, rev) ==
  IF Saved(c, after, rev)
  THEN /\ events' = Appended(events, Made(c, after, rev))
       /\ snap' = [snap EXCEPT ![c] = IF after = None THEN NoSnap
                                      ELSE [c |-> after, rev |-> rev]]
  ELSE /\ events' = events
       /\ snap' = IF Older(rev, snap[c]) \/ after = None \/ rev = 0 THEN snap
                  ELSE [snap EXCEPT ![c].rev = rev]

\* prepare_task_deliveries: every pending event is decided, in one
\* transaction.  One for a role without an agent stays pending.
Superseded(i) == Dispatches(events[i]) /\ Current(events[i].card) # i
NoTarget(i) == \/ ~Dispatches(events[i])
               \/ Target(snap[events[i].card].c) = None
Routing(i) ==
  IF events[i].routing # "pending" THEN events[i].routing
  ELSE IF Superseded(i) \/ NoTarget(i) THEN "ignored"
  ELSE IF Registered(Target(snap[events[i].card].c)) = {} THEN "pending" ELSE "routed"
RoutedNow == {i \in DOMAIN events : /\ events[i].routing = "pending"
                                    /\ Routing(i) = "routed"}
PrepareTaskDeliveries ==
  /\ events' = [i \in DOMAIN events |->
                  [events[i] EXCEPT !.routing = Routing(i)]]
  /\ rows' = rows \cup
       UNION {Insert(i, Target(snap[events[i].card].c), rows) : i \in RoutedNow}
  /\ UNCHANGED <<snap, agents>>

CatchUpNever(c) == {}

\* prepare_agent_catchup_deliveries: rows for agents registered, or given
\* another session, after the card was dispatched.
CatchUp(c) == IF snap[c].c = None \/ LastEntered(c) = 0 THEN {}
              ELSE Insert(LastEntered(c), Target(snap[c].c), rows)
PrepareCatchup ==
  /\ rows' = rows \cup UNION {CatchUp(c) : c \in Card}
  /\ UNCHANGED <<snap, events, agents>>

-----------------------------------------------------------------------------
(* The board, and Lark's pushes of what happens on it.                      *)

\* Somebody writes the cards cs (a batch is one revision and one event),
\* deletes one, or changes a field of the table.  Lark uses no record id twice.
Deleted(c) == \E i \in DOMAIN log : log[i].kind = "delete" /\ c \in log[i].cards
Change(cs, kind) == /\ Len(log) < MaxRev /\ kind \in Kinds
                    /\ log' = Append(log, [cards |-> cs, kind |-> kind])
                    /\ wire' = wire \cup {Len(log) + 1}
                    /\ UNCHANGED <<inbox, store, threads, service>>
WriteCards(cs, v) == /\ cs # {} /\ \E c \in cs : board[c] # v
                     /\ \A c \in cs : ~Deleted(c)
                     /\ board' = [c \in Card |-> IF c \in cs THEN v ELSE board[c]]
                     /\ Change(cs, "edit")
DeleteCard(c) == /\ board[c] # None
                 /\ board' = [board EXCEPT ![c] = None]
                 /\ Change({c}, "delete")
ChangeField == Change(Card, "field") /\ UNCHANGED board

\* checkpoint in lark_app_worker, record_lark_event: INSERT OR IGNORE, so a
\* push that Lark repeats changes nothing.
Push(e, again) ==
  /\ e \in wire /\ stream = "on"
  /\ again => inbox[e] = "absent"
  /\ inbox' = [inbox EXCEPT ![e] = IF @ = "absent" THEN "pending" ELSE @]
  /\ wire' = IF again THEN wire ELSE wire \ {e}
  /\ UNCHANGED <<lark, store, threads, service>>
\* Lark gives up on an app that has no stream.
Lose(e) == /\ e \in wire /\ stream # "on"
           /\ wire' = wire \ {e}
           /\ UNCHANGED <<lark, inbox, store, threads, service>>

-----------------------------------------------------------------------------
(* The consumer thread: EventRuntime.process_event.                         *)

DropJob == consumer' = NoJob

\* retry_lark_event: another attempt, or failed when the event is a day old.
Retry(e) == /\ \E st \in {"retry"} \cup
                     IF "age" \in Incidents THEN {"failed"} ELSE {} :
                 inbox' = [inbox EXCEPT ![e] = st]
            /\ DropJob

\* claim_lark_event of an event taken from the queue or found due.
Claim(e) ==
  /\ up /\ ready /\ consumer.pc = "none" /\ inbox[e] \in Due
  /\ inbox' = [inbox EXCEPT ![e] = "processing"]
  /\ consumer' = [NoJob EXCEPT !.pc = "lookup", !.e = e]
  /\ UNCHANGED <<lark, wire, store, sync, worker, service>>

\* The routes are looked up under sync_lock: no sync is under way.
Lookup ==
  /\ consumer.pc = "lookup" /\ sync.pc = "none"
  /\ \/ /\ ~route
        /\ inbox' = [inbox EXCEPT ![consumer.e] = "ignored"] /\ DropJob
     \/ route /\ verifying /\ Retry(consumer.e)
     \/ /\ route /\ ~verifying
        /\ consumer' = [consumer EXCEPT !.pc = "work",
                                        !.todo = log[consumer.e].cards]
        /\ UNCHANGED inbox
  /\ UNCHANGED <<lark, wire, store, sync, worker, service>>

Kind == log[consumer.e].kind
\* process_workspace_event: a card of the event is read live, unless it was
\* deleted; a field change reads the whole table (one page of it).
ReadCard(c) ==
  /\ consumer.pc = "work" /\ consumer.read = {} /\ c \in consumer.todo
  /\ Kind = "edit" => board[c] # None
  /\ consumer' = IF Kind = "field"
                 THEN [consumer EXCEPT !.todo = {}, !.read = Card, !.got = board]
                 ELSE [consumer EXCEPT !.todo = @ \ {c}, !.read = {c},
                         !.got[c] = IF Kind = "edit" THEN board[c] ELSE None]
  /\ UNCHANGED <<lark, wire, inbox, store, sync, worker, service>>
\* The request fails, or Lark no longer has the record.
ReadFails ==
  /\ consumer.pc = "work" /\ consumer.read = {}
  /\ \E c \in consumer.todo : \/ Kind = "edit" /\ board[c] = None
                              \/ Kind # "delete" /\ "lark" \in Incidents
  /\ Retry(consumer.e)
  /\ UNCHANGED <<lark, wire, store, sync, worker, service>>
SaveCard(c) ==
  /\ consumer.pc = "work" /\ c \in consumer.read
  /\ SaveTaskSnapshot(c, consumer.got[c], Revision(consumer.e))
  /\ consumer' = [consumer EXCEPT !.read = @ \ {c}, !.got[c] = None]
  /\ UNCHANGED <<lark, wire, inbox, rows, agents, sync, worker, service>>

FinishAfterFirst ==
  /\ consumer.pc = "work" /\ consumer.read = {}
  /\ inbox' = [inbox EXCEPT ![consumer.e] = "processed"]
  /\ consumer' = [NoJob EXCEPT !.pc = "prepare"]
  /\ UNCHANGED <<lark, wire, store, sync, worker, service>>
FinishUnplanned ==
  /\ consumer.pc = "work" /\ consumer.read = {} /\ consumer.todo = {}
  /\ inbox' = [inbox EXCEPT ![consumer.e] = "processed"] /\ DropJob
  /\ UNCHANGED <<lark, wire, store, sync, worker, service>>

\* finish_lark_event; then the task events are consumed if the workspace is
\* enabled: prepare_task_deliveries and the catch-up, a transaction each.
FinishEvent ==
  /\ consumer.pc = "work" /\ consumer.read = {} /\ consumer.todo = {}
  /\ inbox' = [inbox EXCEPT ![consumer.e] = "processed"]
  /\ consumer' = [NoJob EXCEPT !.pc = "prepare"]
  /\ UNCHANGED <<lark, wire, store, sync, worker, service>>
ConsumePrepare ==
  /\ consumer.pc = "prepare"
  /\ IF enabled
     THEN PrepareTaskDeliveries /\ consumer' = [consumer EXCEPT !.pc = "catchup"]
     ELSE UNCHANGED store /\ DropJob
  /\ UNCHANGED <<lark, wire, inbox, sync, worker, service>>
ConsumeCatchup ==
  /\ consumer.pc = "catchup" /\ PrepareCatchup /\ DropJob
  /\ UNCHANGED <<lark, wire, inbox, sync, worker, service>>

-----------------------------------------------------------------------------
(* WorkspaceSynchronizer.sync, one caller at a time: sync_lock is held.     *)

ReconcilesOnEnable(by) == by = "enable"
Reconciles(by) == by \notin {"verify", "listen"}
\* The call returns.  The error of one that a user waits for is told to the
\* user, who repeats it; the startup thread sets routes_ready either way.
Returned(by) == /\ ready' = (ready \/ by = "startup")
                /\ sync' = NoSync
Failed(by) == /\ calls' = IF by \in {"agent", "enable"} THEN calls \cup {by}
                                                   ELSE calls \ {by}
              /\ ending' = IF by = "verify" THEN ending \cup {"check"} ELSE ending
              /\ Returned(by)

\* ensure_app and the subscription; a reconciliation only for a new route.
SyncBegin(by) ==
  /\ up /\ sync.pc = "none" /\ by \in calls
  /\ stream' = "on" /\ calls' = calls \ {by}
  /\ sync' = [NoSync EXCEPT !.by = by,
                !.pc = IF Reconciles(by) /\ ~route THEN "revision" ELSE "commit"]
  /\ UNCHANGED <<lark, wire, inbox, store, consumer, worker, route, verifying,
                 ending, enabled, ready, up, crashes>>
\* ensure_app cannot connect: the worker is dropped, an existing route stays.
ConnectFails(by) ==
  /\ up /\ sync.pc = "none" /\ by \in calls
  /\ "lark" \in Incidents /\ stream # "on"
  /\ stream' = "none"
  /\ Failed(by)
  /\ UNCHANGED <<lark, wire, inbox, store, consumer, worker, route, verifying,
                 enabled, up, crashes>>
\* reconcile_workspace: the table's revision first, then its records.
SyncRevision ==
  /\ sync.pc = "revision"
  /\ sync' = [sync EXCEPT !.pc = "list", !.rev = Revision(Len(log))]
  /\ UNCHANGED <<lark, wire, inbox, store, consumer, worker, service>>
SyncList ==
  /\ sync.pc = "list"
  /\ sync' = [sync EXCEPT !.pc = "save", !.read = Card, !.got = board]
  /\ UNCHANGED <<lark, wire, inbox, store, consumer, worker, service>>
SyncSave(c) ==
  /\ sync.pc = "save" /\ c \in sync.read
  /\ SaveTaskSnapshot(c, sync.got[c], sync.rev)
  /\ sync' = [sync EXCEPT !.read = @ \ {c}, !.got[c] = None]
  /\ UNCHANGED <<lark, wire, inbox, rows, agents, consumer, worker, service>>

SyncFailsStopsStream ==
  /\ "lark" \in Incidents
  /\ sync.pc \in {"revision", "list", "commit"}
  /\ stream' = "none"
  /\ Failed(sync.by)
  /\ UNCHANGED <<lark, wire, inbox, store, consumer, worker, route, verifying,
                 enabled, up, crashes>>

\* An error before the route is set: a stream without a route is stopped.
SyncFails ==
  /\ "lark" \in Incidents
  /\ sync.pc \in {"revision", "list", "commit"}
  /\ stream' = IF route THEN stream ELSE "none"
  /\ Failed(sync.by)
  /\ UNCHANGED <<lark, wire, inbox, store, consumer, worker, route, verifying,
                 enabled, up, crashes>>
\* routes[root] = context; _dispatch begins with recover_task_deliveries for a
\* workspace that had no route.
SyncCommit ==
  /\ \/ sync.pc = "commit"
     \/ sync.pc = "save" /\ sync.read = {}
  /\ route' = TRUE
  /\ sync' = [sync EXCEPT !.pc = IF route THEN "prepare" ELSE "recover"]
  /\ UNCHANGED <<lark, wire, inbox, store, consumer, worker, calls, stream,
                 verifying, ending, enabled, ready, up, crashes>>
\* Of the processing rows, those without a turn and a message are pending again.
SyncRecover ==
  /\ sync.pc = "recover"
  /\ \E unsent \in SUBSET {r \in rows : enabled /\ r.st = "processing"} :
       rows' = (rows \ unsent) \cup {[r EXCEPT !.st = "pending"] : r \in unsent}
  /\ sync' = [sync EXCEPT !.pc = "prepare"]
  /\ UNCHANGED <<lark, wire, inbox, snap, events, agents, consumer, worker, service>>
\* The rest of _dispatch, if the workspace is enabled; then the call returns to its caller: the
\* verifier marks the workspace, a listener is sent its events.
SyncPrepare ==
  /\ sync.pc = "prepare"
  /\ IF enabled THEN PrepareTaskDeliveries ELSE UNCHANGED store
  /\ sync' = [sync EXCEPT !.pc = "catchup"]
  /\ UNCHANGED <<lark, wire, inbox, consumer, worker, service>>
SyncCatchup ==
  /\ sync.pc = "catchup"
  /\ IF enabled THEN PrepareCatchup ELSE UNCHANGED store
  /\ Returned(sync.by)
  /\ verifying' = (verifying \/ sync.by = "verify")
  /\ ending' = IF sync.by = "listen" THEN ending \cup {"listening"} ELSE ending
  /\ UNCHANGED <<lark, wire, inbox, consumer, worker, calls, route, stream,
                 enabled, up, crashes>>


-----------------------------------------------------------------------------
(* The callers of sync, and what takes a route away again.                  *)

Call(by) == calls' = calls \cup {by}
\* register_agent, update_agent, unregister_agent; sync_agent_change afterwards.
Processing(a) == \E r \in rows : r.agent = a /\ r.st = "processing"
Canceled(a, revs) == {IF r.agent = a /\ r.rev \in revs /\ r.st = "pending"
                      THEN [r EXCEPT !.st = "canceled"] ELSE r : r \in rows}
AgentChanged == /\ IF up /\ enabled THEN Call("agent") ELSE UNCHANGED calls
                /\ UNCHANGED <<lark, wire, inbox, snap, events, threads, route,
                               stream, verifying, ending, enabled, ready, up,
                               crashes>>
Register(a) == /\ agents[a].rev = 0
               /\ agents' = [agents EXCEPT ![a] = [on |-> TRUE, rev |-> 1]]
               /\ UNCHANGED rows /\ AgentChanged
UpdateAgent(a) == /\ agents[a].on /\ ~Processing(a) /\ agents[a].rev < MaxAssign
                  /\ agents' = [agents EXCEPT ![a].rev = @ + 1]
                  /\ rows' = Canceled(a, {agents[a].rev}) /\ AgentChanged
Unregister(a) == /\ agents[a].on /\ ~Processing(a)
                 /\ agents' = [agents EXCEPT ![a].on = FALSE]
                 /\ rows' = Canceled(a, 1..MaxAssign) /\ AgentChanged

\* enable_workspace writes the database, and is then one of the sync calls.
Enable == /\ up /\ ~enabled /\ enabled' = TRUE /\ Call("enable")
          /\ UNCHANGED <<lark, wire, inbox, store, threads, route, stream,
                         verifying, ending, ready, up, crashes>>
\* disable_workspace writes it before it waits for sync_lock.
Disable == /\ "down" \in Incidents /\ up /\ enabled
           /\ enabled' = FALSE /\ ending' = ending \cup {"disable"}
           /\ UNCHANGED <<lark, wire, inbox, store, threads, calls, route, stream,
                          verifying, ready, up, crashes>>
\* verify of the listener, or listener_details, which syncs without a route.
AskBlind(by) ==
  /\ "blind" \in Incidents /\ up /\ by \in {"verify", "listen"}
  /\ by \notin calls /\ sync.by # by /\ ~verifying /\ "listening" \notin ending
  /\ IF by = "listen" /\ route
     THEN ending' = ending \cup {"listening"} /\ UNCHANGED calls
     ELSE Call(by) /\ UNCHANGED ending
  /\ UNCHANGED <<lark, wire, inbox, store, threads, route, stream, verifying,
                 enabled, ready, up, crashes>>
\* The probe is done, or the listener has hung up.
VerifyEnds == /\ verifying /\ sync.pc = "none"
              /\ verifying' = FALSE /\ ending' = ending \cup {"check"}
              /\ UNCHANGED <<lark, wire, inbox, store, threads, calls, route,
                             stream, enabled, ready, up, crashes>>
ListenEnds == /\ "listening" \in ending
              /\ ending' = (ending \ {"listening"}) \cup {"check"}
              /\ UNCHANGED <<lark, wire, inbox, store, threads, calls, route,
                             stream, verifying, enabled, ready, up, crashes>>
\* release_ephemeral_workspace asks whether the workspace is enabled before it
\* takes sync_lock; then, as in disable_workspace, the route is popped.
Release == /\ "check" \in ending
           /\ ending' = (ending \ {"check"}) \cup
                           IF enabled THEN {} ELSE {"release"}
           /\ UNCHANGED <<lark, wire, inbox, store, threads, calls, route, stream,
                          verifying, enabled, ready, up, crashes>>
PopRoute(who) == /\ who \in ending \cap {"release", "disable"} /\ sync.pc = "none"
                 /\ route' = FALSE /\ ending' = ending \ {who}
                 /\ stream' = IF route THEN "none" ELSE stream
                 /\ UNCHANGED <<lark, wire, inbox, store, threads, calls,
                                verifying, enabled, ready, up, crashes>>

\* The stream process stops by itself.
StreamDies == /\ "dies" \in Incidents /\ stream = "on" /\ stream' = "dead"
              /\ UNCHANGED <<lark, wire, inbox, store, threads, calls, route,
                             verifying, ending, enabled, ready, up, crashes>>
\* Everything in memory is gone; the rows and the inbox stay.
Stop == /\ up' = FALSE /\ ready' = FALSE /\ route' = FALSE /\ verifying' = FALSE
        /\ stream' = "none" /\ calls' = {} /\ ending' = {}
        /\ consumer' = NoJob /\ sync' = NoSync /\ worker' = NoWork
        /\ UNCHANGED <<lark, wire, inbox, store, enabled>>
Crash == up /\ crashes < MaxCrashes /\ crashes' = crashes + 1 /\ Stop
\* check_workers: a watched worker that is not alive is fatal for the daemon.
CheckWorkers == /\ up /\ ready /\ consumer.pc = "none" /\ sync.pc = "none"
                /\ route /\ stream = "dead"
                /\ crashes' = crashes /\ Stop
RecoverNothing == inbox

\* recover_lark_events, then the startup sync if the workspace is enabled.
Recovered == [e \in Rev |-> IF inbox[e] = "processing" THEN "retry" ELSE inbox[e]]
Restart == /\ ~up /\ up' = TRUE
           /\ inbox' = Recovered
           /\ calls' = IF enabled THEN {"startup"} ELSE {}
           /\ ready' = ~enabled
           /\ UNCHANGED <<lark, wire, store, threads, route, stream, verifying,
                          ending, enabled, crashes>>

-----------------------------------------------------------------------------
(* A delivery worker, up to its live read; TaskDelivery has the rest.       *)

CardOf(r) == events[r.ev].card
\* current_dispatch and target_role, as claim_task_deliveries asks them.
Wanted(r) == /\ Current(CardOf(r)) = r.ev
             /\ Target(snap[CardOf(r)].c) = RoleOf[r.agent]
\* UPDATE task_event_deliveries of one row, whatever its status is by now.
SetRow(r, st) == rows' = {IF <<q.ev, q.agent, q.rev>> = <<r.ev, r.agent, r.rev>>
                          THEN [q EXCEPT !.st = st] ELSE q : q \in rows}
\* claim_task_deliveries.
ClaimRow(r) ==
  /\ up /\ ready /\ route /\ enabled /\ worker.pc = "none"
  /\ r.st = "pending" /\ agents[r.agent].on
  /\ IF Wanted(r)
     THEN /\ SetRow(r, "processing")
          /\ worker' = [NoWork EXCEPT !.pc = "read",
                                      !.row = [r EXCEPT !.st = "processing"]]
     ELSE SetRow(r, "canceled") /\ UNCHANGED worker
  /\ UNCHANGED <<lark, wire, inbox, snap, events, agents, consumer, sync, service>>
LiveRead ==
  /\ worker.pc = "read" /\ board[CardOf(worker.row)] # None
  /\ worker' = [worker EXCEPT !.pc = "save", !.got = board[CardOf(worker.row)]]
  /\ UNCHANGED <<lark, wire, inbox, store, consumer, sync, service>>
\* save_task_snapshot without a revision.  New events are planned at once; an
\* event that left a state may be new when the one that entered is not.
LiveSave ==
  LET c == CardOf(worker.row)
      new == Saved(c, worker.got, 0) IN
  /\ worker.pc = "save"
  /\ SaveTaskSnapshot(c, worker.got, 0)
  /\ \E pc \in IF ~new THEN {"decide"}
               ELSE IF events' # events THEN {"prepare"}
               ELSE {"prepare", "decide"} :
       worker' = [worker EXCEPT !.pc = pc]
  /\ UNCHANGED <<lark, wire, inbox, rows, agents, consumer, sync, service>>
LivePrepare ==
  /\ worker.pc = "prepare" /\ PrepareTaskDeliveries
  /\ worker' = [worker EXCEPT !.pc = "decide"]
  /\ UNCHANGED <<lark, wire, inbox, consumer, sync, service>>
\* task_delivery_is_current asks the snapshot, the target is that of the read.
StillWanted == /\ Current(CardOf(worker.row)) = worker.row.ev
               /\ Target(worker.got) = RoleOf[worker.row.agent]
\* The prompt is delivered, or the row is canceled, or (also when the read
\* fails) the attempt is repeated later.
Decide ==
  /\ worker.pc \in {"read", "decide"}
  /\ \/ worker.pc = "decide" /\ StillWanted /\ SetRow(worker.row, "delivered")
     \/ worker.pc = "decide" /\ ~StillWanted /\ SetRow(worker.row, "canceled")
     \/ /\ worker.pc = "read" => \/ "lark" \in Incidents
                                 \/ board[CardOf(worker.row)] = None
        /\ SetRow(worker.row, "pending")
  /\ worker' = NoWork
  /\ UNCHANGED <<lark, wire, inbox, snap, events, agents, consumer, sync, service>>
\* The reconciler settles a row whose worker is gone with a crash.
ReconcileRow(r) ==
  /\ up /\ r.st = "processing" /\ worker.row # r
  /\ \E st \in {"pending", "delivered", "canceled"} :
       SetRow(r, st) /\ (st = "canceled" => ~Wanted(r))
  /\ UNCHANGED <<lark, wire, inbox, snap, events, agents, threads, service>>

-----------------------------------------------------------------------------

\* A daemon starts with an enabled workspace whose board is empty.
Init == /\ board = [c \in Card |-> None] /\ log = <<>> /\ wire = {}
        /\ inbox = [e \in Rev |-> "absent"]
        /\ snap = [c \in Card |-> NoSnap] /\ events = <<>> /\ rows = {}
        /\ agents = [a \in Agent |-> [on |-> a \in Early,
                                      rev |-> IF a \in Early THEN 1 ELSE 0]]
        /\ consumer = NoJob /\ sync = NoSync /\ worker = NoWork
        /\ calls = {"startup"} /\ route = FALSE /\ stream = "none"
        /\ verifying = FALSE /\ ending = {} /\ enabled = TRUE /\ ready = FALSE
        /\ up = TRUE /\ crashes = 0

BoardStep == \/ \E cs \in SUBSET Card, v \in Content : WriteCards(cs, v)
             \/ \E c \in Card : DeleteCard(c)
             \/ ChangeField
LarkStep == \E e \in wire : Lose(e) \/ \E again \in BOOLEAN : Push(e, again)
ConsumerWork == \/ Lookup \/ FinishEvent \/ ConsumePrepare \/ ConsumeCatchup
                \/ \E c \in Card : ReadCard(c) \/ SaveCard(c)
ConsumerStep == ConsumerWork \/ ReadFails \/ \E e \in Rev : Claim(e)
SyncWork == \/ SyncRevision \/ SyncList \/ SyncCommit \/ SyncRecover
            \/ SyncPrepare \/ SyncCatchup \/ \E c \in Card : SyncSave(c)
SyncStep == \/ SyncWork \/ SyncFails
            \/ \E by \in calls : SyncBegin(by) \/ ConnectFails(by)
AgentStep == /\ "staff" \in Incidents
             /\ \E a \in Agent : Register(a) \/ UpdateAgent(a) \/ Unregister(a)
ServiceStep == \/ Enable \/ Disable \/ VerifyEnds \/ ListenEnds \/ Release
               \/ StreamDies \/ CheckWorkers \/ Crash \/ Restart
               \/ \E who \in ending : PopRoute(who)
               \/ \E by \in Callers : AskBlind(by)
WorkerStep == /\ "live" \in Incidents
              /\ \/ LiveRead \/ LiveSave \/ LivePrepare \/ Decide
                 \/ \E r \in rows : ClaimRow(r) \/ ReconcileRow(r)
Next == \/ BoardStep \/ LarkStep \/ ConsumerStep \/ SyncStep
        \/ AgentStep \/ ServiceStep \/ WorkerStep
Spec == Init /\ [][Next]_vars

\* The threads of the daemon run, the launcher restarts it, every due event is
\* attempted again (due_lark_event_ids lists them by age), and an event that
\* keeps failing is a day old at last.
FairSpec ==
  /\ Spec
  /\ WF_vars(ConsumerWork) /\ WF_vars(SyncWork) /\ WF_vars(Restart)
  /\ SF_vars(SyncBegin("startup")) /\ WF_vars(CheckWorkers)
  /\ \A e \in Rev : /\ SF_vars(Claim(e))
                     /\ SF_vars(ReadFails /\ consumer.e = e /\ inbox'[e] = "failed")

-----------------------------------------------------------------------------
(* What holds of every state and every step.                                *)

TaskEvent == [card : Card, type : {"entered", "updated"},
              key : [rev : 0..Revision(MaxRev), hash : Content \cup {None}],
              before : Content \cup {None}, after : Content,
              routing : {"pending", "routed", "ignored"}]
RowRecord == [ev : Nat, agent : Agent, rev : 1..MaxAssign, st : RowStatus]
Shown == Content \cup {None}
\* Type invariant: every variable holds a value the code can store there, and
\* every delivery row names a task event that exists.
TypeOK ==
  /\ board \in [Card -> Shown]
  /\ log \in Seq([cards : SUBSET Card, kind : {"edit", "delete", "field"}])
  /\ Len(log) <= MaxRev
  /\ wire \subseteq 1..Len(log)
  /\ inbox \in [Rev -> InboxStatus]
  /\ snap \in [Card -> [c : Shown, rev : 0..Revision(MaxRev)]]
  /\ events \in Seq(TaskEvent)
  /\ rows \subseteq RowRecord /\ \A r \in rows : r.ev \in DOMAIN events
  /\ agents \in [Agent -> [on : BOOLEAN, rev : 0..MaxAssign]]
  /\ consumer \in [pc : {"none", "lookup", "work", "prepare", "catchup"},
                   e : 0..MaxRev, todo : SUBSET Card, read : SUBSET Card,
                   got : [Card -> Shown]]
  /\ sync \in [pc : {"none", "revision", "list", "save", "commit", "recover",
                     "prepare", "catchup"}, by : Callers \cup {"none"}, rev : 0..Revision(MaxRev),
               read : SUBSET Card, got : [Card -> Shown]]
  /\ worker \in [pc : {"none", "read", "save", "prepare", "decide"},
                 row : RowRecord \cup {None}, got : Shown]
  /\ calls \subseteq Callers
  /\ ending \subseteq {"listening", "check", "release", "disable"}
  /\ stream \in {"none", "on", "dead"}
  /\ {route, verifying, enabled, ready, up} \subseteq BOOLEAN
  /\ crashes \in 0..MaxCrashes

\* Nothing is under way between the board and the rows of a listening daemon,
\* and no event was given up.
Quiet == /\ up /\ ready /\ enabled /\ route /\ stream = "on" /\ ~verifying
         /\ calls = {} /\ sync.pc = "none" /\ consumer.pc = "none"
         /\ worker.pc = "none" /\ wire = {} /\ ending \subseteq {"listening"}
         /\ \A e \in Rev : inbox[e] \notin Due \cup {"failed"}

\* Once every event that Lark pushed has been processed or ignored, the saved
\* snapshot of each card is the card on the board: no order of pushes, crash,
\* failed request or reconciliation leaves an older read of it behind.
QuietConverges == Quiet => \A c \in Card : snap[c].c = board[c]

\* ... and every registered agent of the role that the card is dispatched to
\* has a delivery row for the event that dispatches it, under the agent's
\* present assignment, which claim_task_deliveries has not canceled.
HasRow(a, c) == \E r \in rows : /\ r.ev = Current(c) /\ r.agent = a
                                /\ r.rev = agents[a].rev /\ r.st # "canceled"
QuietDispatched ==
  Quiet => \A c \in Card : snap[c].c # None =>
             \A a \in Registered(Target(snap[c].c)) : HasRow(a, c)

\* A card whose snapshot is in a dispatching state has an event that dispatches
\* it, whatever keys the events were saved under: no card is undeliverable.
DispatchKnown ==
  \A c \in Card : snap[c].c # None /\ Dispatch[snap[c].c.st] # "none"
                  => Current(c) # 0

\* A workspace that events are routed to has a worker that listens, or one
\* that check_workers will find dead.
RouteWatched == up /\ route /\ sync.pc = "none" => stream # "none"

\* An event in the inbox is processed, ignored or given up in the end, though
\* the daemon may crash while it is processing it.
EventSettles == \A e \in Rev : inbox[e] \in Due ~> inbox[e] \in Settled

-----------------------------------------------------------------------------
(* Not kept by the code; section 9 of the README gives the instance.        *)

\* A snapshot that enters a dispatching state makes a new task event, so the
\* entry is dispatched again however often the card was in that state before.
Enters(c) == /\ snap'[c].c # None /\ Dispatch[snap'[c].c.st] # "none"
             /\ snap[c].c = None \/ snap[c].c.st # snap'[c].c.st
ReentryMakesEvent == [][\A c \in Card : Enters(c) => Len(events') > Len(events)]_vars

\* A routed stream that stopped by itself is not replaced by a running daemon:
\* the daemon exits, and the next start reads the board again.
DeathIsFatal == [][route /\ stream = "dead" /\ up' /\ route' => stream' = "dead"]_vars
=============================================================================
