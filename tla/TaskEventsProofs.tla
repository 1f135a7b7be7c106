-------------------------- MODULE TaskEventsProofs --------------------------
(***************************************************************************)
(* The tables of the event pipeline, for any board, any number of agents   *)
(* and any order of events: proofs about TaskEvents.                       *)
(*                                                                         *)
(* TypeOK holds together with four facts about work under way: the inbox   *)
(* holds only events that Lark has made, the consumer's event is one of    *)
(* them, a registered agent has an assignment revision, and a worker's row *)
(* names an event.  What a snapshot shows in a dispatching state was       *)
(* announced by an event (KnownOK), which no later save takes back.        *)
(***************************************************************************)
EXTENDS TaskEvents, TLAPS, WellFoundedInduction

\* Only an event Lark made is in the inbox.
InboxOK == \A e \in Rev : inbox[e] # "absent" => e <= Len(log)
\* The consumer works on an event that Lark made.
JobOK == consumer.pc \in {"lookup", "work"} => consumer.e \in 1..Len(log)
\* A registered agent has an assignment.
AgentOK == \A a \in Agent : agents[a].on => agents[a].rev >= 1
\* A worker works on a row of an event.
WorkOK == worker.pc # "none" => worker.row \in RowRecord /\ worker.row.ev \in DOMAIN events
\* A snapshot in a dispatching state was announced by an event.
Announces(ev, c, st) == ev.card = c /\ ev.after.st = st /\ Dispatches(ev)
KnownOK == \A c \in Card : snap[c].c # None /\ Dispatch[snap[c].c.st] # "none"
                           => \E i \in DOMAIN events : Announces(events[i], c, snap[c].c.st)

IInv == TypeOK /\ InboxOK /\ JobOK /\ AgentOK /\ WorkOK /\ KnownOK

-----------------------------------------------------------------------------
(* The operators.                                                           *)

\* A set of numbers up to n that is not empty has a greatest element.
LEMMA Greatest ==
  ASSUME NEW n \in Nat, NEW S, S \subseteq 1..n, S # {}
  PROVE  \E i \in S : \A j \in S : j <= i
<1> DEFINE T == {n - i : i \in S}
           R == {r \in Nat \X Nat : r[1] < r[2]}
<1>1. \A i \in S : i \in Nat /\ n - i \in Nat
  OBVIOUS
<1>2. T \subseteq Nat /\ T # {}
  BY <1>1
<1>3. OpToRel(<, Nat) = R
  BY DEF OpToRel
<1>w. IsWellFoundedOn(R, Nat)
  BY <1>3, NatLessThanWellFounded, Zenon
<1>4. PICK x \in T : \A y \in T : ~ (<<y, x>> \in R)
  <2> HIDE DEF T, R
  <2> QED BY <1>2, <1>w, WFMin, Zenon
<1>5. x \in Nat /\ \A y \in T : y \in Nat /\ ~(y < x)
  BY <1>2, <1>4
<1>6. PICK i \in S : x = n - i
  BY <1>4
<1>7. \A j \in S : j \in Nat /\ i \in Nat /\ ~(n - j < n - i)
  BY <1>1, <1>5, <1>6
<1>8. \A j \in S : j <= i
  BY <1>7
<1>9. QED
  BY <1>8

\* The youngest of some events is one of them, and the only youngest.
LEMMA Youngest ==
  ASSUME NEW n \in Nat, NEW S, S \subseteq 1..n, S # {}
  PROVE  LET y == CHOOSE i \in S : \A j \in S : j <= i IN
         y \in S /\ \A j \in S : j <= y
BY Greatest

\* save_task_snapshot: the snapshot it writes is one, and it adds at most one
\* event, which announces what the snapshot shows.
LEMMA SaveEffect ==
  ASSUME TypeOK, NEW c \in Card, NEW after \in Shown, NEW rev \in 0..Revision(MaxRev),
         SaveTaskSnapshot(c, after, rev)
  PROVE  /\ snap' \in [Card -> [c : Shown, rev : 0..Revision(MaxRev)]]
         /\ \A d \in Card : d # c => snap'[d] = snap[d]
         /\ events' \in Seq(TaskEvent)
         /\ Len(events') \in Nat /\ Len(events) \in Nat /\ Len(events') >= Len(events)
         /\ \A i \in 1..Len(events) : events'[i] = events[i]
<1>1. /\ events \in Seq(TaskEvent) /\ Len(events) \in Nat
      /\ snap[c] \in [c : Shown, rev : 0..Revision(MaxRev)]
      /\ Revision(MaxRev) \in Nat /\ 0 \in 0..Revision(MaxRev)
  BY EventsAssumption DEF TypeOK, Revision
<1>2. CASE Saved(c, after, rev)
  <2>1. snap' \in [Card -> [c : Shown, rev : 0..Revision(MaxRev)]]
    <3> DEFINE x == IF after = None THEN NoSnap ELSE [c |-> after, rev |-> rev]
    <3>1. x \in [c : Shown, rev : 0..Revision(MaxRev)]
      BY <1>1 DEF NoSnap, Shown
    <3>2. snap' = [snap EXCEPT ![c] = x]
      BY <1>2 DEF SaveTaskSnapshot
    <3> HIDE DEF x
    <3>3. QED
      BY <3>1, <3>2 DEF TypeOK
  <2>2. \A d \in Card : d # c => snap'[d] = snap[d]
    BY <1>2 DEF SaveTaskSnapshot, TypeOK
  <2>3. Made(c, after, rev) \subseteq TaskEvent
    <3> SUFFICES ASSUME NEW t \in TypesOf(snap[c].c, after)
                 PROVE  [card |-> c, type |-> t, key |-> KeyOf(after, rev),
                         before |-> snap[c].c, after |-> after,
                         routing |-> "pending"] \in TaskEvent
      BY DEF Made
    <3>1. t \in {"entered", "updated"} /\ after \in Content
      BY DEF TypesOf, Shown
    <3>2. KeyOf(after, rev) \in [rev : 0..Revision(MaxRev), hash : Content \cup {None}]
      BY <1>1, <3>1 DEF KeyOf
    <3>3. QED
      BY <1>1, <3>1, <3>2 DEF TaskEvent, Shown
  <2>4. CASE Made(c, after, rev) = {}
    BY <1>1, <1>2, <2>1, <2>2, <2>4 DEF SaveTaskSnapshot, Appended
  <2>5. CASE Made(c, after, rev) # {}
    <3>1. PICK x \in TaskEvent : events' = events \o <<x>>
      BY <1>2, <2>3, <2>5 DEF SaveTaskSnapshot, Appended
    <3>2. QED
      BY <1>1, <2>1, <2>2, <3>1
  <2>6. QED
    BY <2>4, <2>5
<1>3. CASE ~Saved(c, after, rev)
  <2>1. snap' \in [Card -> [c : Shown, rev : 0..Revision(MaxRev)]]
    <3>1. CASE snap' = snap
      BY <3>1 DEF TypeOK
    <3>2. CASE snap' = [snap EXCEPT ![c].rev = rev]
      BY <1>1, <3>2 DEF TypeOK
    <3>3. QED
      BY <1>3, <3>1, <3>2 DEF SaveTaskSnapshot
  <2>2. QED
    BY <1>1, <1>3, <2>1 DEF SaveTaskSnapshot, TypeOK
<1>4. QED
  BY <1>2, <1>3

\* A save keeps every announcement, and makes the one its snapshot needs.
LEMMA SaveKnown ==
  ASSUME TypeOK, KnownOK, NEW c \in Card, NEW after \in Shown,
         NEW rev \in 0..Revision(MaxRev), SaveTaskSnapshot(c, after, rev)
  PROVE  KnownOK'
<1>1. /\ events \in Seq(TaskEvent) /\ Len(events) \in Nat /\ DOMAIN events = 1..Len(events)
      /\ events' \in Seq(TaskEvent) /\ DOMAIN events' = 1..Len(events')
      /\ Len(events') \in Nat /\ Len(events') >= Len(events)
      /\ \A i \in 1..Len(events) : events'[i] = events[i]
  BY SaveEffect DEF TypeOK
<1>2. \A i \in DOMAIN events : i \in DOMAIN events' /\ events'[i] = events[i]
  BY <1>1
<1> SUFFICES ASSUME NEW d \in Card, snap'[d].c # None, Dispatch[snap'[d].c.st] # "none"
             PROVE  \E i \in DOMAIN events' : Announces(events'[i], d, snap'[d].c.st)
  BY DEF KnownOK
<1>3. CASE snap[d].c # None /\ snap'[d].c.st = snap[d].c.st
  BY <1>2, <1>3 DEF KnownOK
<1>4. CASE snap[d].c = None \/ snap'[d].c.st # snap[d].c.st
  <2>1. d = c
    BY <1>4, SaveEffect
  <2>2. Saved(c, after, rev) /\ after # None /\ snap'[c].c = after
    <3>1. CASE Saved(c, after, rev)
      <4>1. snap'[c] = IF after = None THEN NoSnap ELSE [c |-> after, rev |-> rev]
        BY <3>1 DEF SaveTaskSnapshot, TypeOK
      <4>2. QED
        BY <2>1, <3>1, <4>1 DEF NoSnap
    <3>2. CASE ~Saved(c, after, rev)
      <4>1. snap'[c].c = snap[c].c
        BY <3>2 DEF SaveTaskSnapshot, TypeOK
      <4>2. QED
        BY <1>4, <2>1, <4>1
    <3>3. QED
      BY <3>1, <3>2
  <2>3. TypesOf(snap[c].c, after) = {"entered"}
    BY <1>4, <2>1, <2>2 DEF TypesOf
  <2>4. CASE Known(c, KeyOf(after, rev), "entered", after)
    <3>1. PICK i \in DOMAIN events : /\ events[i].card = c /\ events[i].type = "entered"
                                     /\ events[i].after.st = after.st
      BY <2>4 DEF Known
    <3>2. Announces(events[i], c, after.st)
      BY <2>1, <2>2, <3>1 DEF Announces, Dispatches
    <3>3. QED
      BY <1>2, <2>1, <2>2, <3>2
  <2>5. CASE ~Known(c, KeyOf(after, rev), "entered", after)
    <3> DEFINE x == [card |-> c, type |-> "entered", key |-> KeyOf(after, rev),
                     before |-> snap[c].c, after |-> after, routing |-> "pending"]
    <3>1. Made(c, after, rev) = {x}
      BY <2>3, <2>5 DEF Made
    <3>2. events' = events \o <<x>>
      BY <2>2, <3>1 DEF SaveTaskSnapshot, Appended
    <3>3. Len(events') = Len(events) + 1 /\ events'[Len(events) + 1] = x
      BY <1>1, <3>2
    <3>4. Announces(events'[Len(events) + 1], c, after.st)
      BY <2>1, <2>2, <3>3 DEF Announces, Dispatches
    <3>5. QED
      BY <1>1, <2>1, <2>2, <3>3, <3>4
  <2>6. QED
    BY <2>4, <2>5
<1>5. QED
  BY <1>3, <1>4

\* What insert_delivery adds are rows of that event for registered agents.
LEMMA InsertTyped ==
  ASSUME TypeOK, AgentOK, NEW i \in DOMAIN events, NEW role
  PROVE  \A r \in Insert(i, role, rows) : r \in RowRecord /\ r.ev \in DOMAIN events
<1>1. DOMAIN events \subseteq Nat /\ rows \subseteq RowRecord
      /\ \A r \in rows : r.ev \in DOMAIN events
  BY DEF TypeOK
<1>2. \A a \in Registered(role) : a \in Agent /\ agents[a].rev \in 1..MaxAssign
  BY EventsAssumption DEF Registered, TypeOK, AgentOK
<1>3. \A a \in Registered(role) :
        [ev |-> i, agent |-> a, rev |-> agents[a].rev, st |-> "pending"] \in RowRecord
  BY <1>1, <1>2 DEF RowRecord, RowStatus
<1>4. QED
  BY <1>1, <1>3 DEF Insert

\* prepare_task_deliveries decides events, and makes no other change to them;
\* its rows are rows of events.
LEMMA PrepareEffect ==
  ASSUME TypeOK, AgentOK, KnownOK, PrepareTaskDeliveries
  PROVE  /\ events' \in Seq(TaskEvent) /\ DOMAIN events' = DOMAIN events
         /\ Len(events') = Len(events)
         /\ \A i \in DOMAIN events :
              events'[i] = [events[i] EXCEPT !.routing = events'[i].routing]
         /\ rows' \subseteq RowRecord /\ \A r \in rows' : r.ev \in DOMAIN events'
         /\ KnownOK'
<1>1. events \in Seq(TaskEvent) /\ DOMAIN events = 1..Len(events) /\ Len(events) \in Nat
  BY DEF TypeOK
<1>2. events' = [i \in 1..Len(events) |-> [events[i] EXCEPT !.routing = Routing(i)]]
  BY <1>1 DEF PrepareTaskDeliveries
<1>3. \A i \in 1..Len(events) :
        /\ events[i] \in TaskEvent /\ Routing(i) \in {"pending", "routed", "ignored"}
        /\ [events[i] EXCEPT !.routing = Routing(i)] \in TaskEvent
  <2> TAKE i \in 1..Len(events)
  <2>1. events[i] \in TaskEvent
    BY <1>1
  <2>2. events[i].routing \in {"pending", "routed", "ignored"}
    BY <2>1 DEF TaskEvent
  <2>3. Routing(i) \in {"pending", "routed", "ignored"}
    BY <2>2 DEF Routing
  <2>4. \A x \in {"pending", "routed", "ignored"} :
          [events[i] EXCEPT !.routing = x] \in TaskEvent
    BY <2>1 DEF TaskEvent
  <2>5. QED
    BY <2>1, <2>3, <2>4
<1>4. /\ events' \in Seq(TaskEvent) /\ DOMAIN events' = DOMAIN events
      /\ Len(events') = Len(events)
  <2>1. events' \in [1..Len(events) -> TaskEvent]
    BY <1>2, <1>3
  <2>2. QED
    BY <1>1, <2>1
<1>5. \A i \in DOMAIN events : events'[i] = [events[i] EXCEPT !.routing = Routing(i)]
  BY <1>1, <1>2
<1>6. \A i \in DOMAIN events : /\ events'[i].card = events[i].card
                               /\ events'[i].type = events[i].type
                               /\ events'[i].before = events[i].before
                               /\ events'[i].after = events[i].after
                               /\ events'[i].routing = Routing(i)
  BY <1>1, <1>3, <1>5 DEF TaskEvent
<1>7. \A r \in rows' : r \in RowRecord /\ r.ev \in DOMAIN events
  <2>1. \A i \in RoutedNow : i \in DOMAIN events
    BY DEF RoutedNow
  <2>2. \A i \in RoutedNow : \A r \in Insert(i, Target(snap[events[i].card].c), rows) :
          r \in RowRecord /\ r.ev \in DOMAIN events
    BY <2>1, InsertTyped
  <2>3. \A r \in rows : r \in RowRecord /\ r.ev \in DOMAIN events
    BY DEF TypeOK
  <2>4. rows' = rows \cup
       UNION {Insert(i, Target(snap[events[i].card].c), rows) : i \in RoutedNow}
    BY DEF PrepareTaskDeliveries
  <2>5. QED
    BY <2>2, <2>3, <2>4
<1>8. KnownOK'
  <2> SUFFICES ASSUME NEW c \in Card, snap'[c].c # None, Dispatch[snap'[c].c.st] # "none"
               PROVE  \E i \in DOMAIN events' : Announces(events'[i], c, snap'[c].c.st)
    BY DEF KnownOK
  <2>1. snap' = snap
    BY DEF PrepareTaskDeliveries
  <2>2. PICK i \in DOMAIN events : Announces(events[i], c, snap[c].c.st)
    BY <2>1 DEF KnownOK
  <2>3. Announces(events'[i], c, snap[c].c.st)
    BY <1>6, <2>2 DEF Announces, Dispatches
  <2>4. QED
    BY <1>4, <2>1, <2>3
<1>9. QED
  BY <1>4, <1>5, <1>6, <1>7, <1>8

\* The rows of a catch-up are rows of events.
LEMMA CatchupEffect ==
  ASSUME TypeOK, AgentOK, PrepareCatchup
  PROVE  rows' \subseteq RowRecord /\ \A r \in rows' : r.ev \in DOMAIN events
<1>1. \A c \in Card : LastEntered(c) # 0 => LastEntered(c) \in DOMAIN events
  <2> TAKE c \in Card
  <2> DEFINE at == {i \in DOMAIN events : /\ snap[c].c # None /\ events[i].card = c
                                          /\ events[i].type = "entered"
                                          /\ events[i].after.st = snap[c].c.st}
  <2>1. Len(events) \in Nat /\ at \subseteq 1..Len(events) /\ DOMAIN events = 1..Len(events)
    BY DEF TypeOK
  <2>2. LastEntered(c) = IF at = {} THEN 0 ELSE CHOOSE i \in at : \A j \in at : j <= i
    BY DEF LastEntered
  <2> HIDE DEF at
  <2>3. at # {} => LastEntered(c) \in at
    BY <2>1, <2>2, Youngest
  <2>4. QED
    BY <2>1, <2>2, <2>3
<1>2. \A c \in Card : \A r \in CatchUp(c) : r \in RowRecord /\ r.ev \in DOMAIN events
  BY <1>1, InsertTyped DEF CatchUp
<1>3. \A r \in rows : r \in RowRecord /\ r.ev \in DOMAIN events
  BY DEF TypeOK
<1>4. QED
  BY <1>2, <1>3 DEF PrepareCatchup

-----------------------------------------------------------------------------
(* The steps.                                                               *)

\* A step that leaves the database, the worker and the log alone keeps what is
\* said of them.
LEMMA Untouched ==
  ASSUME IInv, UNCHANGED <<store, worker>>
  PROVE  AgentOK' /\ WorkOK' /\ KnownOK'
BY DEF IInv, store, AgentOK, WorkOK, KnownOK

\* Somebody changes the board.
LEMMA BoardInductive ==
  ASSUME IInv, BoardStep
  PROVE  IInv'
<1>1. \E kind \in Kinds, cs \in SUBSET Card : Change(cs, kind)
  <2>1. \A kind, cs : Change(cs, kind) => kind \in Kinds
    BY DEF Change
  <2>2. \A c \in Card : {c} \in SUBSET Card
    OBVIOUS
  <2>3. Card \in SUBSET Card
    OBVIOUS
  <2>4. QED
    BY <2>1, <2>2, <2>3 DEF BoardStep, WriteCards, DeleteCard, ChangeField
<1>2. PICK kind \in Kinds, cs \in SUBSET Card : Change(cs, kind)
  BY <1>1
<1>3. board' \in [Card -> Shown]
  BY DEF BoardStep, WriteCards, DeleteCard, ChangeField, IInv, TypeOK, Shown
<1>4. /\ log' = Append(log, [cards |-> cs, kind |-> kind]) /\ Len(log) < MaxRev
      /\ kind \in {"edit", "delete", "field"}
      /\ wire' = wire \cup {Len(log) + 1}
      /\ UNCHANGED <<inbox, store, threads, service>>
  BY <1>2, EventsAssumption DEF Change
<1>5. /\ log' \in Seq([cards : SUBSET Card, kind : {"edit", "delete", "field"}])
      /\ Len(log') = Len(log) + 1 /\ Len(log) \in Nat
  BY <1>4 DEF IInv, TypeOK
<1>6. Len(log') <= MaxRev /\ wire' \subseteq 1..Len(log')
  BY <1>4, <1>5, EventsAssumption DEF IInv, TypeOK
<1>7. TypeOK'
  BY <1>3, <1>4, <1>5, <1>6 DEF IInv, TypeOK, store, threads, service
<1>8. InboxOK' /\ JobOK'
  BY <1>4, <1>5, EventsAssumption DEF IInv, InboxOK, JobOK, threads, Rev, TypeOK
<1>9. AgentOK' /\ WorkOK' /\ KnownOK'
  BY <1>4, Untouched DEF threads
<1>10. QED
  BY <1>7, <1>8, <1>9 DEF IInv

\* Lark pushes an event, or gives one up.
LEMMA LarkInductive ==
  ASSUME IInv, LarkStep
  PROVE  IInv'
<1>1. PICK e \in wire : Lose(e) \/ \E again \in BOOLEAN : Push(e, again)
  BY DEF LarkStep
<1>2. e \in Rev /\ e <= Len(log)
  BY EventsAssumption DEF IInv, TypeOK, Rev
<1>3. UNCHANGED <<lark, store, threads, service>> /\ wire' \subseteq wire
  BY <1>1 DEF Lose, Push
<1>4. /\ inbox' \in [Rev -> InboxStatus]
      /\ \A x \in Rev : inbox'[x] # inbox[x] => x = e
  <2>1. CASE UNCHANGED inbox
    BY <2>1 DEF IInv, TypeOK
  <2>2. CASE \E again \in BOOLEAN : Push(e, again)
    BY <1>2, <2>2 DEF Push, IInv, TypeOK, InboxStatus
  <2>3. QED
    BY <1>1, <2>1, <2>2 DEF Lose
<1>5. TypeOK'
  BY <1>3, <1>4 DEF IInv, TypeOK, lark, store, threads, service
<1>6. InboxOK' /\ JobOK'
  BY <1>2, <1>3, <1>4 DEF IInv, InboxOK, JobOK, lark, threads
<1>7. QED
  BY <1>3, <1>5, <1>6, Untouched DEF IInv, threads

\* The idle consumer.
LEMMA JobTyped ==
  /\ NoJob \in [pc : {"none", "lookup", "work", "prepare", "catchup"},
                e : 0..MaxRev, todo : SUBSET Card, read : SUBSET Card,
                got : [Card -> Shown]]
  /\ NoSync \in [pc : {"none", "revision", "list", "save", "commit", "recover",
                       "prepare", "catchup"}, by : Callers \cup {"none"},
                 rev : 0..Revision(MaxRev), read : SUBSET Card, got : [Card -> Shown]]
  /\ NoWork \in [pc : {"none", "read", "save", "prepare", "decide"},
                 row : RowRecord \cup {None}, got : Shown]
  /\ NoJob.pc = "none" /\ NoSync.pc = "none" /\ NoWork.pc = "none"
BY EventsAssumption DEF NoJob, NoSync, NoWork, NoRead, Shown, Revision

JobType == [pc : {"none", "lookup", "work", "prepare", "catchup"},
            e : 0..MaxRev, todo : SUBSET Card, read : SUBSET Card,
            got : [Card -> Shown]]

\* The consumer claims, looks up, reads, fails or finishes: no table but the
\* inbox changes.
LEMMA ConsumerInbox ==
  ASSUME IInv, \/ \E e \in Rev : Claim(e)
               \/ Lookup \/ ReadFails \/ FinishEvent
               \/ \E c \in Card : ReadCard(c)
  PROVE  IInv'
<1>1. UNCHANGED <<lark, wire, store, sync, worker, service>>
  BY DEF Claim, Lookup, ReadFails, FinishEvent, ReadCard
<1>2. /\ consumer \in JobType /\ NoJob \in JobType /\ NoJob.pc = "none"
      /\ Len(log) \in Nat /\ inbox \in [Rev -> InboxStatus]
      /\ \A e \in Rev : e \in 0..MaxRev
      /\ \A e \in 1..Len(log) : e \in Rev /\ log[e].cards \in SUBSET Card
  <2>1. Len(log) \in Nat /\ MaxRev \in Nat /\ Len(log) <= MaxRev
        /\ log \in Seq([cards : SUBSET Card, kind : {"edit", "delete", "field"}])
        /\ inbox \in [Rev -> InboxStatus] /\ consumer \in JobType
    BY EventsAssumption DEF IInv, TypeOK, JobType
  <2>2. NoJob \in JobType /\ NoJob.pc = "none"
    BY JobTyped DEF JobType
  <2>3. \A e \in 1..Len(log) : e \in Rev
    BY <2>1 DEF Rev
  <2>4. \A e \in 1..Len(log) : log[e] \in [cards : SUBSET Card, kind : {"edit", "delete", "field"}]
    <3> DEFINE T == [cards : SUBSET Card, kind : {"edit", "delete", "field"}]
    <3>1. log \in Seq(T)
      BY <2>1
    <3> HIDE DEF T
    <3>2. \A e \in 1..Len(log) : log[e] \in T
      BY <3>1
    <3>3. QED
      BY <3>2 DEF T
  <2>5. \A e \in Rev : e \in 0..MaxRev
    BY <2>1 DEF Rev
  <2>6. QED
    BY <2>1, <2>2, <2>3, <2>4, <2>5
<1>3. /\ consumer' \in JobType /\ inbox' \in [Rev -> InboxStatus]
      /\ consumer'.pc \in {"lookup", "work"} => consumer'.e \in 1..Len(log)
      /\ \A e \in Rev : inbox'[e] # "absent" => e <= Len(log)
  <2>1. ASSUME NEW e \in Rev, Claim(e)
        PROVE  <1>3
    <3>1. consumer' = [NoJob EXCEPT !.pc = "lookup", !.e = e] /\ inbox[e] # "absent"
          /\ inbox' = [inbox EXCEPT ![e] = "processing"]
      BY <2>1 DEF Claim, Due
    <3>2. e \in 1..Len(log)
      BY <1>2, <3>1 DEF IInv, InboxOK, Rev
    <3>3. QED
      BY <1>2, <3>1, <3>2 DEF JobType, InboxStatus, IInv, InboxOK
  <2>2. ASSUME NEW st \in {"retry", "failed", "ignored", "processed"},
               consumer.pc \in {"lookup", "work"},
               inbox' = [inbox EXCEPT ![consumer.e] = st],
               consumer' = NoJob \/ consumer' = [NoJob EXCEPT !.pc = "prepare"]
        PROVE  <1>3
    <3>0. consumer.e \in 1..Len(log)
      BY <2>2 DEF IInv, JobOK
    <3>1. consumer.e \in 1..Len(log) /\ consumer.e \in Rev
      BY <1>2, <3>0
    <3>2. inbox' \in [Rev -> InboxStatus] /\ consumer' \in JobType
          /\ consumer'.pc \in {"none", "prepare"}
      BY <1>2, <2>2, <3>1 DEF JobType, InboxStatus
    <3>3. \A e \in Rev : inbox'[e] # "absent" => e <= Len(log)
      BY <1>2, <2>2, <3>1 DEF IInv, InboxOK
    <3>4. QED
      BY <3>2, <3>3
  <2>3. ASSUME Retry(consumer.e), consumer.pc \in {"lookup", "work"}
        PROVE  <1>3
    BY <2>2, <2>3 DEF Retry, DropJob
  <2>4. CASE Lookup
    <3>1. CASE UNCHANGED inbox
      <4>1. \/ consumer' = [consumer EXCEPT !.pc = "work", !.todo = log[consumer.e].cards]
            \/ consumer' = NoJob
        BY <2>4, <3>1 DEF Lookup, Retry, DropJob
      <4>2. consumer.pc = "lookup" /\ consumer.e \in 1..Len(log)
        BY <2>4 DEF Lookup, IInv, JobOK
      <4>3. consumer' \in JobType
        <5> DEFINE cs == log[consumer.e].cards
        <5>1. cs \in SUBSET Card
          BY <1>2, <4>2
        <5>2. \/ consumer' = [consumer EXCEPT !.pc = "work", !.todo = cs]
              \/ consumer' = NoJob
          BY <4>1
        <5> HIDE DEF cs
        <5>3. QED
          BY <1>2, <5>1, <5>2 DEF JobType
      <4>4. consumer'.pc \in {"lookup", "work"} => consumer'.e \in 1..Len(log)
        BY <1>2, <4>1, <4>2 DEF JobType
      <4>5. QED
        BY <1>2, <3>1, <4>3, <4>4 DEF IInv, InboxOK
    <3>2. CASE ~ UNCHANGED inbox
      BY <2>2, <2>3, <2>4, <3>2 DEF Lookup, DropJob
    <3>3. QED
      BY <3>1, <3>2
  <2>5. CASE ReadFails
    BY <2>3, <2>5 DEF ReadFails
  <2>6. CASE FinishEvent
    BY <2>2, <2>6 DEF FinishEvent
  <2>7. ASSUME NEW c \in Card, ReadCard(c)
        PROVE  <1>3
    <3>1. consumer.pc = "work" /\ consumer.e \in 1..Len(log) /\ UNCHANGED inbox
          /\ board \in [Card -> Shown] /\ None \in Shown
      BY <2>7 DEF ReadCard, IInv, JobOK, TypeOK, Shown
    <3>2. \E todo, read \in SUBSET Card, got \in [Card -> Shown] :
            consumer' = [consumer EXCEPT !.todo = todo, !.read = read, !.got = got]
      <4>1. CASE Kind = "field"
        BY <2>7, <3>1, <4>1 DEF ReadCard
      <4>2. CASE Kind # "field"
        <5> DEFINE x == IF Kind = "edit" THEN board[c] ELSE None
                   got == [consumer.got EXCEPT ![c] = x]
        <5>1. x \in Shown
          BY <3>1
        <5> HIDE DEF x
        <5>2. got \in [Card -> Shown] /\ consumer.todo \ {c} \in SUBSET Card
          BY <1>2, <5>1 DEF JobType
        <5>3. consumer' = [consumer EXCEPT !.todo = consumer.todo \ {c}, !.read = {c}, !.got = got]
          BY <1>2, <2>7, <4>2 DEF ReadCard, JobType, x
        <5> HIDE DEF got
        <5>4. QED
          BY <5>2, <5>3
      <4>3. QED
        BY <4>1, <4>2
    <3>3. QED
      BY <1>2, <3>1, <3>2 DEF JobType, IInv, InboxOK
  <2>8. QED
    BY <2>1, <2>4, <2>5, <2>6, <2>7
<1>4. TypeOK'
  BY <1>1, <1>3 DEF IInv, TypeOK, JobType, lark, store, service
<1>5. InboxOK' /\ JobOK'
  BY <1>1, <1>3 DEF InboxOK, JobOK, lark
<1>6. QED
  BY <1>1, <1>4, <1>5, Untouched DEF IInv

\* The workspace database: its share of TypeOK and what is said of it alone.
StoreOK ==
  /\ snap \in [Card -> [c : Shown, rev : 0..Revision(MaxRev)]]
  /\ events \in Seq(TaskEvent)
  /\ rows \subseteq RowRecord /\ \A r \in rows : r.ev \in DOMAIN events
  /\ agents \in [Agent -> [on : BOOLEAN, rev : 0..MaxAssign]]
  /\ AgentOK /\ KnownOK

\* The transactions on it keep it so, and no event is taken away.
LEMMA SaveStore ==
  ASSUME IInv, NEW c \in Card, NEW after \in Shown, NEW rev \in 0..Revision(MaxRev),
         SaveTaskSnapshot(c, after, rev), UNCHANGED <<rows, agents>>
  PROVE  StoreOK' /\ \A i \in DOMAIN events : i \in DOMAIN events'
<1>1. /\ snap' \in [Card -> [c : Shown, rev : 0..Revision(MaxRev)]]
      /\ events' \in Seq(TaskEvent) /\ KnownOK'
      /\ Len(events') \in Nat /\ Len(events) \in Nat /\ Len(events') >= Len(events)
  BY SaveEffect, SaveKnown DEF IInv
<1>2. \A i \in DOMAIN events : i \in DOMAIN events'
  BY <1>1 DEF IInv, TypeOK
<1>3. QED
  BY <1>1, <1>2 DEF StoreOK, AgentOK, IInv, TypeOK

\* prepare_task_deliveries keeps the database as it should be and its events.
LEMMA PrepareStore ==
  ASSUME IInv, PrepareTaskDeliveries
  PROVE  StoreOK' /\ \A i \in DOMAIN events : i \in DOMAIN events'
<1>1. UNCHANGED <<snap, agents>>
  BY DEF PrepareTaskDeliveries
<1>2. QED
  BY <1>1, PrepareEffect DEF StoreOK, AgentOK, IInv, TypeOK

\* So does prepare_agent_catchup_deliveries,
LEMMA CatchupStore ==
  ASSUME IInv, PrepareCatchup
  PROVE  StoreOK' /\ \A i \in DOMAIN events : i \in DOMAIN events'
<1>1. UNCHANGED <<snap, events, agents>>
  BY DEF PrepareCatchup
<1>2. QED
  BY <1>1, CatchupEffect DEF StoreOK, AgentOK, KnownOK, IInv, TypeOK

\* and a step that writes nothing to the database.
LEMMA SameStore ==
  ASSUME IInv, UNCHANGED store
  PROVE  StoreOK' /\ \A i \in DOMAIN events : i \in DOMAIN events'
BY DEF store, StoreOK, AgentOK, KnownOK, IInv, TypeOK

\* The consumer saves a card, or plans deliveries.
LEMMA ConsumerStore ==
  ASSUME IInv, ConsumePrepare \/ ConsumeCatchup \/ \E c \in Card : SaveCard(c)
  PROVE  IInv'
<1>1. UNCHANGED <<lark, wire, inbox, sync, worker, service>>
  BY DEF ConsumePrepare, ConsumeCatchup, SaveCard
<1>2. consumer \in JobType /\ NoJob \in JobType /\ NoJob.pc = "none"
  BY JobTyped DEF IInv, TypeOK, JobType
<1>3. /\ StoreOK' /\ \A i \in DOMAIN events : i \in DOMAIN events'
      /\ consumer' \in JobType
      /\ consumer'.pc \in {"lookup", "work"} => consumer'.e \in 1..Len(log)
  <2>1. CASE ConsumePrepare
    <3>1. PrepareTaskDeliveries \/ UNCHANGED store
      BY <2>1 DEF ConsumePrepare
    <3>2. consumer' \in JobType /\ consumer'.pc \in {"none", "catchup"}
      BY <1>2, <2>1 DEF ConsumePrepare, DropJob, JobType
    <3>3. StoreOK' /\ \A i \in DOMAIN events : i \in DOMAIN events'
      BY <3>1, PrepareStore, SameStore
    <3>4. QED
      BY <3>2, <3>3
  <2>2. CASE ConsumeCatchup
    BY <1>2, <2>2, CatchupStore DEF ConsumeCatchup, DropJob
  <2>3. ASSUME NEW c \in Card, SaveCard(c)
        PROVE  <1>3
    <3>1. /\ consumer.pc = "work" /\ consumer.e \in 1..Len(log)
          /\ consumer.got[c] \in Shown /\ None \in Shown
      BY <1>2, <2>3 DEF SaveCard, IInv, JobOK, JobType, Shown
    <3>2. Revision(consumer.e) \in 0..Revision(MaxRev)
      BY <3>1, EventsAssumption DEF Revision, IInv, TypeOK
    <3>3. StoreOK' /\ \A i \in DOMAIN events : i \in DOMAIN events'
      BY <2>3, <3>1, <3>2, SaveStore DEF SaveCard
    <3>4. consumer' = [consumer EXCEPT !.read = @ \ {c}, !.got[c] = None]
      BY <2>3 DEF SaveCard
    <3>5. consumer' \in JobType /\ consumer'.e = consumer.e
      BY <1>2, <3>1, <3>4 DEF JobType
    <3>6. QED
      BY <3>1, <3>3, <3>5
  <2>4. QED
    BY <2>1, <2>2, <2>3
<1>4. TypeOK'
  BY <1>1, <1>3 DEF StoreOK, IInv, TypeOK, JobType, lark, service
<1>5. InboxOK' /\ JobOK' /\ WorkOK'
  BY <1>1, <1>3 DEF InboxOK, JobOK, WorkOK, IInv, lark
<1>6. QED
  BY <1>3, <1>4, <1>5 DEF IInv, StoreOK

SyncType == [pc : {"none", "revision", "list", "save", "commit", "recover",
                   "prepare", "catchup"}, by : Callers \cup {"none"},
             rev : 0..Revision(MaxRev), read : SUBSET Card, got : [Card -> Shown]]

\* The synchronizer.
LEMMA SyncInductive ==
  ASSUME IInv, SyncStep
  PROVE  IInv'
<1>1. UNCHANGED <<lark, wire, inbox, consumer, worker, enabled, up, crashes>>
  BY DEF SyncStep, SyncWork, SyncRevision, SyncList, SyncCommit, SyncRecover,
         SyncPrepare, SyncCatchup, SyncSave, SyncFails, SyncBegin, ConnectFails, service
<1>2. /\ sync \in SyncType /\ NoSync \in SyncType /\ NoSync.pc = "none"
      /\ {route, verifying, ready} \subseteq BOOLEAN /\ calls \subseteq Callers
      /\ ending \subseteq {"listening", "check", "release", "disable"}
      /\ stream \in {"none", "on", "dead"}
  BY JobTyped DEF IInv, TypeOK, SyncType
<1> DEFINE Service == /\ sync' \in SyncType /\ calls' \subseteq Callers
                      /\ ending' \subseteq {"listening", "check", "release", "disable"}
                      /\ stream' \in {"none", "on", "dead"}
                      /\ {route', verifying', ready'} \subseteq BOOLEAN
           Stored == StoreOK' /\ \A i \in DOMAIN events : i \in DOMAIN events'
<1>3. ASSUME NEW by \in calls, SyncBegin(by)
      PROVE  Service /\ Stored
  <2>1. Service
    BY <1>2, <1>3 DEF SyncBegin, SyncType
  <2>2. QED
    BY <1>3, <2>1, SameStore DEF SyncBegin
<1>4. ASSUME NEW by \in Callers \cup {"none"}, Failed(by)
      PROVE  /\ sync' \in SyncType /\ calls' \subseteq Callers /\ ready' \in BOOLEAN
             /\ ending' \subseteq {"listening", "check", "release", "disable"}
  BY <1>2, <1>4 DEF Failed, Returned, Callers
<1>5. ASSUME NEW by \in calls, ConnectFails(by)
      PROVE  Service /\ Stored
  BY <1>2, <1>4, <1>5, SameStore DEF ConnectFails
<1>6. ASSUME SyncFails
      PROVE  Service /\ Stored
  <2>1. sync.by \in Callers \cup {"none"}
    BY <1>2 DEF SyncType
  <2>2. Service
    BY <1>2, <1>4, <1>6, <2>1 DEF SyncFails
  <2>3. QED
    BY <1>6, <2>2, SameStore DEF SyncFails
<1>7. ASSUME SyncRevision
      PROVE  Service /\ Stored
  <2>1. Revision(Len(log)) \in 0..Revision(MaxRev)
    BY EventsAssumption DEF IInv, TypeOK, Revision
  <2>2. Service
    BY <1>2, <1>7, <2>1 DEF SyncRevision, SyncType, service
  <2>3. QED
    BY <1>7, <2>2, SameStore DEF SyncRevision
<1>8. ASSUME SyncList
      PROVE  Service /\ Stored
  <2>1. board \in [Card -> Shown]
    BY DEF IInv, TypeOK
  <2>2. Service
    BY <1>2, <1>8, <2>1 DEF SyncList, SyncType, service
  <2>3. QED
    BY <1>8, <2>2, SameStore DEF SyncList
<1>9. ASSUME NEW c \in Card, SyncSave(c)
      PROVE  Service /\ Stored
  <2>1. sync.got[c] \in Shown /\ sync.rev \in 0..Revision(MaxRev) /\ None \in Shown
    BY <1>2 DEF SyncType, Shown
  <2>2. Service
    BY <1>2, <1>9, <2>1 DEF SyncSave, SyncType, service
  <2>3. QED
    BY <1>9, <2>1, <2>2, SaveStore DEF SyncSave
<1>10. ASSUME SyncCommit
      PROVE  Service /\ Stored
  <2>1. Service
    BY <1>2, <1>10 DEF SyncCommit, SyncType
  <2>2. QED
    BY <1>10, <2>1, SameStore DEF SyncCommit
<1>11. ASSUME SyncRecover
      PROVE  Service /\ Stored
  <2>1. Service
    BY <1>2, <1>11 DEF SyncRecover, SyncType, service
  <2>2. rows' \subseteq RowRecord /\ \A r \in rows' : r.ev \in DOMAIN events
    <3>1. PICK unsent \in SUBSET {r \in rows : enabled /\ r.st = "processing"} :
            rows' = (rows \ unsent) \cup {[r EXCEPT !.st = "pending"] : r \in unsent}
      BY <1>11 DEF SyncRecover
    <3>2. \A r \in rows : r \in RowRecord /\ r.ev \in DOMAIN events
      BY DEF IInv, TypeOK
    <3>3. \A r \in rows : /\ [r EXCEPT !.st = "pending"] \in RowRecord
                          /\ [r EXCEPT !.st = "pending"].ev \in DOMAIN events
      BY <3>2 DEF RowRecord, RowStatus
    <3>4. QED
      BY <3>1, <3>2, <3>3
  <2>3. Stored
    BY <1>11, <2>2 DEF SyncRecover, StoreOK, AgentOK, KnownOK, IInv, TypeOK
  <2>4. QED
    BY <2>1, <2>3
<1>12. ASSUME SyncPrepare
      PROVE  Service /\ Stored
  <2>1. Service
    BY <1>2, <1>12 DEF SyncPrepare, SyncType, service
  <2>2. PrepareTaskDeliveries \/ UNCHANGED store
    BY <1>12 DEF SyncPrepare
  <2>3. Stored
    BY <2>2, PrepareStore, SameStore
  <2>4. QED
    BY <2>1, <2>3
<1>13. ASSUME SyncCatchup
      PROVE  Service /\ Stored
  <2>1. Service
    BY <1>2, <1>13 DEF SyncCatchup, Returned
  <2>2. PrepareCatchup \/ UNCHANGED store
    BY <1>13 DEF SyncCatchup
  <2>3. Stored
    BY <2>2, CatchupStore, SameStore
  <2>4. QED
    BY <2>1, <2>3
<1>14. Service /\ Stored
  BY <1>3, <1>5, <1>6, <1>7, <1>8, <1>9, <1>10, <1>11, <1>12, <1>13 DEF SyncStep, SyncWork
<1>15. TypeOK'
  BY <1>1, <1>14 DEF StoreOK, IInv, TypeOK, SyncType, lark
<1>16. InboxOK' /\ JobOK' /\ WorkOK'
  BY <1>1, <1>14 DEF InboxOK, JobOK, WorkOK, IInv, lark
<1>17. QED
  BY <1>14, <1>15, <1>16 DEF IInv, StoreOK

\* A row with another status is a row of the same event.
LEMMA Restated ==
  ASSUME IInv, NEW r \in rows, NEW st \in RowStatus
  PROVE  /\ [r EXCEPT !.st = st] \in RowRecord
         /\ [r EXCEPT !.st = st].ev \in DOMAIN events
BY DEF IInv, TypeOK, RowRecord

\* Agents come, change and go.
LEMMA AgentInductive ==
  ASSUME IInv, AgentStep
  PROVE  IInv'
<1>1. PICK a \in Agent : Register(a) \/ UpdateAgent(a) \/ Unregister(a)
  BY DEF AgentStep
<1>2. /\ UNCHANGED <<lark, wire, inbox, snap, events, threads, route, stream,
                     verifying, ending, enabled, ready, up, crashes>>
      /\ calls' \subseteq calls \cup {"agent"}
  BY <1>1 DEF Register, UpdateAgent, Unregister, AgentChanged, Call
<1>3. /\ agents \in [Agent -> [on : BOOLEAN, rev : 0..MaxAssign]] /\ AgentOK
      /\ MaxAssign \in Nat \ {0}
  BY EventsAssumption DEF IInv, TypeOK
<1>4. agents' \in [Agent -> [on : BOOLEAN, rev : 0..MaxAssign]] /\ AgentOK'
  <2>1. CASE Register(a)
    BY <1>3, <2>1 DEF Register, AgentOK
  <2>2. CASE UpdateAgent(a)
    BY <1>3, <2>2 DEF UpdateAgent, AgentOK
  <2>3. CASE Unregister(a)
    BY <1>3, <2>3 DEF Unregister, AgentOK
  <2>4. QED
    BY <1>1, <2>1, <2>2, <2>3
<1>5. \A r \in rows' : r \in RowRecord /\ r.ev \in DOMAIN events
  <2>1. \A r \in rows : r \in RowRecord /\ r.ev \in DOMAIN events
    BY DEF IInv, TypeOK
  <2>2. \A revs : \A r \in Canceled(a, revs) : r \in RowRecord /\ r.ev \in DOMAIN events
    BY <2>1, Restated DEF Canceled, RowStatus
  <2>3. QED
    BY <1>1, <2>1, <2>2 DEF Register, UpdateAgent, Unregister
<1>6. TypeOK'
  BY <1>2, <1>4, <1>5 DEF IInv, TypeOK, lark, threads, Callers
<1>7. InboxOK' /\ JobOK' /\ WorkOK' /\ KnownOK'
  BY <1>2 DEF IInv, InboxOK, JobOK, WorkOK, KnownOK, lark, threads
<1>8. QED
  BY <1>4, <1>6, <1>7 DEF IInv

\* Enabling, disabling, verifying, listening; the stream; crash and restart.
LEMMA ServiceInductive ==
  ASSUME IInv, ServiceStep
  PROVE  IInv'
<1> USE DEF IInv
<1>1. UNCHANGED <<lark, wire, store>>
  BY DEF ServiceStep, Enable, Disable, VerifyEnds, ListenEnds, Release, StreamDies,
         CheckWorkers, Crash, Stop, Restart, PopRoute, AskBlind
<1>2. /\ calls' \subseteq Callers
      /\ ending' \subseteq {"listening", "check", "release", "disable"}
      /\ stream' \in {"none", "on", "dead"}
      /\ {route', verifying', enabled', ready', up'} \subseteq BOOLEAN
      /\ crashes' \in 0..MaxCrashes
  <2>1. CASE Enable \/ Disable \/ VerifyEnds \/ ListenEnds \/ Release \/ StreamDies
    <3>1. CASE Enable
      BY <3>1 DEF Enable, TypeOK, Call, Callers
    <3>2. CASE Disable \/ VerifyEnds \/ ListenEnds
      BY <3>2 DEF Disable, VerifyEnds, ListenEnds, TypeOK
    <3>3. CASE Release
      BY <3>3 DEF Release, TypeOK
    <3>4. CASE StreamDies
      BY <3>4 DEF StreamDies, TypeOK
    <3>5. QED
      BY <2>1, <3>1, <3>2, <3>3, <3>4
  <2>2. CASE CheckWorkers \/ Crash \/ Restart
    <3>1. crashes' \in 0..MaxCrashes
      BY <2>2, EventsAssumption DEF CheckWorkers, Crash, Stop, Restart, TypeOK
    <3>2. CASE Stop
      BY <3>1, <3>2 DEF Stop, TypeOK
    <3>3. CASE Restart
      <4>1. enabled \in BOOLEAN
        BY DEF TypeOK
      <4>2. ready' \in BOOLEAN /\ up' \in BOOLEAN
        BY <3>3, <4>1 DEF Restart
      <4>3. calls' \subseteq Callers
        BY <3>3 DEF Restart, Callers
      <4>4. QED
        BY <3>1, <3>3, <4>2, <4>3 DEF Restart, TypeOK
    <3>4. QED
      BY <2>2, <3>2, <3>3 DEF CheckWorkers, Crash
  <2>3. CASE \E who \in ending : PopRoute(who)
    BY <2>3 DEF PopRoute, TypeOK
  <2>4. CASE \E by \in Callers : AskBlind(by)
    BY <2>4 DEF AskBlind, TypeOK, Call, Callers
  <2>5. QED
    BY <2>1, <2>2, <2>3, <2>4 DEF ServiceStep
<1>3. CASE CheckWorkers \/ Crash
  <2>1. consumer' = NoJob /\ sync' = NoSync /\ worker' = NoWork /\ UNCHANGED inbox
    BY <1>3 DEF CheckWorkers, Crash, Stop
  <2>2. TypeOK'
    BY <1>1, <1>2, <2>1, JobTyped DEF TypeOK, lark, store
  <2>3. InboxOK' /\ JobOK' /\ WorkOK' /\ AgentOK' /\ KnownOK'
    BY <1>1, <2>1, JobTyped DEF InboxOK, JobOK, WorkOK, AgentOK, KnownOK, lark, store
  <2>4. QED
    BY <2>2, <2>3
<1>4. CASE Restart
  <2>1. inbox' = Recovered /\ UNCHANGED threads
    BY <1>4 DEF Restart
  <2>2. /\ inbox' \in [Rev -> InboxStatus]
        /\ \A e \in Rev : inbox'[e] # "absent" => inbox[e] # "absent"
    BY <2>1 DEF Recovered, InboxStatus, TypeOK
  <2>3. TypeOK'
    BY <1>1, <1>2, <2>1, <2>2 DEF TypeOK, lark, store, threads
  <2>4. InboxOK' /\ JobOK' /\ WorkOK' /\ AgentOK' /\ KnownOK'
    BY <1>1, <2>1, <2>2 DEF InboxOK, JobOK, WorkOK, AgentOK, KnownOK, lark, store, threads
  <2>5. QED
    BY <2>3, <2>4
<1>5. CASE ~(CheckWorkers \/ Crash \/ Restart)
  <2>1. UNCHANGED <<inbox, threads>>
    BY <1>5 DEF ServiceStep, Enable, Disable, VerifyEnds, ListenEnds, Release, StreamDies,
                PopRoute, AskBlind
  <2>2. TypeOK'
    BY <1>1, <1>2, <2>1 DEF TypeOK, lark, store, threads
  <2>3. InboxOK' /\ JobOK' /\ WorkOK' /\ AgentOK' /\ KnownOK'
    BY <1>1, <2>1 DEF InboxOK, JobOK, WorkOK, AgentOK, KnownOK, lark, store, threads
  <2>4. QED
    BY <2>2, <2>3
<1>6. QED
  BY <1>3, <1>4, <1>5

WorkType == [pc : {"none", "read", "save", "prepare", "decide"},
             row : RowRecord \cup {None}, got : Shown]

\* A delivery worker and the reconciler of its rows.
LEMMA WorkerInductive ==
  ASSUME IInv, WorkerStep
  PROVE  IInv'
<1>1. UNCHANGED <<lark, wire, inbox, agents, consumer, sync, service>>
  BY DEF WorkerStep, LiveRead, LiveSave, LivePrepare, Decide, ClaimRow, ReconcileRow, store, threads,
         PrepareTaskDeliveries
<1>2. /\ worker \in WorkType /\ NoWork \in WorkType /\ NoWork.pc = "none"
      /\ \A r \in rows : r \in RowRecord /\ r.ev \in DOMAIN events
      /\ \A i \in DOMAIN events : events[i].card \in Card
  <2>1. /\ worker \in WorkType /\ NoWork \in WorkType /\ NoWork.pc = "none"
        /\ events \in Seq(TaskEvent)
        /\ \A r \in rows : r \in RowRecord /\ r.ev \in DOMAIN events
    BY JobTyped DEF IInv, TypeOK, WorkType
  <2>2. \A i \in DOMAIN events : events[i] \in TaskEvent
    BY <2>1
  <2>3. QED
    BY <2>1, <2>2 DEF TaskEvent
<1>3. worker.pc # "none" => worker.row \in RowRecord /\ worker.row.ev \in DOMAIN events
  BY DEF IInv, WorkOK
<1>4. ASSUME NEW r, NEW st \in RowStatus, SetRow(r, st), UNCHANGED <<snap, events>>
      PROVE  StoreOK' /\ \A i \in DOMAIN events : i \in DOMAIN events'
  <2>1. \A q \in rows' : q \in RowRecord /\ q.ev \in DOMAIN events
    BY <1>2, <1>4, Restated DEF SetRow
  <2>2. QED
    BY <1>1, <1>4, <2>1 DEF StoreOK, AgentOK, KnownOK, IInv, TypeOK
<1>5. /\ StoreOK' /\ \A i \in DOMAIN events : i \in DOMAIN events'
      /\ worker' \in WorkType
      /\ worker'.pc # "none" => worker'.row \in RowRecord /\ worker'.row.ev \in DOMAIN events
  <2>1. CASE LiveRead
    <3>1. board[CardOf(worker.row)] \in Shown
      BY <1>2, <1>3, <2>1 DEF LiveRead, CardOf, IInv, TypeOK
    <3>2. worker' \in WorkType /\ worker'.row = worker.row /\ worker.pc # "none"
      BY <1>2, <2>1, <3>1 DEF LiveRead, WorkType
    <3>3. QED
      BY <1>3, <2>1, <3>2, SameStore DEF LiveRead
  <2>2. CASE LiveSave
    <3>1. CardOf(worker.row) \in Card /\ worker.pc = "save"
      BY <1>2, <1>3, <2>2 DEF LiveSave, CardOf
    <3>2. worker.got \in Shown /\ 0 \in 0..Revision(MaxRev)
      BY <1>2, EventsAssumption DEF WorkType, Revision
    <3>3. StoreOK' /\ \A i \in DOMAIN events : i \in DOMAIN events'
      BY <2>2, <3>1, <3>2, SaveStore DEF LiveSave
    <3>4. \E pc \in {"decide", "prepare"} : worker' = [worker EXCEPT !.pc = pc]
      BY <2>2 DEF LiveSave
    <3>5. worker' \in WorkType /\ worker'.row = worker.row
      BY <1>2, <3>4 DEF WorkType
    <3>6. QED
      BY <1>3, <3>1, <3>3, <3>5
  <2>3. CASE LivePrepare
    <3>1. worker' \in WorkType /\ worker'.row = worker.row /\ worker.pc # "none"
      BY <1>2, <2>3 DEF LivePrepare, WorkType
    <3>2. QED
      BY <1>3, <2>3, <3>1, PrepareStore DEF LivePrepare
  <2>4. CASE Decide
    <3>1. \E st \in RowStatus : SetRow(worker.row, st)
      BY <2>4 DEF Decide, RowStatus
    <3>2. worker' = NoWork /\ UNCHANGED <<snap, events>>
      BY <2>4 DEF Decide
    <3>3. QED
      BY <1>2, <1>4, <3>1, <3>2
  <2>5. ASSUME NEW r \in rows, ClaimRow(r)
        PROVE  <1>5
    <3>1. (\E st \in RowStatus : SetRow(r, st)) /\ UNCHANGED <<snap, events>>
      BY <2>5 DEF ClaimRow, RowStatus
    <3>2. \/ worker' = [NoWork EXCEPT !.pc = "read", !.row = [r EXCEPT !.st = "processing"]]
          \/ worker' = worker
      BY <2>5 DEF ClaimRow
    <3>3. /\ [r EXCEPT !.st = "processing"] \in RowRecord
          /\ [r EXCEPT !.st = "processing"].ev \in DOMAIN events
      BY Restated DEF RowStatus
    <3>4. worker' \in WorkType /\ (worker'.pc # "none" =>
             worker'.row \in RowRecord /\ worker'.row.ev \in DOMAIN events)
      <4> DEFINE q == [r EXCEPT !.st = "processing"]
      <4>1. q \in RowRecord /\ q.ev \in DOMAIN events
        BY <3>3
      <4>2. \/ worker' = [NoWork EXCEPT !.pc = "read", !.row = q]
            \/ worker' = worker
        BY <3>2
      <4> HIDE DEF q
      <4>3. QED
        BY <1>2, <1>3, <4>1, <4>2 DEF WorkType
    <3>5. QED
      BY <1>4, <3>1, <3>4
  <2>6. ASSUME NEW r \in rows, ReconcileRow(r)
        PROVE  <1>5
    <3>1. (\E st \in RowStatus : SetRow(r, st)) /\ UNCHANGED <<snap, events, worker>>
      BY <2>6 DEF ReconcileRow, RowStatus, threads
    <3>2. QED
      BY <1>2, <1>3, <1>4, <3>1
  <2>7. QED
    BY <2>1, <2>2, <2>3, <2>4, <2>5, <2>6 DEF WorkerStep
<1>6. TypeOK'
  BY <1>1, <1>5 DEF StoreOK, IInv, TypeOK, WorkType, lark, service
<1>7. InboxOK' /\ JobOK' /\ WorkOK'
  BY <1>1, <1>5 DEF InboxOK, JobOK, WorkOK, IInv, lark
<1>8. QED
  BY <1>5, <1>6, <1>7 DEF IInv, StoreOK

\* A daemon starts with empty tables.
LEMMA InitInductive == Init => IInv
<1> SUFFICES ASSUME Init PROVE IInv
  OBVIOUS
<1>1. /\ snap \in [Card -> [c : Shown, rev : 0..Revision(MaxRev)]]
      /\ \A c \in Card : snap[c].c = None
  BY EventsAssumption DEF Init, NoSnap, Shown, Revision
<1>2. agents \in [Agent -> [on : BOOLEAN, rev : 0..MaxAssign]] /\ AgentOK
  <2>1. \A a \in Agent : /\ (a \in Early) \in BOOLEAN
                          /\ (IF a \in Early THEN 1 ELSE 0) \in 0..MaxAssign
    BY EventsAssumption
  <2>2. \A a \in Agent : [on |-> a \in Early, rev |-> IF a \in Early THEN 1 ELSE 0]
                           \in [on : BOOLEAN, rev : 0..MaxAssign]
    BY <2>1
  <2>3. agents = [a \in Agent |-> [on |-> a \in Early, rev |-> IF a \in Early THEN 1 ELSE 0]]
    BY DEF Init
  <2>4. AgentOK
    <3>1. \A a \in Agent : agents[a].on = (a \in Early) /\ agents[a].rev = IF a \in Early THEN 1 ELSE 0
      BY <2>3
    <3>2. ASSUME NEW a \in Agent, agents[a].on
          PROVE  agents[a].rev >= 1
      <4>1. a \in Early
        BY <3>1, <3>2, Zenon
      <4>2. agents[a].rev = 1
        BY <3>1, <4>1, Zenon
      <4>3. QED
        BY <4>2
    <3>3. QED
      BY <3>2 DEF AgentOK
  <2>5. QED
    BY <2>2, <2>3, <2>4
<1>3. /\ log \in Seq([cards : SUBSET Card, kind : {"edit", "delete", "field"}])
      /\ Len(log) = 0 /\ events \in Seq(TaskEvent) /\ MaxRev \in Nat /\ MaxCrashes \in Nat
  BY EventsAssumption DEF Init
<1>4. board \in [Card -> Shown] /\ inbox \in [Rev -> InboxStatus]
  BY DEF Init, Shown, InboxStatus
<1>5. TypeOK
  <2>1. consumer = NoJob /\ sync = NoSync /\ worker = NoWork /\ wire = {} /\ rows = {}
    BY DEF Init
  <2>2. /\ calls \subseteq Callers /\ ending = {} /\ stream \in {"none", "on", "dead"}
        /\ {route, verifying, enabled, ready, up} \subseteq BOOLEAN
        /\ crashes \in 0..MaxCrashes
    <3>1. {route, verifying, enabled, ready, up} \subseteq BOOLEAN
      BY Zenon DEF Init
    <3>2. crashes \in 0..MaxCrashes
      BY <1>3 DEF Init
    <3>3. calls \subseteq Callers /\ ending = {} /\ stream \in {"none", "on", "dead"}
      BY DEF Init, Callers
    <3>4. QED
      BY <3>1, <3>2, <3>3
  <2>3. Len(log) <= MaxRev
    BY <1>3
  <2>4. QED
    BY <1>1, <1>2, <1>3, <1>4, <2>1, <2>2, <2>3, JobTyped DEF TypeOK
<1>6. InboxOK /\ JobOK /\ WorkOK /\ KnownOK
  BY <1>1, JobTyped DEF Init, InboxOK, JobOK, WorkOK, KnownOK
<1>7. QED
  BY <1>2, <1>5, <1>6 DEF IInv

\* Every step of board, threads, staff and service keeps the invariant.
LEMMA NextInductive ==
  ASSUME IInv, [Next]_vars
  PROVE  IInv'
<1>1. CASE UNCHANGED vars
  BY <1>1 DEF vars, lark, store, threads, service, IInv, TypeOK, InboxOK, JobOK, AgentOK,
              WorkOK, KnownOK
<1>2. CASE ConsumerStep
  BY <1>2, ConsumerInbox, ConsumerStore DEF ConsumerStep, ConsumerWork
<1>3. QED
  BY <1>1, <1>2, BoardInductive, LarkInductive, SyncInductive, AgentInductive,
     ServiceInductive, WorkerInductive DEF Next

\* IInv holds in every reachable state.
LEMMA Inductive == Spec => []IInv
<1>1. IInv /\ [Next]_vars => IInv'
  BY NextInductive
<1>2. QED
  BY <1>1, InitInductive, PTL DEF Spec

-----------------------------------------------------------------------------
(* The theorems.                                                            *)

\* Every variable holds a value that the code can store there, and every
\* delivery row names a task event that exists: for any board, workflow and
\* staff, and whichever incidents happen.
THEOREM Typed == Spec => []TypeOK
BY Inductive, PTL DEF IInv

\* A card whose snapshot is in a dispatching state has an event that dispatches
\* it, whatever keys save_task_snapshot wrote and whoever saved the card: the
\* live read of a worker, an event, or a reconciliation.
THEOREM Deliverable == Spec => []DispatchKnown
<1>1. IInv => DispatchKnown
  <2> SUFFICES ASSUME IInv, NEW c \in Card, snap[c].c # None, Dispatch[snap[c].c.st] # "none"
               PROVE  Current(c) # 0
    BY DEF DispatchKnown
  <2> DEFINE at == {i \in DOMAIN events : /\ snap[c].c # None /\ events[i].card = c
                                          /\ events[i].after.st = snap[c].c.st
                                          /\ Dispatches(events[i])}
  <2>1. Len(events) \in Nat /\ at \subseteq 1..Len(events)
    BY DEF IInv, TypeOK
  <2>2. at # {}
    BY DEF IInv, KnownOK, Announces
  <2>3. Current(c) = CHOOSE i \in at : \A j \in at : j <= i
    BY <2>2 DEF Current, CurrentIn
  <2> HIDE DEF at
  <2>4. Current(c) \in 1..Len(events)
    BY <2>1, <2>2, <2>3, Youngest
  <2>5. QED
    BY <2>1, <2>4
<1>2. QED
  BY <1>1, Inductive, PTL

\* Where there is a route or a sync there is a stream, and one that stopped is
\* the only dead one.
Watched == /\ stream \in {"none", "on", "dead"}
           /\ route \/ sync.pc # "none" => stream # "none"
           /\ "dies" \notin Incidents => stream # "dead"

\* This holds from the start.
LEMMA WatchedInit == Init => Watched
BY JobTyped DEF Init, Watched

\* Every step keeps it, unless a sync is asked for when the stream of a route has
\* died, and ensure_app then fails to connect while the route stays.
LEMMA WatchedNext ==
  ASSUME {"dies", "lark"} \subseteq Incidents => route = FALSE \/ calls = {},
         Watched, [Next]_vars
  PROVE  Watched'
<1>1. CASE UNCHANGED <<route, stream, sync>>
  BY <1>1 DEF Watched
<1>2. CASE ~ UNCHANGED <<route, stream, sync>> /\ SyncStep
  <2>1. ASSUME NEW by \in calls, SyncBegin(by)
        PROVE  Watched'
    BY <2>1 DEF SyncBegin, Watched
  <2>2. ASSUME NEW by \in calls, ConnectFails(by)
        PROVE  Watched'
    BY <2>2, JobTyped DEF ConnectFails, Failed, Returned, Watched
  <2>3. CASE SyncFails
    BY <2>3, JobTyped DEF SyncFails, Failed, Returned, Watched
  <2>4. CASE SyncWork
    <3>1. UNCHANGED stream
      BY <2>4 DEF SyncWork, SyncRevision, SyncList, SyncCommit, SyncRecover, SyncPrepare,
                  SyncCatchup, SyncSave, service
    <3>2. sync.pc # "none"
      BY <2>4 DEF SyncWork, SyncRevision, SyncList, SyncCommit, SyncRecover, SyncPrepare,
                  SyncCatchup, SyncSave
    <3>3. QED
      BY <3>1, <3>2 DEF Watched
  <2>5. QED
    BY <1>2, <2>1, <2>2, <2>3, <2>4 DEF SyncStep
<1>3. CASE ServiceStep
  BY <1>3, JobTyped DEF ServiceStep, Enable, Disable, VerifyEnds, ListenEnds, Release,
       StreamDies, CheckWorkers, Crash, Stop, Restart, PopRoute, AskBlind, threads, Watched
<1>4. CASE BoardStep \/ LarkStep \/ ConsumerStep \/ AgentStep \/ WorkerStep
  <2>1. UNCHANGED <<route, stream, sync>>
    <3>1. CASE BoardStep \/ LarkStep
      BY <3>1 DEF BoardStep, LarkStep, WriteCards, DeleteCard, ChangeField, Change, Push,
                  Lose, threads, service
    <3>2. CASE ConsumerStep
      BY <3>2 DEF ConsumerStep, ConsumerWork, Lookup, FinishEvent, ConsumePrepare,
                  ConsumeCatchup, ReadCard, SaveCard, ReadFails, Claim, service
    <3>3. CASE AgentStep
      BY <3>3 DEF AgentStep, Register, UpdateAgent, Unregister, AgentChanged, threads
    <3>4. CASE WorkerStep
      BY <3>4 DEF WorkerStep, LiveRead, LiveSave, LivePrepare, Decide, ClaimRow,
                  ReconcileRow, threads, service
    <3>5. QED
      BY <1>4, <3>1, <3>2, <3>3, <3>4
  <2>2. QED
    BY <1>1, <2>1
<1>5. QED
  BY <1>1, <1>2, <1>3, <1>4 DEF Next, vars, service, threads

\* Nobody asks a running daemon for a sync: the staff stays, the workspace is not
\* disabled, verified or listened to.
Undisturbed == Incidents \cap {"staff", "down", "blind"} = {}
\* Then the sync of its start is the only one a daemon ever does, and it comes
\* before the route.
OnceStarted == /\ enabled /\ ~verifying /\ ending = {} /\ calls \subseteq {"startup"}
               /\ sync.pc # "none" => sync.by = "startup"
               /\ route \/ sync.pc # "none" \/ ~up => calls = {}
               /\ ~up => ~route /\ sync.pc = "none"

\* This holds from the start.
LEMMA OnceStartedInit == Init => OnceStarted
BY JobTyped DEF Init, OnceStarted

\* Every step keeps it: the calls of sync for an agent, for enabling, for a
\* verification or a listener are what it excludes.
LEMMA OnceStartedNext ==
  ASSUME Undisturbed, TypeOK, OnceStarted, [Next]_vars
  PROVE  OnceStarted'
<1> DEFINE own == <<sync, calls, route, verifying, ending, enabled, up>>
<1>1. CASE UNCHANGED own
  BY <1>1 DEF OnceStarted
<1>2. CASE BoardStep \/ LarkStep \/ ConsumerStep \/ WorkerStep
  <2>1. CASE BoardStep \/ LarkStep
    BY <1>1, <2>1 DEF BoardStep, LarkStep, WriteCards, DeleteCard, ChangeField, Change, Push,
                      Lose, threads, service
  <2>2. CASE ConsumerStep
    BY <1>1, <2>2 DEF ConsumerStep, ConsumerWork, Lookup, FinishEvent, ConsumePrepare,
                      ConsumeCatchup, ReadCard, SaveCard, ReadFails, Claim, service
  <2>3. CASE WorkerStep
    BY <1>1, <2>3 DEF WorkerStep, LiveRead, LiveSave, LivePrepare, Decide, ClaimRow,
                      ReconcileRow, threads, service
  <2>4. QED
    BY <1>2, <2>1, <2>2, <2>3
<1>3. CASE SyncStep
  <2>1. ASSUME NEW by \in calls, SyncBegin(by)
        PROVE  OnceStarted'
    <3>1. by = "startup" /\ up /\ calls' = {} /\ sync'.by = by
      BY <2>1 DEF SyncBegin, OnceStarted, NoSync
    <3>2. QED
      BY <2>1, <3>1 DEF SyncBegin, OnceStarted
  <2>2. ASSUME NEW by \in calls, ConnectFails(by)
        PROVE  OnceStarted'
    BY <2>2, JobTyped DEF ConnectFails, Failed, Returned, OnceStarted
  <2>3. CASE SyncFails
    BY <2>3, JobTyped DEF SyncFails, Failed, Returned, OnceStarted
  <2>4. CASE SyncWork
    <3>1. sync.pc # "none" /\ UNCHANGED <<calls, enabled, up>>
      BY <2>4 DEF SyncWork, SyncRevision, SyncList, SyncCommit, SyncRecover, SyncPrepare,
                  SyncCatchup, SyncSave, service
    <3>2. ~verifying' /\ ending' = {}
      <4>1. CASE SyncCatchup
        BY <3>1, <4>1 DEF SyncCatchup, OnceStarted
      <4>2. ~SyncCatchup => UNCHANGED <<verifying, ending>>
        BY <2>4 DEF SyncWork, SyncRevision, SyncList, SyncCommit, SyncRecover,
                    SyncPrepare, SyncSave, service
      <4>3. CASE ~SyncCatchup
        BY <4>2, <4>3 DEF OnceStarted
      <4>4. QED
        BY <4>1, <4>3
    <3>3. up
      BY <3>1 DEF OnceStarted, TypeOK
    <3>4. sync'.pc # "none" => sync'.by = "startup"
      BY <2>4, <3>1, JobTyped DEF SyncWork, SyncRevision, SyncList, SyncCommit, SyncRecover,
           SyncPrepare, SyncCatchup, SyncSave, Returned, OnceStarted, TypeOK
    <3>5. QED
      BY <3>1, <3>2, <3>3, <3>4 DEF OnceStarted
  <2>5. QED
    BY <1>3, <2>1, <2>2, <2>3, <2>4 DEF SyncStep
<1>4. CASE ServiceStep
  <2>1. ~Enable /\ ~Disable /\ ~VerifyEnds /\ ~ListenEnds /\ ~Release
    BY DEF Enable, Disable, VerifyEnds, ListenEnds, Release, OnceStarted, Undisturbed
  <2>2. /\ \A who \in ending : ~PopRoute(who)
        /\ \A by \in Callers : ~AskBlind(by)
    BY DEF PopRoute, AskBlind, OnceStarted, Undisturbed
  <2>3. CASE StreamDies
    BY <1>1, <2>3 DEF StreamDies, threads
  <2>4. CASE CheckWorkers \/ Crash
    BY <2>4, JobTyped DEF CheckWorkers, Crash, Stop, OnceStarted
  <2>5. CASE Restart
    BY <2>5 DEF Restart, threads, OnceStarted
  <2>6. QED
    BY <1>4, <2>1, <2>2, <2>3, <2>4, <2>5 DEF ServiceStep
<1>5. QED
  BY <1>1, <1>2, <1>3, <1>4 DEF Next, AgentStep, vars, service, threads, Undisturbed

\* A workspace that events are routed to has a worker that listens, or one that
\* check_workers will find dead: unless the stream dies, a sync is asked for and
\* ensure_app then fails to connect while the route stays (section 9 of the README).
THEOREM RouteHasStream ==
  ASSUME ~({"dies", "lark"} \subseteq Incidents) \/ Undisturbed
  PROVE  Spec => []RouteWatched
<1>1. Undisturbed /\ TypeOK /\ OnceStarted /\ [Next]_vars => OnceStarted'
  BY OnceStartedNext
<1>2. (Undisturbed => OnceStarted) /\ Watched /\ [Next]_vars => Watched'
  <2> SUFFICES ASSUME Undisturbed => OnceStarted, Watched, [Next]_vars
               PROVE  Watched'
    OBVIOUS
  <2>1. {"dies", "lark"} \subseteq Incidents => route = FALSE \/ calls = {}
    BY DEF OnceStarted
  <2> QED BY <2>1, WatchedNext
<1>3. Watched => RouteWatched
  BY DEF Watched, RouteWatched
<1>4. Spec => [](Undisturbed => OnceStarted)
  <2>1. CASE Undisturbed
    <3>1. TypeOK /\ OnceStarted /\ [Next]_vars => OnceStarted'
      BY <1>1, <2>1
    <3>2. OnceStarted => (Undisturbed => OnceStarted)
      OBVIOUS
    <3> QED BY <3>1, <3>2, OnceStartedInit, Typed, PTL DEF Spec
  <2>2. CASE ~Undisturbed
    <3>1. Undisturbed => OnceStarted
      BY <2>2
    <3> QED BY <3>1, PTL
  <2> QED BY <2>1, <2>2
<1>5. QED
  BY <1>2, <1>3, <1>4, WatchedInit, PTL DEF Spec

\* A routed stream that stopped by itself is not replaced by a running daemon, so
\* that the events it missed are read when the next daemon starts: check_workers
\* is the only one to act on it.  The three incidents excluded are those that ask
\* for another sync, and each of them breaks it (section 9 of the README).
THEOREM DeathFatal ==
  ASSUME Undisturbed
  PROVE  Spec => DeathIsFatal
<1>1. TypeOK /\ OnceStarted /\ [Next]_vars => OnceStarted'
  BY OnceStartedNext
<1>2. ASSUME OnceStarted, [Next]_vars, route, stream = "dead", up', route'
      PROVE  stream' = "dead"
  <2>1. calls = {} /\ ending = {}
    BY <1>2 DEF OnceStarted
  <2>2. CASE SyncStep
    BY <1>2, <2>1, <2>2 DEF SyncStep, SyncWork, SyncFails, SyncRevision, SyncList, SyncCommit,
         SyncRecover, SyncPrepare, SyncCatchup, SyncSave, service
  <2>3. CASE ServiceStep
    BY <1>2, <2>1, <2>3 DEF ServiceStep, Enable, Disable, VerifyEnds, ListenEnds, Release,
         StreamDies, CheckWorkers, Crash, Stop, Restart, PopRoute, AskBlind
  <2>4. CASE BoardStep \/ LarkStep \/ ConsumerStep \/ AgentStep \/ WorkerStep
    <3>1. CASE BoardStep \/ LarkStep
      BY <1>2, <3>1 DEF BoardStep, LarkStep, WriteCards, DeleteCard, ChangeField, Change, Push,
                        Lose, service
    <3>2. CASE ConsumerStep
      BY <1>2, <3>2 DEF ConsumerStep, ConsumerWork, Lookup, FinishEvent, ConsumePrepare,
                        ConsumeCatchup, ReadCard, SaveCard, ReadFails, Claim, service
    <3>3. CASE AgentStep
      BY <1>2, <3>3 DEF AgentStep, Register, UpdateAgent, Unregister, AgentChanged
    <3>4. CASE WorkerStep
      BY <1>2, <3>4 DEF WorkerStep, LiveRead, LiveSave, LivePrepare, Decide, ClaimRow,
                        ReconcileRow, service
    <3>5. QED
      BY <2>4, <3>1, <3>2, <3>3, <3>4
  <2>5. QED
    BY <1>2, <2>2, <2>3, <2>4 DEF Next, vars, service
<1>3. OnceStarted /\ [Next]_vars
        => [route /\ stream = "dead" /\ up' /\ route' => stream' = "dead"]_vars
  BY <1>2
<1>4. QED
  BY <1>1, <1>3, OnceStartedInit, Typed, PTL DEF Spec, DeathIsFatal
=============================================================================
