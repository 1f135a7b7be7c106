------------------------ MODULE TaskEventsConvergence ------------------------
(***************************************************************************)
(* The snapshots converge to the board: proof of QuietConverges for any    *)
(* number of cards and changes, any order and repetition of pushes,        *)
(* crashes, failing requests and events given up.                          *)
(*                                                                         *)
(* The argument follows, for each card, the last change that touched it.   *)
(* What was read for a revision at least as young is on the board still    *)
(* (Fresh).  So it is enough that the card was saved under such a          *)
(* revision, or that something is still to come that will save it: the     *)
(* event of the change, or a reconciliation (Covered).                     *)
(***************************************************************************)
EXTENDS TaskEventsProofs

\* The incidents under which the claim holds.  The others break it, as section
\* 9 of the README shows: a worker's live read has no revision; a listener that
\* is verified drops events; a stream that died is replaced by the sync that an
\* agent or an enabled workspace asks for; and a card that was deleted may come
\* back from a read under way when the workspace is disabled and enabled.
Tame == /\ "live" \notin Incidents /\ "blind" \notin Incidents
        /\ "dies" \in Incidents => {"staff", "down"} \cap Incidents = {}
        /\ "down" \in Incidents => "delete" \notin Kinds

-----------------------------------------------------------------------------
(* Who may sync, and when there is a route.                                 *)

CallsOK == /\ calls \subseteq {"startup", "agent", "enable"} /\ ~verifying
           /\ sync.by \in {"startup", "agent", "enable", "none"}
\* A reconciliation is for a workspace without a route.
RouteOK == /\ sync.pc \in {"revision", "list", "save"} => ~route
           /\ sync.pc = "commit" => route
           /\ ~up => ~route /\ sync.pc = "none"
\* A workspace that is never disabled keeps its route until the daemon stops.
UpOK == "down" \notin Incidents => /\ enabled /\ ending = {}
                                   /\ consumer.pc = "work" => route
\* Where streams die and nobody else calls sync, a start does, before any route.
DeadOK == "dies" \in Incidents =>
            /\ calls \subseteq {"startup"} /\ sync.by \in {"startup", "none"}
            /\ "startup" \in calls => ~route /\ sync.pc = "none"
Control == CallsOK /\ RouteOK /\ UpOK /\ DeadOK /\ ("dies" \notin Incidents => Watched)

\* What a daemon starts with.
LEMMA ControlInit == Init => Control
BY WatchedInit, EventsAssumption DEF Init, Control, CallsOK, RouteOK, UpOK, DeadOK, NoSync, NoJob

\* Every step keeps it.
LEMMA ControlNext ==
  ASSUME Tame, IInv, Control, [Next]_vars
  PROVE  Control'
<1>1. ("dies" \notin Incidents => Watched)'
  BY WatchedNext DEF Control
<1>2. ASSUME UNCHANGED <<calls, verifying, sync, route, up, enabled, ending>>,
             consumer'.pc = "work" => consumer.pc = "work" \/ route
      PROVE  Control'
  BY <1>1, <1>2 DEF Control, CallsOK, RouteOK, UpOK, DeadOK
<1>3. CASE UNCHANGED vars
  BY <1>2, <1>3 DEF vars, threads, service
<1>4. CASE BoardStep \/ LarkStep
  <2>1. UNCHANGED <<threads, service>>
    BY <1>4 DEF BoardStep, LarkStep, WriteCards, DeleteCard, ChangeField, Change, Push, Lose
  <2>2. QED
    BY <1>2, <2>1 DEF threads, service
<1>5. CASE ConsumerStep
  <2>1. UNCHANGED <<sync, service>>
    BY <1>5 DEF ConsumerStep, ConsumerWork, Lookup, FinishEvent, ConsumePrepare,
                ConsumeCatchup, ReadCard, SaveCard, ReadFails, Claim
  <2>2. consumer'.pc = "work" => consumer.pc = "work" \/ route
    <3>1. CASE Lookup \/ \E c \in Card : ReadCard(c) \/ SaveCard(c)
      BY <3>1, JobTyped DEF Lookup, ReadCard, SaveCard, Retry, DropJob
    <3>2. CASE FinishEvent \/ ConsumeCatchup \/ ReadFails
      BY <3>2 DEF FinishEvent, ConsumeCatchup, ReadFails, Retry, DropJob, NoJob
    <3>3. CASE ConsumePrepare \/ \E e \in Rev : Claim(e)
      <4>1. consumer \in JobType /\ NoJob \in JobType /\ NoJob.pc = "none"
        BY JobTyped DEF JobType, IInv, TypeOK
      <4>2. \/ consumer' = NoJob \/ consumer' = [consumer EXCEPT !.pc = "catchup"]
            \/ \E e \in Rev : consumer' = [NoJob EXCEPT !.pc = "lookup", !.e = e]
        BY <3>3 DEF ConsumePrepare, Claim, DropJob
      <4>3. consumer'.pc # "work"
        BY <4>1, <4>2 DEF JobType
      <4>4. QED
        BY <4>3
    <3>4. QED
      BY <1>5, <3>1, <3>2, <3>3 DEF ConsumerStep, ConsumerWork
  <2>3. QED
    BY <1>2, <2>1, <2>2 DEF service
<1>6. CASE AgentStep
  <2>1. "staff" \in Incidents /\ calls' \subseteq calls \cup {"agent"}
    BY <1>6 DEF AgentStep, Register, UpdateAgent, Unregister, AgentChanged, Call
  <2>2. UNCHANGED <<threads, route, verifying, ending, enabled, up>>
    BY <1>6 DEF AgentStep, Register, UpdateAgent, Unregister, AgentChanged
  <2>3. QED
    BY <1>1, <2>1, <2>2 DEF Control, CallsOK, RouteOK, UpOK, DeadOK, Tame, threads
<1>7. CASE SyncStep
  <2>0. sync \in SyncType /\ consumer' = consumer /\ up' = up /\ enabled' = enabled
    BY <1>7 DEF IInv, TypeOK, SyncType, SyncStep, SyncWork, SyncRevision, SyncList, SyncCommit,
         SyncRecover, SyncPrepare, SyncCatchup, SyncSave, SyncFails, SyncBegin, ConnectFails, service
  <2>1. ASSUME NEW by \in calls, SyncBegin(by)
        PROVE  Control'
    BY <1>1, <2>0, <2>1 DEF SyncBegin, Control, CallsOK, RouteOK, UpOK, DeadOK, NoSync, Reconciles
  <2>2. ASSUME NEW by \in calls, ConnectFails(by)
        PROVE  Control'
    BY <1>1, <2>0, <2>2 DEF ConnectFails, Failed, Returned, Control, CallsOK, RouteOK, UpOK, DeadOK, NoSync
  <2>3. CASE SyncFails
    <3>1. CallsOK'
      BY <2>0, <2>3 DEF SyncFails, Failed, Returned, NoSync, Control, CallsOK, RouteOK, UpOK, DeadOK
    <3>2. RouteOK'
      BY <2>0, <2>3 DEF SyncFails, Failed, Returned, NoSync, Control, CallsOK, RouteOK, UpOK, DeadOK
    <3>3. UpOK'
      BY <2>0, <2>3 DEF SyncFails, Failed, Returned, NoSync, Control, CallsOK, RouteOK, UpOK, DeadOK
    <3>4. DeadOK'
      BY <2>0, <2>3 DEF SyncFails, Failed, Returned, NoSync, Control, CallsOK, RouteOK, UpOK, DeadOK
    <3>5. QED
      BY <1>1, <3>1, <3>2, <3>3, <3>4 DEF Control
  <2>4. CASE SyncRevision \/ SyncList \/ SyncRecover \/ SyncPrepare \/ \E c \in Card : SyncSave(c)
    <3>1. UNCHANGED service /\ sync'.by = sync.by /\ sync.pc # "none" /\ sync'.pc # "commit"
      BY <2>0, <2>4 DEF SyncRevision, SyncList, SyncRecover, SyncPrepare, SyncSave, SyncType
    <3>2. sync'.pc \in {"revision", "list", "save"} => sync.pc \in {"revision", "list", "save"}
      BY <2>0, <2>4 DEF SyncRevision, SyncList, SyncRecover, SyncPrepare, SyncSave, SyncType
    <3>3. QED
      BY <1>1, <2>0, <3>1, <3>2 DEF Control, CallsOK, RouteOK, UpOK, DeadOK, service
  <2>5. CASE SyncCommit
    <3>1. CallsOK'
      BY <2>0, <2>5 DEF SyncCommit, SyncType, Control, CallsOK, RouteOK, UpOK, DeadOK
    <3>2. RouteOK'
      BY <2>0, <2>5 DEF SyncCommit, SyncType, Control, CallsOK, RouteOK, UpOK, DeadOK
    <3>3. UpOK'
      BY <2>0, <2>5 DEF SyncCommit, SyncType, Control, CallsOK, RouteOK, UpOK, DeadOK
    <3>4. DeadOK'
      BY <2>0, <2>5 DEF SyncCommit, SyncType, Control, CallsOK, RouteOK, UpOK, DeadOK
    <3>5. QED
      BY <1>1, <3>1, <3>2, <3>3, <3>4 DEF Control
  <2>6. CASE SyncCatchup
    <3>1. CallsOK'
      BY <2>0, <2>6 DEF SyncCatchup, Returned, NoSync, Control, CallsOK, RouteOK, UpOK, DeadOK
    <3>2. RouteOK'
      BY <2>0, <2>6 DEF SyncCatchup, Returned, NoSync, Control, CallsOK, RouteOK, UpOK, DeadOK
    <3>3. UpOK'
      BY <2>0, <2>6 DEF SyncCatchup, Returned, NoSync, Control, CallsOK, RouteOK, UpOK, DeadOK
    <3>4. DeadOK'
      BY <2>0, <2>6 DEF SyncCatchup, Returned, NoSync, Control, CallsOK, RouteOK, UpOK, DeadOK
    <3>5. QED
      BY <1>1, <3>1, <3>2, <3>3, <3>4 DEF Control
  <2>7. QED
    BY <1>7, <2>1, <2>2, <2>3, <2>4, <2>5, <2>6 DEF SyncStep, SyncWork
<1>8. CASE ServiceStep
  <2>1. CASE Crash \/ CheckWorkers
    <3>1. CallsOK'
      BY <2>1, JobTyped DEF Crash, CheckWorkers, Stop, NoSync, Control, CallsOK, RouteOK, UpOK, DeadOK
    <3>2. RouteOK'
      BY <2>1, JobTyped DEF Crash, CheckWorkers, Stop, NoSync, Control, CallsOK, RouteOK, UpOK, DeadOK
    <3>3. UpOK'
      BY <2>1, JobTyped DEF Crash, CheckWorkers, Stop, NoSync, Control, CallsOK, RouteOK, UpOK, DeadOK
    <3>4. DeadOK'
      BY <2>1, JobTyped DEF Crash, CheckWorkers, Stop, NoSync, Control, CallsOK, RouteOK, UpOK, DeadOK
    <3>5. QED
      BY <1>1, <3>1, <3>2, <3>3, <3>4 DEF Control
  <2>2. CASE Restart
    <3>1. CallsOK'
      BY <2>2 DEF Restart, threads, Control, CallsOK, RouteOK, UpOK, DeadOK
    <3>2. RouteOK'
      BY <2>2 DEF Restart, threads, Control, CallsOK, RouteOK, UpOK, DeadOK
    <3>3. UpOK'
      BY <2>2 DEF Restart, threads, Control, CallsOK, RouteOK, UpOK, DeadOK
    <3>4. DeadOK'
      BY <2>2 DEF Restart, threads, Control, CallsOK, RouteOK, UpOK, DeadOK
    <3>5. QED
      BY <1>1, <3>1, <3>2, <3>3, <3>4 DEF Control
  <2>3. CASE Enable \/ Disable \/ VerifyEnds \/ StreamDies
    <3>1. CallsOK'
      <4>1. ~verifying /\ verifying' \in {verifying, FALSE}
        BY <2>3 DEF Enable, Disable, VerifyEnds, StreamDies, Call, threads, Tame, Control, CallsOK
      <4>2. calls' \subseteq calls \cup {"enable"} /\ sync' = sync
        BY <2>3 DEF Enable, Disable, VerifyEnds, StreamDies, Call, threads, Tame
      <4>3. ~verifying'
        BY <4>1, Zenon
      <4>4. QED
        BY <4>2, <4>3 DEF Control, CallsOK
    <3>2. RouteOK'
      BY <2>3 DEF Enable, Disable, VerifyEnds, StreamDies, Call, threads, Tame, Control, CallsOK, RouteOK, UpOK, DeadOK
    <3>3. UpOK'
      BY <2>3 DEF Enable, Disable, VerifyEnds, StreamDies, Call, threads, Tame, Control, CallsOK, RouteOK, UpOK, DeadOK
    <3>4. DeadOK'
      BY <2>3 DEF Enable, Disable, VerifyEnds, StreamDies, Call, threads, Tame, Control, CallsOK, RouteOK, UpOK, DeadOK
    <3>5. QED
      BY <1>1, <3>1, <3>2, <3>3, <3>4 DEF Control
  <2>4. CASE ListenEnds \/ Release \/ (\E who \in ending : PopRoute(who))
    <3>1. CallsOK'
      <4>1. ~verifying /\ verifying' \in {verifying, FALSE}
        BY <2>4 DEF ListenEnds, Release, PopRoute, threads, Control, CallsOK
      <4>2. calls' \subseteq calls \cup {"enable"} /\ sync' = sync
        BY <2>4 DEF ListenEnds, Release, PopRoute, threads
      <4>3. ~verifying'
        BY <4>1, Zenon
      <4>4. QED
        BY <4>2, <4>3 DEF Control, CallsOK
    <3>2. RouteOK'
      BY <2>4 DEF ListenEnds, Release, PopRoute, threads, Control, CallsOK, RouteOK, UpOK, DeadOK
    <3>3. UpOK'
      BY <2>4 DEF ListenEnds, Release, PopRoute, threads, Control, CallsOK, RouteOK, UpOK, DeadOK
    <3>4. DeadOK'
      BY <2>4 DEF ListenEnds, Release, PopRoute, threads, Control, CallsOK, RouteOK, UpOK, DeadOK
    <3>5. QED
      BY <1>1, <3>1, <3>2, <3>3, <3>4 DEF Control
  <2>5. QED
    BY <1>8, <2>1, <2>2, <2>3, <2>4 DEF ServiceStep, AskBlind, Tame
<1>9. QED
  BY <1>3, <1>4, <1>5, <1>6, <1>7, <1>8 DEF Next, WorkerStep, Tame

-----------------------------------------------------------------------------
(* What was read, and what is still to come.                                *)

\* The changes that touched a card.
Touch(c) == {i \in DOMAIN log : c \in log[i].cards /\ log[i].kind # "field"}
LastTouch(i, c) == i \in Touch(c) /\ \A j \in Touch(c) : j <= i
\* What was read for a revision that no touch is younger than is on the board.
Fresh(c, v, rev) == (\A i \in Touch(c) : Revision(i) <= rev) => v = board[c]

\* So it is of every snapshot, and of every read that is still to be saved.
SnapOK == \A c \in Card : /\ snap[c].rev <= Revision(Len(log))
                          /\ snap[c].rev = 0 <=> snap[c].c = None
                          /\ snap[c].rev # 0 => Fresh(c, snap[c].c, snap[c].rev)
ConsumerOK == /\ consumer.pc # "work" => consumer.read = {}
              /\ \A c \in consumer.read : Fresh(c, consumer.got[c], Revision(consumer.e))
SyncOK == /\ sync.pc \in {"list", "save"} => sync.rev \in 1..Revision(Len(log))
          /\ sync.pc = "save" => \A c \in sync.read : Fresh(c, sync.got[c], sync.rev)
\* A card is missing before it is written and after it is deleted.
BoardOK == /\ \A c \in Card : board[c] = None <=> Touch(c) = {} \/ Deleted(c)
           /\ \A i \in DOMAIN log : log[i].kind \in Kinds
Data == SnapOK /\ ConsumerOK /\ SyncOK /\ BoardOK

\* The event of change i is still to save card c.
Underway(i, c) == \/ i \in wire /\ inbox[i] = "absent"
                  \/ inbox[i] \in Due \cup {"failed"}
                  \/ consumer.pc = "lookup" /\ consumer.e = i
                  \/ /\ consumer.pc = "work" /\ consumer.e = i
                     /\ c \in consumer.todo \cup consumer.read
\* The route to come is preceded by a reconciliation that sees change i.
Rereads(i) == /\ ~route
              /\ \/ sync.pc \in {"none", "revision"}
                 \/ sync.pc = "list" /\ Revision(i) <= sync.rev
\* A reconciliation that saw change i is still to save card c.
Listed(i, c) == sync.pc = "save" /\ c \in sync.read /\ Revision(i) <= sync.rev
\* The card was deleted, its snapshot too, and no read of it is under way.
Gone(c) == /\ snap[c].c = None /\ board[c] = None
           /\ c \in consumer.read => consumer.got[c] = None
           /\ sync.pc = "save" /\ c \in sync.read => sync.got[c] = None
Covered(i, c) == \/ snap[c].rev >= Revision(i)
                 \/ Underway(i, c) \/ Rereads(i) \/ Listed(i, c)
                 \/ stream # "on" \/ Gone(c)
CoverOK == \A c \in Card : \A i \in DOMAIN log : LastTouch(i, c) => Covered(i, c)

\* The event that the consumer works on is marked so in the inbox, and the cards
\* that it is still to read are of this event.
ClaimOK == /\ ~up => consumer.pc = "none"
           /\ consumer.pc \in {"lookup", "work"} => inbox[consumer.e] = "processing"
           /\ consumer.pc = "work" => consumer.todo \subseteq log[consumer.e].cards

CInv == IInv /\ Control /\ ClaimOK /\ Data /\ CoverOK

\* Without a change of the board the touches are the same.
LEMMA SameTouch ==
  ASSUME UNCHANGED <<board, log>>
  PROVE  \A c : /\ Touch(c)' = Touch(c) /\ Deleted(c)' = Deleted(c)
                /\ \A i : LastTouch(i, c)' = LastTouch(i, c)
                /\ \A v, rev : Fresh(c, v, rev)' = Fresh(c, v, rev)
BY DEF Touch, Deleted, LastTouch, Fresh

\* A step that leaves the board and the snapshots alone, and every read that is
\* still to be saved, keeps what was read.
LEMMA DataFrame ==
  ASSUME CInv, UNCHANGED <<board, log, snap>>,
         consumer' = consumer \/ consumer'.read = {},
         sync' = sync \/ sync'.pc \notin {"list", "save"}
  PROVE  Data'
<1>1. BoardOK'
  BY SameTouch DEF CInv, Data, BoardOK
<1>2. SnapOK'
  <2>1. \A c \in Card : Fresh(c, snap[c].c, snap[c].rev)' = Fresh(c, snap[c].c, snap[c].rev)
    BY DEF Fresh, Touch
  <2>2. QED
    BY <2>1 DEF CInv, Data, SnapOK
<1>3. ConsumerOK'
  BY SameTouch DEF CInv, Data, ConsumerOK
<1>4. SyncOK'
  BY SameTouch DEF CInv, Data, SyncOK
<1>5. QED
  BY <1>1, <1>2, <1>3, <1>4 DEF Data

\* Such a step keeps every card covered if it keeps each cover.
LEMMA CoverFrame ==
  ASSUME CInv, UNCHANGED <<board, log>>,
         \A c \in Card : \A i \in DOMAIN log :
           LastTouch(i, c) /\ Covered(i, c) => Covered(i, c)'
  PROVE  CoverOK'
BY SameTouch DEF CInv, CoverOK

\* A step that changes nothing of all this.
LEMMA SameCover ==
  ASSUME CInv, UNCHANGED <<board, log, wire, inbox, snap, consumer, sync, route, stream>>
  PROVE  Data' /\ CoverOK'
<1>1. \A c \in Card : \A i \in DOMAIN log : Covered(i, c) => Covered(i, c)'
  BY DEF Covered, Underway, Rereads, Listed, Gone
<1>2. QED
  BY <1>1, DataFrame, CoverFrame

\* Somebody changes the board: what becomes of the cards of the change.
Edited(cs, kind) ==
  /\ Change(cs, kind)
  /\ \A c \in Card : c \notin cs => board'[c] = board[c]
  /\ \/ kind = "edit" /\ \A c \in cs : ~Deleted(c) /\ board'[c] # None
     \/ kind = "delete" /\ \A c \in cs : board'[c] = None
     \/ kind = "field" /\ board' = board

\* People write cards, delete them, or change a field definition; nothing else
\* happens to the board.
LEMMA BoardEdited ==
  ASSUME CInv, BoardStep
  PROVE  \E kind \in Kinds, cs \in SUBSET Card : Edited(cs, kind)
<1>1. \A cs, kind : Change(cs, kind) => kind \in Kinds
  BY DEF Change
<1>2. ASSUME NEW cs \in SUBSET Card, NEW v \in Content, WriteCards(cs, v)
      PROVE  Edited(cs, "edit")
  BY <1>2, EventsAssumption DEF WriteCards, Edited, CInv, IInv, TypeOK
<1>3. ASSUME NEW c \in Card, DeleteCard(c)
      PROVE  Edited({c}, "delete") /\ {c} \in SUBSET Card
  BY <1>3 DEF DeleteCard, Edited, CInv, IInv, TypeOK
<1>4. ASSUME ChangeField
      PROVE  Edited(Card, "field")
  BY <1>4 DEF ChangeField, Edited
<1>5. \A cs, kind : Edited(cs, kind) => kind \in Kinds
  BY <1>1 DEF Edited
<1>6. QED
  BY <1>2, <1>3, <1>4, <1>5 DEF BoardStep

\* A change keeps what was read fresh, and is itself under way.
LEMMA BoardCover ==
  ASSUME CInv, BoardStep
  PROVE  Data' /\ CoverOK'
<1> DEFINE n == Len(log) + 1
<1>1. PICK kind \in Kinds, cs \in SUBSET Card : Edited(cs, kind)
  BY BoardEdited
<1> DEFINE Hit(c) == c \in cs /\ kind # "field"
<1>2. /\ log' = Append(log, [cards |-> cs, kind |-> kind]) /\ n <= MaxRev
      /\ wire' = wire \cup {n} /\ UNCHANGED <<inbox, store, threads, service>>
      /\ Len(log) \in Nat /\ DOMAIN log = 1..Len(log)
      /\ log \in Seq([cards : SUBSET Card, kind : {"edit", "delete", "field"}])
  BY <1>1, EventsAssumption DEF Edited, Change, CInv, IInv, TypeOK
<1>3. /\ DOMAIN log' = 1..n /\ Len(log') = n /\ n \in Nat
      /\ log'[n] = [cards |-> cs, kind |-> kind]
      /\ \A i \in DOMAIN log : log'[i] = log[i] /\ i \in Nat /\ i < n
      /\ \A i \in 1..n : i \in DOMAIN log \/ i = n
  BY <1>2
<1>4. \A c \in Card : ~Hit(c) => board'[c] = board[c] /\ Touch(c)' = Touch(c)
  <2> SUFFICES ASSUME NEW c \in Card, ~Hit(c)
               PROVE  board'[c] = board[c] /\ Touch(c)' = Touch(c)
    OBVIOUS
  <2>1. board'[c] = board[c]
    BY <1>1 DEF Edited
  <2>2. ~(c \in log'[n].cards /\ log'[n].kind # "field")
    BY <1>3
  <2>3. Touch(c)' = {i \in 1..n : c \in log'[i].cards /\ log'[i].kind # "field"}
    BY <1>3 DEF Touch
  <2>4. \A i \in 1..n : i # n => i \in DOMAIN log /\ log'[i] = log[i]
    BY <1>3
  <2>5. DOMAIN log \subseteq 1..n
    BY <1>2
  <2>6. QED
    BY <1>3, <2>1, <2>2, <2>3, <2>4, <2>5 DEF Touch
<1>5. \A c \in Card : Hit(c) => Touch(c)' = Touch(c) \cup {n}
  BY <1>3 DEF Touch
<1>6. \A c \in Card : \A v, rev : rev \in 0..Revision(Len(log)) /\ Fresh(c, v, rev)
                                   => Fresh(c, v, rev)'
  <2> SUFFICES ASSUME NEW c \in Card, NEW v, NEW rev \in 0..Revision(Len(log)),
                      Fresh(c, v, rev)
               PROVE  Fresh(c, v, rev)'
    OBVIOUS
  <2>1. CASE Hit(c)
    <3>1. n \in Touch(c)' /\ ~(Revision(n) <= rev)
      BY <1>3, <1>5, <2>1 DEF Revision
    <3>2. QED
      BY <3>1 DEF Fresh
  <2>2. CASE ~Hit(c)
    BY <1>4, <2>2 DEF Fresh
  <2>3. QED
    BY <2>1, <2>2
<1> HIDE DEF Hit
<1>7. SnapOK'
  <2> SUFFICES ASSUME NEW c \in Card
               PROVE  /\ snap[c].rev <= Revision(Len(log'))
                      /\ snap[c].rev = 0 <=> snap[c].c = None
                      /\ snap[c].rev # 0 => Fresh(c, snap[c].c, snap[c].rev)'
    BY <1>2 DEF store, SnapOK
  <2>1. snap[c].rev \in 0..Revision(Len(log))
    BY EventsAssumption DEF CInv, Data, SnapOK, IInv, TypeOK, Revision
  <2>2. snap[c].rev # 0 => Fresh(c, snap[c].c, snap[c].rev)'
    BY <1>2, <1>6, <2>1 DEF CInv, Data, SnapOK, store
  <2>3. snap[c].rev <= Revision(Len(log'))
    BY <1>3, <2>1 DEF Revision
  <2>4. QED
    BY <2>2, <2>3 DEF CInv, Data, SnapOK
<1>8. ConsumerOK'
  <2>1. consumer' = consumer
    BY <1>2 DEF threads
  <2>2. consumer.read # {} => Revision(consumer.e) \in 0..Revision(Len(log))
    BY <1>2 DEF CInv, Data, ConsumerOK, IInv, JobOK, Revision
  <2>3. ASSUME NEW c \in consumer.read
        PROVE  Fresh(c, consumer.got[c], Revision(consumer.e))'
    <3>1. c \in Card /\ Fresh(c, consumer.got[c], Revision(consumer.e))
      BY DEF CInv, Data, ConsumerOK, IInv, TypeOK
    <3>2. \A v, rev : rev \in 0..Revision(Len(log)) /\ Fresh(c, v, rev) => Fresh(c, v, rev)'
      BY <1>6, <3>1
    <3>3. QED
      BY <2>1, <2>2, <3>1, <3>2
  <2>4. QED
    BY <2>1, <2>3 DEF CInv, Data, ConsumerOK
<1>9. SyncOK'
  <2>1. sync' = sync
    BY <1>2 DEF threads
  <2>2. sync.pc \in {"list", "save"} => /\ sync.rev \in 0..Revision(Len(log))
                                         /\ sync.rev \in 1..Revision(Len(log'))
    BY <1>2, <1>3 DEF CInv, Data, SyncOK, Revision
  <2>3. ASSUME NEW c \in sync.read, sync.pc = "save"
        PROVE  Fresh(c, sync.got[c], sync.rev)'
    <3>1. c \in Card /\ Fresh(c, sync.got[c], sync.rev)
      BY <2>3 DEF CInv, Data, SyncOK, IInv, TypeOK
    <3>2. \A v, rev : rev \in 0..Revision(Len(log)) /\ Fresh(c, v, rev) => Fresh(c, v, rev)'
      BY <1>6, <3>1
    <3>3. QED
      BY <2>1, <2>2, <2>3, <3>1, <3>2
  <2>4. QED
    BY <2>1, <2>2, <2>3 DEF CInv, Data, SyncOK
<1>10. BoardOK'
  <2>1. \A i \in DOMAIN log' : log'[i].kind \in Kinds
    BY <1>3 DEF CInv, Data, BoardOK
  <2>2. \A c \in Card : Deleted(c)' <=> Deleted(c) \/ (kind = "delete" /\ c \in cs)
    <3> TAKE c \in Card
    <3>1. Deleted(c)' <=> \E i \in 1..n : log'[i].kind = "delete" /\ c \in log'[i].cards
      BY <1>3 DEF Deleted
    <3>2. n \in 1..n /\ log'[n].kind = kind /\ log'[n].cards = cs
      BY <1>3
    <3>3. \A i \in DOMAIN log : i \in 1..n /\ log'[i] = log[i]
      BY <1>3
    <3>4. QED
      BY <1>3, <3>1, <3>2, <3>3 DEF Deleted
  <2>3. ASSUME NEW c \in Card
        PROVE  board'[c] = None <=> Touch(c)' = {} \/ Deleted(c)'
    <3>1. board[c] = None <=> Touch(c) = {} \/ Deleted(c)
      BY DEF CInv, Data, BoardOK
    <3>2. CASE Hit(c)
      <4>1. c \in cs /\ kind # "field" /\ Touch(c)' # {}
        BY <1>5, <3>2 DEF Hit
      <4>2. QED
        BY <1>1, <2>2, <4>1 DEF Edited
    <3>3. CASE ~Hit(c)
      BY <1>4, <2>2, <3>1, <3>3 DEF Hit
    <3>4. QED
      BY <3>2, <3>3
  <2>4. QED
    BY <2>1, <2>3 DEF BoardOK
<1>11. CoverOK'
  <2> SUFFICES ASSUME NEW c \in Card, NEW i \in DOMAIN log', LastTouch(i, c)'
               PROVE  Covered(i, c)'
    BY DEF CoverOK
  <2>1. CASE Hit(c)
    <3>1. i = n
      BY <1>3, <1>5, <2>1 DEF LastTouch
    <3>2. n \in Rev /\ inbox[n] = "absent"
      BY <1>2 DEF CInv, IInv, InboxOK, Rev
    <3>3. i \in wire' /\ inbox'[i] = "absent"
      BY <1>2, <3>1, <3>2
    <3>4. QED
      BY <3>3 DEF Covered, Underway
  <2>2. CASE ~Hit(c)
    <3>1. i \in DOMAIN log /\ LastTouch(i, c)
      BY <1>4, <2>2 DEF LastTouch, Touch
    <3>2. Covered(i, c)
      BY <3>1 DEF CInv, CoverOK
    <3>3. board'[c] = board[c] /\ wire \subseteq wire'
          /\ UNCHANGED <<inbox, snap, consumer, sync, route, stream>>
      BY <1>2, <1>4, <2>2 DEF store, threads, service
    <3>4. QED
      BY <3>2, <3>3 DEF Covered, Underway, Rereads, Listed, Gone
  <2>3. QED
    BY <2>1, <2>2
<1>12. QED
  BY <1>7, <1>8, <1>9, <1>10, <1>11 DEF Data

\* save_task_snapshot under a revision: it is older than the snapshot and
\* changes nothing, or its revision is the snapshot's, or the snapshot is gone.
LEMMA SaveCases ==
  ASSUME IInv, SnapOK, NEW c \in Card, NEW after \in Shown,
         NEW rev \in 1..Revision(MaxRev), SaveTaskSnapshot(c, after, rev)
  PROVE  /\ \/ rev < snap[c].rev /\ snap'[c] = snap[c]
            \/ rev >= snap[c].rev /\ after # None /\ snap'[c] = [c |-> after, rev |-> rev]
            \/ rev >= snap[c].rev /\ after = None /\ snap'[c] = NoSnap
         /\ \A d \in Card : d # c => snap'[d] = snap[d]
         /\ snap' \in [Card -> [c : Shown, rev : 0..Revision(MaxRev)]]
<1>1. /\ rev \in 0..Revision(MaxRev) /\ rev \in Nat /\ rev # 0
      /\ snap \in [Card -> [c : Shown, rev : 0..Revision(MaxRev)]]
      /\ snap[c].rev \in Nat
  BY EventsAssumption DEF IInv, TypeOK, Revision
<1>2. snap[c].rev = 0 <=> snap[c].c = None
  BY DEF SnapOK
<1>3. CASE Saved(c, after, rev)
  <2>1. snap' = [snap EXCEPT ![c] = IF after = None THEN NoSnap ELSE [c |-> after, rev |-> rev]]
    BY <1>3 DEF SaveTaskSnapshot
  <2>2. rev >= snap[c].rev
    BY <1>1, <1>3 DEF Saved, Older
  <2>3. QED
    BY <1>1, <2>1, <2>2, SaveEffect DEF IInv
<1>4. CASE ~Saved(c, after, rev) /\ Older(rev, snap[c])
  BY <1>1, <1>4, SaveEffect DEF SaveTaskSnapshot, Older, IInv
<1>5. CASE ~Saved(c, after, rev) /\ ~Older(rev, snap[c])
  <2>1. snap[c].c = after /\ rev >= snap[c].rev
    BY <1>1, <1>5 DEF Saved, Older
  <2>2. CASE after = None
    <3>1. snap' = snap /\ snap[c] = NoSnap
      BY <1>1, <1>2, <1>5, <2>1, <2>2 DEF SaveTaskSnapshot, NoSnap
    <3>2. QED
      BY <1>1, <2>1, <2>2, <3>1
  <2>3. CASE after # None
    <3>1. snap' = [snap EXCEPT ![c].rev = rev]
      BY <1>1, <1>5, <2>3 DEF SaveTaskSnapshot
    <3>2. snap'[c] = [c |-> after, rev |-> rev]
      BY <1>1, <2>1, <3>1
    <3>3. QED
      BY <1>1, <2>1, <2>3, <3>2, SaveEffect DEF IInv
  <2>4. QED
    BY <2>2, <2>3
<1>6. QED
  BY <1>3, <1>4, <1>5

\* A save of what is fresh keeps the snapshots fresh; it covers the last touch
\* that its revision is not older than, and takes no cover away, unless the card
\* is gone from the board.
LEMMA SaveFresh ==
  ASSUME CInv, NEW c \in Card, NEW after \in Shown, NEW rev \in 1..Revision(Len(log)),
         Fresh(c, after, rev), SaveTaskSnapshot(c, after, rev), UNCHANGED <<board, log>>
  PROVE  /\ SnapOK'
         /\ \A i \in DOMAIN log :
              LastTouch(i, c) /\ (Revision(i) <= rev \/ Revision(i) <= snap[c].rev)
              => \/ snap'[c].rev >= Revision(i)
                 \/ after = None /\ snap'[c].c = None /\ board[c] = None
         /\ after = None /\ snap[c].c = None => snap'[c].c = None
         /\ \A d \in Card : d # c => snap'[d] = snap[d]
<1>1. /\ rev \in 1..Revision(MaxRev) /\ rev \in Nat /\ Len(log) \in Nat
      /\ Revision(Len(log)) \in Nat
  BY EventsAssumption DEF CInv, IInv, TypeOK, Revision
<1>2. /\ \/ rev < snap[c].rev /\ snap'[c] = snap[c]
         \/ rev >= snap[c].rev /\ after # None /\ snap'[c] = [c |-> after, rev |-> rev]
         \/ rev >= snap[c].rev /\ after = None /\ snap'[c] = NoSnap
      /\ \A d \in Card : d # c => snap'[d] = snap[d]
  BY <1>1, SaveCases DEF CInv, Data
<1>3. /\ snap[c].rev \in Nat /\ snap[c].rev <= Revision(Len(log))
      /\ snap[c].rev = 0 <=> snap[c].c = None
      /\ snap[c].rev # 0 => Fresh(c, snap[c].c, snap[c].rev)
  BY EventsAssumption DEF CInv, Data, SnapOK, IInv, TypeOK, Revision
<1>4. SnapOK'
  <2>1. /\ snap'[c].rev <= Revision(Len(log))
        /\ snap'[c].rev = 0 <=> snap'[c].c = None
        /\ snap'[c].rev # 0 => Fresh(c, snap'[c].c, snap'[c].rev)
    <3>1. CASE snap'[c] = snap[c]
      BY <1>3, <3>1
    <3>2. CASE after # None /\ snap'[c] = [c |-> after, rev |-> rev]
      BY <1>1, <3>2
    <3>3. CASE snap'[c] = NoSnap
      BY <1>1, <3>3 DEF NoSnap
    <3>4. QED
      BY <1>2, <3>1, <3>2, <3>3
  <2>2. \A d \in Card : /\ snap'[d].rev <= Revision(Len(log))
                        /\ snap'[d].rev = 0 <=> snap'[d].c = None
                        /\ snap'[d].rev # 0 => Fresh(d, snap'[d].c, snap'[d].rev)
    BY <1>2, <2>1 DEF CInv, Data, SnapOK
  <2>3. \A d \in Card : Fresh(d, snap[d].c, snap[d].rev)' <=> Fresh(d, snap'[d].c, snap'[d].rev)
    BY DEF Fresh, Touch
  <2>4. QED
    BY <2>2, <2>3 DEF SnapOK
<1>5. ASSUME NEW i \in DOMAIN log, LastTouch(i, c),
             Revision(i) <= rev \/ Revision(i) <= snap[c].rev
      PROVE  \/ snap'[c].rev >= Revision(i)
             \/ after = None /\ snap'[c].c = None /\ board[c] = None
  <2>1. i \in Nat /\ Revision(i) \in Nat /\ Touch(c) \subseteq Nat
    BY DEF CInv, IInv, TypeOK, Revision, Touch
  <2>2. CASE snap'[c] = NoSnap /\ after = None /\ rev >= snap[c].rev
    <3>1. Revision(i) <= rev
      BY <1>1, <1>3, <1>5, <2>1, <2>2
    <3>2. \A j \in Touch(c) : Revision(j) <= rev
      BY <1>1, <1>5, <2>1, <3>1 DEF LastTouch, Revision
    <3>3. board[c] = None
      BY <2>2, <3>2 DEF Fresh
    <3>4. QED
      BY <2>2, <3>3 DEF NoSnap
  <2>3. CASE ~(snap'[c] = NoSnap /\ after = None /\ rev >= snap[c].rev)
    BY <1>1, <1>2, <1>3, <1>5, <2>1, <2>3
  <2>4. QED
    BY <2>2, <2>3
<1>6. after = None /\ snap[c].c = None => snap'[c].c = None
  BY <1>2 DEF NoSnap
<1>7. QED
  BY <1>2, <1>4, <1>5, <1>6

\* A card that was touched and is not on the board was deleted; where boards
\* lose cards, a read by the consumer and a reconciliation exclude each other.
LEMMA Apart ==
  ASSUME Tame, CInv, NEW c \in Card, NEW i \in Touch(c), board[c] = None
  PROVE  ~(consumer.pc = "work" /\ sync.pc = "save")
<1>1. Deleted(c)
  BY DEF CInv, Data, BoardOK
<1>2. "delete" \in Kinds
  BY <1>1 DEF Deleted, CInv, Data, BoardOK
<1>3. QED
  BY <1>2 DEF Tame, CInv, Control, UpOK, RouteOK

-----------------------------------------------------------------------------
(* The steps.                                                               *)

\* A push puts the event into the inbox; only without a stream is it lost.
LEMMA LarkCover ==
  ASSUME CInv, LarkStep
  PROVE  Data' /\ CoverOK'
<1>1. PICK e \in wire : Lose(e) \/ \E again \in BOOLEAN : Push(e, again)
  BY DEF LarkStep
<1>2. UNCHANGED <<board, log, snap, consumer, sync, route, stream>> /\ e \in Rev
  BY <1>1, EventsAssumption DEF Lose, Push, lark, store, threads, service, CInv, IInv, TypeOK, Rev
<1>3. ASSUME NEW c \in Card, NEW i \in DOMAIN log, Covered(i, c)
      PROVE  Covered(i, c)'
  <2>1. CASE ~Underway(i, c)
    BY <1>2, <1>3, <2>1 DEF Covered, Rereads, Listed, Gone
  <2>2. CASE Lose(e)
    BY <1>2, <2>2 DEF Lose, Covered
  <2>3. CASE Underway(i, c) /\ \E again \in BOOLEAN : Push(e, again)
    <3>1. /\ inbox' = [inbox EXCEPT ![e] = IF @ = "absent" THEN "pending" ELSE @]
          /\ wire' = wire \/ wire' = wire \ {e}
          /\ inbox \in [Rev -> InboxStatus]
      BY <2>3 DEF Push, CInv, IInv, TypeOK
    <3>2. i \in Rev
      BY EventsAssumption DEF CInv, IInv, TypeOK, Rev
    <3>3. Underway(i, c)'
      BY <1>2, <2>3, <3>1, <3>2 DEF Underway, Due
    <3>4. QED
      BY <3>3 DEF Covered
  <2>4. QED
    BY <1>1, <2>1, <2>2, <2>3
<1>4. Data'
  BY <1>2, DataFrame
<1>5. QED
  BY <1>2, <1>3, <1>4, CoverFrame

\* The consumer claims an event, looks the route up, fails or finishes.
LEMMA ConsumerCover ==
  ASSUME CInv, \/ \E e \in Rev : Claim(e)
               \/ Lookup \/ ReadFails \/ FinishEvent \/ ConsumePrepare \/ ConsumeCatchup
  PROVE  Data' /\ CoverOK'
<1>1. UNCHANGED <<board, log, wire, snap, sync, route, stream>>
  BY DEF Claim, Lookup, ReadFails, FinishEvent, ConsumePrepare, ConsumeCatchup, lark, store,
         service, PrepareTaskDeliveries, PrepareCatchup
<1>2. /\ consumer \in JobType /\ NoJob \in JobType /\ NoJob.pc = "none" /\ NoJob.read = {}
      /\ inbox \in [Rev -> InboxStatus] /\ DOMAIN log \subseteq Rev
      /\ consumer.pc # "work" => consumer.read = {}
      /\ consumer.pc \in {"lookup", "work"} => consumer.e \in Rev
  <2>1. DOMAIN log \subseteq Rev /\ DOMAIN log = 1..Len(log)
    BY EventsAssumption DEF CInv, IInv, TypeOK, Rev
  <2>2. NoJob.read = {}
    BY DEF NoJob
  <2>3. QED
    BY <2>1, <2>2, JobTyped DEF CInv, Data, ConsumerOK, IInv, TypeOK, JobOK, JobType
<1>3. ASSUME consumer'.read = {},
             \A c \in Card : \A i \in DOMAIN log : LastTouch(i, c) /\ Underway(i, c) => Covered(i, c)'
      PROVE  Data' /\ CoverOK'
  <2>1. \A c \in Card : \A i \in DOMAIN log : LastTouch(i, c) /\ Covered(i, c) => Covered(i, c)'
    BY <1>1, <1>3 DEF Covered, Rereads, Listed, Gone
  <2>2. QED
    BY <1>1, <1>3, <2>1, DataFrame, CoverFrame
<1>4. ASSUME NEW e \in Rev, Claim(e)
      PROVE  Data' /\ CoverOK'
  <2>1. /\ consumer.pc = "none" /\ consumer' = [NoJob EXCEPT !.pc = "lookup", !.e = e]
        /\ inbox' = [inbox EXCEPT ![e] = "processing"]
    BY <1>4 DEF Claim
  <2>2. consumer'.read = {} /\ consumer'.pc = "lookup" /\ consumer'.e = e
    BY <1>2, <2>1 DEF JobType
  <2>3. \A c \in Card : \A i \in DOMAIN log : Underway(i, c) => Underway(i, c)'
    BY <1>1, <1>2, <2>1, <2>2 DEF Underway
  <2>4. QED
    BY <1>3, <2>2, <2>3 DEF Covered
<1>5. ASSUME Retry(consumer.e), consumer.pc \in {"lookup", "work"}
      PROVE  Data' /\ CoverOK'
  <2>1. /\ consumer' = NoJob
        /\ \E st \in {"retry", "failed"} : inbox' = [inbox EXCEPT ![consumer.e] = st]
    BY <1>5 DEF Retry, DropJob
  <2>2. \A c \in Card : \A i \in DOMAIN log : Underway(i, c) => Underway(i, c)'
    BY <1>1, <1>2, <1>5, <2>1 DEF Underway, Due
  <2>3. QED
    BY <1>2, <1>3, <2>1, <2>2 DEF Covered
<1>6. CASE Lookup
  <2>1. consumer.pc = "lookup" /\ sync.pc = "none"
    BY <1>6 DEF Lookup
  <2>2. CASE ~route
    <3>1. consumer' = NoJob
      BY <1>6, <2>2 DEF Lookup, DropJob
    <3>2. \A i : Rereads(i)'
      BY <1>1, <2>1, <2>2 DEF Rereads
    <3>3. QED
      BY <1>2, <1>3, <3>1, <3>2 DEF Covered
  <2>3. CASE route /\ verifying
    BY <1>5, <1>6, <2>1, <2>3 DEF Lookup
  <2>4. CASE route /\ ~verifying
    <3>1. /\ consumer' = [consumer EXCEPT !.pc = "work", !.todo = log[consumer.e].cards]
          /\ UNCHANGED inbox
      BY <1>6, <2>4 DEF Lookup
    <3>2. /\ consumer'.read = {} /\ consumer'.pc = "work" /\ consumer'.e = consumer.e
          /\ consumer'.todo = log[consumer.e].cards
      BY <1>2, <2>1, <3>1 DEF JobType
    <3>3. \A c \in Card : \A i \in DOMAIN log : LastTouch(i, c) /\ Underway(i, c) => Underway(i, c)'
      BY <1>1, <2>1, <3>1, <3>2 DEF Underway, LastTouch, Touch
    <3>4. QED
      BY <1>3, <3>2, <3>3 DEF Covered
  <2>5. QED
    BY <2>2, <2>3, <2>4
<1>7. CASE ReadFails
  BY <1>5, <1>7 DEF ReadFails
<1>8. CASE FinishEvent
  <2>1. /\ consumer.pc = "work" /\ consumer.read = {} /\ consumer.todo = {}
        /\ inbox' = [inbox EXCEPT ![consumer.e] = "processed"]
        /\ consumer'.read = {}
    BY <1>2, <1>8 DEF FinishEvent, JobType
  <2>2. ASSUME NEW c \in Card, NEW i \in DOMAIN log, LastTouch(i, c), Underway(i, c)
        PROVE  Covered(i, c)'
    <3>1. CASE i # consumer.e
      <4>1. Underway(i, c)'
        BY <1>1, <1>2, <2>1, <2>2, <3>1 DEF Underway
      <4>2. QED
        BY <4>1 DEF Covered
    <3>2. CASE i = consumer.e
      BY <2>1, <2>2, <3>2 DEF Underway, Due, CInv, ClaimOK
    <3>3. QED
      BY <3>1, <3>2
  <2>3. QED
    BY <1>3, <2>1, <2>2
<1>9. CASE ConsumePrepare \/ ConsumeCatchup
  <2>1. /\ consumer.pc \in {"prepare", "catchup"} /\ UNCHANGED inbox
        /\ consumer' = NoJob \/ consumer' = [consumer EXCEPT !.pc = "catchup"]
    BY <1>9 DEF ConsumePrepare, ConsumeCatchup, DropJob
  <2>2. consumer'.read = {}
    BY <1>2, <2>1 DEF JobType
  <2>3. \A c \in Card : \A i \in DOMAIN log : Underway(i, c) => Underway(i, c)'
    BY <1>1, <2>1 DEF Underway
  <2>4. QED
    BY <1>3, <2>2, <2>3 DEF Covered
<1>10. QED
  BY <1>4, <1>6, <1>7, <1>8, <1>9

\* The consumer's claim is its own until it settles the event or stops.
LEMMA ClaimNext ==
  ASSUME Tame, IInv, ClaimOK, [Next]_vars
  PROVE  ClaimOK'
<1>1. /\ consumer \in JobType /\ NoJob \in JobType /\ NoJob.pc = "none"
      /\ inbox \in [Rev -> InboxStatus]
      /\ consumer.pc \in {"lookup", "work"} => consumer.e \in Rev /\ consumer.e \in 1..Len(log)
  <2>1. 1..Len(log) \subseteq Rev
    BY EventsAssumption DEF IInv, TypeOK, Rev
  <2>2. QED
    BY <2>1, JobTyped DEF IInv, TypeOK, JobOK, JobType
<1>2. CASE /\ UNCHANGED <<consumer, up>>
           /\ \A e \in Rev : inbox[e] = "processing" => inbox'[e] = "processing"
           /\ \A e \in 1..Len(log) : log'[e] = log[e]
  BY <1>1, <1>2 DEF ClaimOK
<1>3. CASE UNCHANGED vars
  BY <1>2, <1>3 DEF vars, threads, service, lark
<1>4. CASE BoardStep \/ LarkStep
  <2>1. UNCHANGED <<threads, service>>
    BY <1>4 DEF BoardStep, LarkStep, WriteCards, DeleteCard, ChangeField, Change, Push, Lose
  <2>0. \A e \in 1..Len(log) : log'[e] = log[e]
    <3>1. CASE LarkStep
      BY <3>1 DEF LarkStep, Push, Lose, lark
    <3>2. CASE BoardStep
      <4>1. \E x : log' = Append(log, x)
        BY <3>2 DEF BoardStep, WriteCards, DeleteCard, ChangeField, Change
      <4>2. QED
        BY <4>1 DEF IInv, TypeOK
    <3>3. QED
      BY <1>4, <3>1, <3>2
  <2>2. \A e \in Rev : inbox[e] = "processing" => inbox'[e] = "processing"
    <3>1. CASE BoardStep
      BY <3>1 DEF BoardStep, WriteCards, DeleteCard, ChangeField, Change
    <3>2. CASE LarkStep
      BY <1>1, <3>2 DEF LarkStep, Push, Lose
    <3>3. QED
      BY <1>4, <3>1, <3>2
  <2>3. QED
    BY <1>2, <2>0, <2>1, <2>2 DEF threads, service
<1>5. CASE SyncStep \/ AgentStep
  <2>1. UNCHANGED <<log, inbox, consumer, up>>
    <3>1. CASE AgentStep
      BY <3>1 DEF AgentStep, Register, UpdateAgent, Unregister, AgentChanged, threads, lark
    <3>2. CASE SyncStep
      BY <3>2 DEF SyncStep, SyncWork, SyncRevision, SyncList, SyncCommit, SyncRecover, SyncPrepare,
                  SyncCatchup, SyncSave, SyncFails, SyncBegin, ConnectFails, service, lark
    <3>3. QED
      BY <1>5, <3>1, <3>2
  <2>2. QED
    BY <1>2, <2>1
<1>6. CASE ServiceStep
  <2>1. CASE Crash \/ CheckWorkers
    BY <1>1, <2>1 DEF Crash, CheckWorkers, Stop, ClaimOK
  <2>2. CASE Restart
    BY <2>2 DEF Restart, ClaimOK, threads, lark
  <2>3. CASE ~(Crash \/ CheckWorkers \/ Restart)
    <3>1. UNCHANGED <<log, inbox, consumer, up>>
      BY <1>6, <2>3 DEF ServiceStep, Enable, Disable, VerifyEnds, ListenEnds, Release, StreamDies,
           PopRoute, AskBlind, threads, lark
    <3>2. QED
      BY <1>2, <3>1
  <2>4. QED
    BY <2>1, <2>2, <2>3
<1>7. CASE ConsumerStep
  <2>1. UNCHANGED <<up, log>>
    BY <1>7 DEF ConsumerStep, ConsumerWork, Lookup, FinishEvent, ConsumePrepare,
                ConsumeCatchup, ReadCard, SaveCard, ReadFails, Claim, service, lark
  <2>2. ASSUME NEW e \in Rev, Claim(e)
        PROVE  ClaimOK'
    BY <1>1, <2>1, <2>2 DEF Claim, ClaimOK, JobType
  <2>3. ASSUME consumer.pc # "none", consumer'.pc \notin {"lookup", "work"}
        PROVE  ClaimOK'
    BY <2>1, <2>3 DEF ClaimOK
  <2>4. ASSUME consumer.pc \in {"lookup", "work"}, consumer'.e = consumer.e, UNCHANGED inbox,
               consumer'.pc = "work" => \/ consumer'.todo = log[consumer.e].cards
                                        \/ consumer.pc = "work" /\ consumer'.todo \subseteq consumer.todo
        PROVE  ClaimOK'
    BY <2>1, <2>4 DEF ClaimOK
  <2>5. CASE Lookup
    BY <1>1, <2>3, <2>4, <2>5 DEF Lookup, Retry, DropJob, JobType
  <2>6. CASE FinishEvent \/ ReadFails \/ ConsumeCatchup
    BY <1>1, <2>3, <2>6 DEF FinishEvent, ReadFails, ConsumeCatchup, Retry, DropJob, JobType
  <2>7. CASE ConsumePrepare
    <3>1. consumer.pc = "prepare" /\ (consumer' = NoJob \/ consumer' = [consumer EXCEPT !.pc = "catchup"])
      BY <2>7 DEF ConsumePrepare, DropJob
    <3>2. QED
      BY <1>1, <2>3, <3>1 DEF JobType
  <2>8. ASSUME NEW c \in Card, ReadCard(c) \/ SaveCard(c)
        PROVE  ClaimOK'
    <3>1. consumer'.e = consumer.e /\ consumer'.todo \subseteq consumer.todo
      <4>1. CASE ReadCard(c) /\ Kind = "field"
        <5>1. consumer' = [consumer EXCEPT !.todo = {}, !.read = Card, !.got = board]
          BY <4>1 DEF ReadCard
        <5>2. QED
          BY <1>1, <5>1 DEF JobType
      <4>2. CASE ReadCard(c) /\ Kind # "field"
        <5>1. \E x : consumer' = [consumer EXCEPT !.todo = @ \ {c}, !.read = {c}, !.got[c] = x]
          BY <4>2 DEF ReadCard
        <5>2. QED
          BY <1>1, <5>1 DEF JobType
      <4>3. CASE SaveCard(c)
        <5>1. consumer' = [consumer EXCEPT !.read = @ \ {c}, !.got[c] = None]
          BY <4>3 DEF SaveCard
        <5>2. QED
          BY <1>1, <5>1 DEF JobType
      <4>4. QED
        BY <2>8, <4>1, <4>2, <4>3
    <3>2. QED
      BY <2>4, <2>8, <3>1 DEF ReadCard, SaveCard
  <2>9. QED
    BY <1>7, <2>2, <2>5, <2>6, <2>7, <2>8 DEF ConsumerStep, ConsumerWork
<1>8. QED
  BY <1>3, <1>4, <1>5, <1>6, <1>7 DEF Next, WorkerStep, Tame

\* A read of a card by the consumer is of the board as it is.
LEMMA ReadCover ==
  ASSUME Tame, CInv, NEW c \in Card, ReadCard(c)
  PROVE  Data' /\ CoverOK'
<1>1. UNCHANGED <<board, log, wire, inbox, snap, sync, route, stream>>
  BY DEF ReadCard, lark, store, service
<1>2. /\ consumer \in JobType /\ consumer.pc = "work" /\ consumer.read = {} /\ c \in consumer.todo
      /\ consumer.e \in DOMAIN log /\ board \in [Card -> Shown]
  BY DEF ReadCard, CInv, IInv, TypeOK, JobOK, JobType
<1>3. /\ consumer'.pc = "work" /\ consumer'.e = consumer.e
      /\ \A d \in consumer'.read : d \in Card /\ consumer'.got[d] =
            IF Kind \in {"edit", "field"} THEN board[d] ELSE None
      /\ Kind # "field" => /\ consumer'.read = {c}
                           /\ consumer'.todo = consumer.todo \ {c}
  <2>1. CASE Kind = "field"
    <3>1. consumer' = [consumer EXCEPT !.todo = {}, !.read = Card, !.got = board]
      BY <2>1 DEF ReadCard
    <3>2. QED
      BY <1>2, <2>1, <3>1 DEF JobType
  <2>2. CASE Kind # "field"
    <3> DEFINE x == IF Kind = "edit" THEN board[c] ELSE None
    <3>1. consumer' = [consumer EXCEPT !.todo = @ \ {c}, !.read = {c}, !.got[c] = x]
      BY <2>2 DEF ReadCard
    <3>2. /\ consumer'.pc = "work" /\ consumer'.e = consumer.e /\ consumer'.read = {c}
          /\ consumer'.todo = consumer.todo \ {c} /\ consumer'.got[c] = x
      BY <1>2, <3>1 DEF JobType
    <3>3. QED
      BY <2>2, <3>2
  <2>3. QED
    BY <2>1, <2>2
<1>4. Kind \in {"edit", "delete", "field"}
  BY <1>2, EventsAssumption DEF Kind, CInv, Data, BoardOK
<1>5. \A d \in consumer'.read : consumer'.got[d] = board[d]
  <2>1. CASE Kind = "delete"
    <3>0. c \in log[consumer.e].cards
      BY <1>2 DEF CInv, ClaimOK
    <3>1. Deleted(c)
      BY <1>2, <2>1, <3>0 DEF Deleted, Kind
    <3>2. QED
      BY <1>3, <2>1, <3>1 DEF CInv, Data, BoardOK
  <2>2. CASE Kind # "delete"
    BY <1>3, <1>4, <2>2
  <2>3. QED
    BY <2>1, <2>2
<1>6. Data'
  <2>1. ConsumerOK'
    BY <1>1, <1>3, <1>5 DEF ConsumerOK, Fresh
  <2>2. BoardOK'
    BY <1>1, SameTouch DEF CInv, Data, BoardOK
  <2>3. SnapOK'
    <3>1. \A d \in Card : Fresh(d, snap[d].c, snap[d].rev)' = Fresh(d, snap[d].c, snap[d].rev)
      BY <1>1 DEF Fresh, Touch
    <3>2. QED
      BY <1>1, <3>1 DEF CInv, Data, SnapOK
  <2>4. SyncOK'
    BY <1>1, SameTouch DEF CInv, Data, SyncOK
  <2>5. QED
    BY <2>1, <2>2, <2>3, <2>4 DEF Data
<1>7. ASSUME NEW d \in Card, NEW i \in DOMAIN log, LastTouch(i, d), Covered(i, d)
      PROVE  Covered(i, d)'
  <2>1. CASE Underway(i, d)
    <3>1. CASE i = consumer.e
      <4>1. Kind # "field"
        BY <1>7, <3>1 DEF Kind, LastTouch, Touch
      <4>2. Underway(i, d)'
        BY <1>1, <1>2, <1>3, <2>1, <4>1 DEF Underway
      <4>3. QED
        BY <4>2 DEF Covered
    <3>2. CASE i # consumer.e
      <4>1. Underway(i, d)'
        BY <1>1, <2>1, <3>2 DEF Underway
      <4>2. QED
        BY <4>1 DEF Covered
    <3>3. QED
      BY <3>1, <3>2
  <2>2. CASE Gone(d)
    <3>1. Gone(d)'
      BY <1>1, <1>5, <2>2 DEF Gone
    <3>2. QED
      BY <3>1 DEF Covered
  <2>3. CASE ~Underway(i, d) /\ ~Gone(d)
    BY <1>1, <1>7, <2>3 DEF Covered, Rereads, Listed
  <2>4. QED
    BY <2>1, <2>2, <2>3
<1>8. QED
  BY <1>1, <1>6, <1>7, CoverFrame

\* A save by the consumer.
LEMMA SaveCardCover ==
  ASSUME Tame, CInv, NEW c \in Card, SaveCard(c)
  PROVE  Data' /\ CoverOK'
<1> DEFINE v == consumer.got[c]
           rev == Revision(consumer.e)
<1>1. UNCHANGED <<board, log, wire, inbox, sync, route, stream>>
  BY DEF SaveCard, lark, service
<1>2. /\ consumer \in JobType /\ consumer.pc = "work" /\ c \in consumer.read
      /\ v \in Shown /\ rev \in 1..Revision(Len(log)) /\ Fresh(c, v, rev)
      /\ SaveTaskSnapshot(c, v, rev)
  BY DEF SaveCard, CInv, IInv, TypeOK, JobOK, JobType, Data, ConsumerOK, Revision
<1>3. /\ consumer'.pc = "work" /\ consumer'.e = consumer.e /\ consumer'.todo = consumer.todo
      /\ consumer'.read = consumer.read \ {c}
      /\ \A d \in consumer'.read : consumer'.got[d] = consumer.got[d]
  <2>1. consumer' = [consumer EXCEPT !.read = @ \ {c}, !.got[c] = None]
    BY DEF SaveCard
  <2>2. QED
    BY <1>2, <2>1 DEF JobType
<1> HIDE DEF v, rev
<1>4. /\ SnapOK'
      /\ \A i \in DOMAIN log :
           LastTouch(i, c) /\ (Revision(i) <= rev \/ Revision(i) <= snap[c].rev)
           => \/ snap'[c].rev >= Revision(i)
              \/ v = None /\ snap'[c].c = None /\ board[c] = None
      /\ v = None /\ snap[c].c = None => snap'[c].c = None
      /\ \A d \in Card : d # c => snap'[d] = snap[d]
  BY <1>1, <1>2, SaveFresh
<1>5. Data'
  <2>1. BoardOK' /\ SyncOK'
    BY <1>1, SameTouch DEF CInv, Data, BoardOK, SyncOK
  <2>2. ConsumerOK'
    <3>1. \A d : Touch(d)' = Touch(d)
      BY <1>1, SameTouch
    <3>2. \A d \in consumer'.read : Fresh(d, consumer'.got[d], Revision(consumer'.e))
      BY <1>3 DEF CInv, Data, ConsumerOK
    <3>3. QED
      BY <1>1, <1>3, <3>1, <3>2 DEF ConsumerOK, Fresh
  <2>3. QED
    BY <1>4, <2>1, <2>2 DEF Data
<1>6. ASSUME NEW d \in Card, NEW i \in DOMAIN log, LastTouch(i, d), Covered(i, d)
      PROVE  Covered(i, d)'
  <2>0. Revision(i) \in Nat /\ rev \in Nat /\ snap[d].rev \in Nat /\ i \in Touch(d)
    BY <1>2, <1>6, EventsAssumption DEF CInv, IInv, TypeOK, Revision, LastTouch
  <2>1. CASE Rereads(i) \/ Listed(i, d) \/ stream # "on"
    BY <1>1, <2>1 DEF Covered, Rereads, Listed
  <2>2. CASE d # c
    <3>1. snap'[d] = snap[d]
      BY <1>4, <2>2
    <3>2. Underway(i, d) => Underway(i, d)'
      BY <1>1, <1>2, <1>3, <2>2 DEF Underway
    <3>3. Gone(d) => Gone(d)'
      BY <1>1, <1>3, <2>2, <3>1 DEF Gone
    <3>4. QED
      BY <1>6, <2>1, <3>1, <3>2, <3>3 DEF Covered
  <2>3. ASSUME d = c, v = None, snap'[c].c = None, board[c] = None
        PROVE  Covered(i, d)'
    <3>1. sync.pc # "save"
      BY <1>2, <2>0, <2>3, Apart
    <3>2. Gone(c)'
      BY <1>1, <1>3, <2>3, <3>1 DEF Gone
    <3>3. QED
      BY <2>3, <3>2 DEF Covered
  <2>4. CASE d = c /\ snap[c].rev >= Revision(i)
    <3>1. \/ snap'[c].rev >= Revision(i)
          \/ v = None /\ snap'[c].c = None /\ board[c] = None
      BY <1>4, <1>6, <2>0, <2>4
    <3>2. QED
      BY <2>3, <2>4, <3>1 DEF Covered
  <2>5. CASE d = c /\ Underway(i, d)
    <3>1. CASE consumer.e = i
      <4>1. Revision(i) <= rev
        BY <2>0, <3>1 DEF rev
      <4>2. \/ snap'[c].rev >= Revision(i)
            \/ v = None /\ snap'[c].c = None /\ board[c] = None
        BY <1>4, <1>6, <2>5, <4>1
      <4>3. QED
        BY <2>3, <2>5, <4>2 DEF Covered
    <3>2. CASE consumer.e # i
      <4>1. Underway(i, d)'
        BY <1>1, <1>3, <2>5, <3>2 DEF Underway
      <4>2. QED
        BY <4>1 DEF Covered
    <3>3. QED
      BY <3>1, <3>2
  <2>6. CASE d = c /\ Gone(d)
    <3>1. v = None /\ board[c] = None /\ snap'[c].c = None
      BY <1>2, <1>4, <2>6 DEF Gone, v
    <3>2. QED
      BY <2>3, <2>6, <3>1
  <2>7. QED
    BY <1>6, <2>1, <2>2, <2>4, <2>5, <2>6 DEF Covered
<1>7. QED
  BY <1>1, <1>5, <1>6, CoverFrame

\* A save by a reconciliation.
LEMMA SyncSaveCover ==
  ASSUME Tame, CInv, NEW c \in Card, SyncSave(c)
  PROVE  Data' /\ CoverOK'
<1> DEFINE v == sync.got[c]
<1>1. UNCHANGED <<board, log, wire, inbox, consumer, route, stream>>
  BY DEF SyncSave, lark, service
<1>2. /\ sync \in SyncType /\ sync.pc = "save" /\ c \in sync.read
      /\ v \in Shown /\ sync.rev \in 1..Revision(Len(log)) /\ Fresh(c, v, sync.rev)
      /\ SaveTaskSnapshot(c, v, sync.rev)
  BY DEF SyncSave, CInv, IInv, TypeOK, SyncType, Data, SyncOK
<1>3. /\ sync'.pc = "save" /\ sync'.rev = sync.rev
      /\ sync'.read = sync.read \ {c}
      /\ \A d \in sync'.read : sync'.got[d] = sync.got[d]
  <2>1. sync' = [sync EXCEPT !.read = @ \ {c}, !.got[c] = None]
    BY DEF SyncSave
  <2>2. QED
    BY <1>2, <2>1 DEF SyncType
<1> HIDE DEF v
<1>4. /\ SnapOK'
      /\ \A i \in DOMAIN log :
           LastTouch(i, c) /\ (Revision(i) <= sync.rev \/ Revision(i) <= snap[c].rev)
           => \/ snap'[c].rev >= Revision(i)
              \/ v = None /\ snap'[c].c = None /\ board[c] = None
      /\ v = None /\ snap[c].c = None => snap'[c].c = None
      /\ \A d \in Card : d # c => snap'[d] = snap[d]
  BY <1>1, <1>2, SaveFresh
<1>5. Data'
  <2>1. BoardOK' /\ ConsumerOK'
    BY <1>1, SameTouch DEF CInv, Data, BoardOK, ConsumerOK
  <2>2. SyncOK'
    <3>1. \A d : Touch(d)' = Touch(d)
      BY <1>1, SameTouch
    <3>2. \A d \in sync'.read : Fresh(d, sync'.got[d], sync'.rev)
      BY <1>2, <1>3 DEF CInv, Data, SyncOK
    <3>3. QED
      BY <1>1, <1>2, <1>3, <3>1, <3>2 DEF SyncOK, Fresh
  <2>3. QED
    BY <1>4, <2>1, <2>2 DEF Data
<1>6. ASSUME NEW d \in Card, NEW i \in DOMAIN log, LastTouch(i, d), Covered(i, d)
      PROVE  Covered(i, d)'
  <2>0. Revision(i) \in Nat /\ sync.rev \in Nat /\ snap[d].rev \in Nat /\ i \in Touch(d)
    BY <1>2, <1>6, EventsAssumption DEF CInv, IInv, TypeOK, Revision, LastTouch
  <2>1. CASE Underway(i, d) \/ stream # "on"
    BY <1>1, <2>1 DEF Covered, Underway
  <2>2. ~Rereads(i)
    BY <1>2 DEF Rereads
  <2>3. CASE d # c
    <3>1. snap'[d] = snap[d]
      BY <1>4, <2>3
    <3>2. Listed(i, d) => Listed(i, d)'
      BY <1>3, <2>3 DEF Listed
    <3>3. Gone(d) => Gone(d)'
      BY <1>1, <1>2, <1>3, <2>3, <3>1 DEF Gone
    <3>4. QED
      BY <1>6, <2>1, <2>2, <3>1, <3>2, <3>3 DEF Covered
  <2>4. ASSUME d = c, v = None, snap'[c].c = None, board[c] = None
        PROVE  Covered(i, d)'
    <3>1. consumer.pc # "work" /\ consumer.read = {}
      BY <1>2, <2>0, <2>4, Apart DEF CInv, Data, ConsumerOK
    <3>2. Gone(c)'
      BY <1>1, <1>3, <2>4, <3>1 DEF Gone
    <3>3. QED
      BY <2>4, <3>2 DEF Covered
  <2>5. CASE d = c /\ (snap[c].rev >= Revision(i) \/ Listed(i, d))
    <3>1. \/ snap'[c].rev >= Revision(i)
          \/ v = None /\ snap'[c].c = None /\ board[c] = None
      BY <1>4, <1>6, <2>0, <2>5 DEF Listed
    <3>2. QED
      BY <2>4, <2>5, <3>1 DEF Covered
  <2>6. CASE d = c /\ Gone(d)
    <3>1. v = None /\ board[c] = None /\ snap'[c].c = None
      BY <1>2, <1>4, <2>6 DEF Gone, v
    <3>2. QED
      BY <2>4, <2>6, <3>1
  <2>7. QED
    BY <1>6, <2>1, <2>2, <2>3, <2>5, <2>6 DEF Covered
<1>7. QED
  BY <1>1, <1>5, <1>6, CoverFrame

\* The other steps of a sync: it begins for a route to come, reads the revision
\* and then the cards; when it fails, the route is still to come.
LEMMA SyncCover ==
  ASSUME Tame, CInv, SyncStep, ~(\E c \in Card : SyncSave(c))
  PROVE  Data' /\ CoverOK'
<1>1. UNCHANGED <<board, log, wire, inbox, snap, consumer>>
  BY DEF SyncStep, SyncWork, SyncRevision, SyncList, SyncCommit, SyncRecover, SyncPrepare,
         SyncCatchup, SyncFails, SyncBegin, ConnectFails, lark, store, service,
         PrepareTaskDeliveries, PrepareCatchup
<1>2. /\ sync \in SyncType /\ NoSync \in SyncType /\ NoSync.pc = "none" /\ NoSync.rev = 0
      /\ stream \in {"none", "on", "dead"} /\ Len(log) \in Nat /\ DOMAIN log = 1..Len(log)
  BY JobTyped DEF CInv, IInv, TypeOK, SyncType, NoSync
<1>3. ASSUME NEW c \in Card, NEW i \in DOMAIN log, Covered(i, c), sync'.pc # "save",
             Rereads(i) => Rereads(i)' \/ stream' # "on", ~Listed(i, c),
             stream # "on" => stream' # "on" \/ Rereads(i)'
      PROVE  Covered(i, c)'
  BY <1>1, <1>3 DEF Covered, Underway, Gone
<1>4. ASSUME sync'.pc \notin {"list", "save"}, sync.pc # "save" \/ sync.read = {},
             \A i \in DOMAIN log : /\ Rereads(i) => Rereads(i)' \/ stream' # "on"
                                   /\ stream # "on" => stream' # "on" \/ Rereads(i)'
      PROVE  Data' /\ CoverOK'
  <2>1. Data'
    BY <1>1, <1>4, DataFrame
  <2>2. \A c \in Card : \A i \in DOMAIN log : Covered(i, c) => Covered(i, c)'
    BY <1>3, <1>4 DEF Listed
  <2>3. QED
    BY <1>1, <2>1, <2>2, CoverFrame
<1>5. ASSUME NEW by \in calls, SyncBegin(by)
      PROVE  Data' /\ CoverOK'
  <2>1. /\ sync.pc = "none" /\ stream' = "on" /\ UNCHANGED route
        /\ by \in {"startup", "agent", "enable"}
    BY <1>5 DEF SyncBegin, CInv, Control, CallsOK
  <2>2. /\ ~route => sync'.pc = "revision"
        /\ route => sync'.pc = "commit"
    BY <1>2, <1>5, <2>1 DEF SyncBegin, Reconciles, SyncType
  <2>3. route => stream = "on"
    BY <1>2, <1>5 DEF CInv, Control, DeadOK, Watched
  <2>4. \A i \in DOMAIN log : /\ Rereads(i) => Rereads(i)'
                              /\ stream # "on" => Rereads(i)'
    BY <2>1, <2>2, <2>3 DEF Rereads
  <2>5. QED
    BY <1>4, <2>1, <2>2, <2>4
<1>6. ASSUME sync'.pc = "none", UNCHANGED route, sync.pc \notin {"save"},
             stream' = stream \/ stream' # "on"
      PROVE  Data' /\ CoverOK'
  <2>1. \A i \in DOMAIN log : /\ Rereads(i) => Rereads(i)'
                              /\ stream # "on" => stream' # "on"
    BY <1>6 DEF Rereads
  <2>2. QED
    BY <1>4, <1>6, <2>1
<1>7. ASSUME NEW by \in calls, ConnectFails(by)
      PROVE  Data' /\ CoverOK'
  BY <1>2, <1>6, <1>7 DEF ConnectFails, Failed, Returned
<1>8. CASE SyncFails
  BY <1>2, <1>6, <1>8 DEF SyncFails, Failed, Returned
<1>9. CASE SyncCatchup
  BY <1>2, <1>6, <1>9 DEF SyncCatchup, Returned
<1>10. CASE SyncRecover \/ SyncPrepare
  <2>1. /\ UNCHANGED <<route, stream>> /\ sync.pc \in {"recover", "prepare"}
        /\ sync'.pc \in {"prepare", "catchup"}
    BY <1>2, <1>10 DEF SyncRecover, SyncPrepare, SyncType, service
  <2>2. QED
    BY <1>4, <2>1 DEF Rereads
<1>11. CASE SyncCommit
  <2>1. /\ UNCHANGED stream
        /\ sync.pc = "commit" \/ (sync.pc = "save" /\ sync.read = {})
        /\ sync'.pc \in {"prepare", "recover"}
    BY <1>2, <1>11 DEF SyncCommit, SyncType
  <2>2. \A i \in DOMAIN log : ~Rereads(i)
    BY <2>1 DEF Rereads
  <2>3. QED
    BY <1>4, <1>11, <2>1, <2>2 DEF SyncCommit
<1>12. CASE SyncRevision
  <2>1. /\ UNCHANGED <<route, stream>> /\ sync.pc = "revision"
        /\ sync'.pc = "list" /\ sync'.rev = Revision(Len(log))
    BY <1>2, <1>12 DEF SyncRevision, SyncType, service
  <2>2. \A i \in DOMAIN log : Rereads(i) => Rereads(i)'
    BY <1>2, <2>1 DEF Rereads, Revision
  <2>3. \A c \in Card : \A i \in DOMAIN log : Covered(i, c) => Covered(i, c)'
    BY <1>3, <2>1, <2>2 DEF Listed
  <2>4. SyncOK'
    BY <1>1, <1>2, <2>1 DEF SyncOK, Revision
  <2>5. BoardOK' /\ ConsumerOK'
    BY <1>1, SameTouch DEF CInv, Data, BoardOK, ConsumerOK
  <2>6. SnapOK'
    <3>1. \A d \in Card : Fresh(d, snap[d].c, snap[d].rev)' = Fresh(d, snap[d].c, snap[d].rev)
      BY <1>1 DEF Fresh, Touch
    <3>2. QED
      BY <1>1, <3>1 DEF CInv, Data, SnapOK
  <2>7. QED
    BY <1>1, <2>3, <2>4, <2>5, <2>6, CoverFrame DEF Data
<1>13. CASE SyncList
  <2>1. /\ UNCHANGED <<route, stream>> /\ sync.pc = "list"
        /\ sync'.pc = "save" /\ sync'.rev = sync.rev /\ sync'.read = Card /\ sync'.got = board
    BY <1>2, <1>13 DEF SyncList, SyncType, service
  <2>2. ASSUME NEW c \in Card, NEW i \in DOMAIN log, Covered(i, c)
        PROVE  Covered(i, c)'
    <3>1. Rereads(i) => Listed(i, c)'
      BY <2>1 DEF Rereads, Listed
    <3>2. Gone(c) => Gone(c)'
      BY <1>1, <2>1 DEF Gone
    <3>3. ~Listed(i, c)
      BY <2>1 DEF Listed
    <3>4. Underway(i, c) => Underway(i, c)'
      BY <1>1 DEF Underway
    <3>5. QED
      BY <1>1, <2>1, <2>2, <3>1, <3>2, <3>3, <3>4 DEF Covered
  <2>3. SyncOK'
    BY <1>1, <2>1 DEF CInv, Data, SyncOK, Fresh
  <2>4. BoardOK' /\ ConsumerOK'
    BY <1>1, SameTouch DEF CInv, Data, BoardOK, ConsumerOK
  <2>5. SnapOK'
    <3>1. \A d \in Card : Fresh(d, snap[d].c, snap[d].rev)' = Fresh(d, snap[d].c, snap[d].rev)
      BY <1>1 DEF Fresh, Touch
    <3>2. QED
      BY <1>1, <3>1 DEF CInv, Data, SnapOK
  <2>6. QED
    BY <1>1, <2>2, <2>3, <2>4, <2>5, CoverFrame DEF Data
<1>14. QED
  BY <1>5, <1>7, <1>8, <1>9, <1>10, <1>11, <1>12, <1>13 DEF SyncStep, SyncWork

\* Without a route and a sync, every card is read again.
LEMMA ServiceCover ==
  ASSUME Tame, CInv, ServiceStep
  PROVE  Data' /\ CoverOK'
<1>1. UNCHANGED <<board, log, wire, snap>>
  BY DEF ServiceStep, Enable, Disable, VerifyEnds, ListenEnds, Release, StreamDies,
         CheckWorkers, Crash, Stop, Restart, PopRoute, AskBlind, lark, store
<1>2. ASSUME ~route', sync'.pc = "none", consumer' = consumer \/ consumer'.read = {}
      PROVE  Data' /\ CoverOK'
  <2>1. \A i : Rereads(i)'
    BY <1>2 DEF Rereads
  <2>2. QED
    BY <1>1, <1>2, <2>1, DataFrame, CoverFrame DEF Covered
<1>3. CASE Crash \/ CheckWorkers
  BY <1>2, <1>3, JobTyped DEF Crash, CheckWorkers, Stop, NoJob
<1>4. CASE Restart
  BY <1>2, <1>4 DEF Restart, threads, CInv, Control, RouteOK
<1>5. ASSUME NEW who \in ending, PopRoute(who)
      PROVE  Data' /\ CoverOK'
  BY <1>2, <1>5 DEF PopRoute, threads
<1>6. CASE StreamDies
  <2>1. stream' # "on" /\ UNCHANGED threads
    BY <1>6 DEF StreamDies
  <2>2. QED
    BY <1>1, <2>1, DataFrame, CoverFrame DEF Covered, threads
<1>7. CASE \/ Enable \/ Disable \/ VerifyEnds \/ ListenEnds \/ Release
           \/ \E by \in Callers : AskBlind(by)
  <2>1. UNCHANGED <<inbox, consumer, sync, route, stream>>
    BY <1>7 DEF Enable, Disable, VerifyEnds, ListenEnds, Release, AskBlind, threads
  <2>2. QED
    BY <1>1, <2>1, SameCover
<1>8. QED
  BY <1>3, <1>4, <1>5, <1>6, <1>7 DEF ServiceStep

\* A daemon that starts has an empty board before it.
LEMMA ConvergenceInit == Init => CInv
<1> SUFFICES ASSUME Init PROVE CInv
  OBVIOUS
<1>1. IInv /\ Control
  BY InitInductive, ControlInit
<1>2. /\ log = <<>> /\ DOMAIN log = {} /\ Len(log) = 0 /\ consumer = NoJob /\ sync = NoSync
      /\ up = TRUE
      /\ \A c \in Card : board[c] = None /\ snap[c] = NoSnap
  BY DEF Init
<1>3. ClaimOK
  BY <1>2 DEF ClaimOK, NoJob
<1>4. BoardOK /\ CoverOK
  BY <1>2 DEF BoardOK, Touch, Deleted, CoverOK
<1>5. SnapOK
  BY <1>2 DEF SnapOK, NoSnap, Revision
<1>6. ConsumerOK /\ SyncOK
  BY <1>2 DEF ConsumerOK, SyncOK, NoJob, NoSync
<1>7. QED
  BY <1>1, <1>3, <1>4, <1>5, <1>6 DEF CInv, Data

\* Every step of a tame service keeps the invariant.
LEMMA ConvergenceNext ==
  ASSUME Tame, CInv, [Next]_vars
  PROVE  CInv'
<1>1. IInv' /\ Control' /\ ClaimOK'
  BY NextInductive, ControlNext, ClaimNext DEF CInv
<1>2. CASE UNCHANGED vars
  <2>1. Data' /\ CoverOK'
    BY <1>2, SameCover DEF vars, lark, store, threads, service
  <2>2. QED
    BY <1>1, <2>1 DEF CInv
<1>3. CASE AgentStep
  <2>1. UNCHANGED <<board, log, wire, inbox, snap, consumer, sync, route, stream>>
    BY <1>3 DEF AgentStep, Register, UpdateAgent, Unregister, AgentChanged, lark, threads
  <2>2. QED
    BY <1>1, <2>1, SameCover DEF CInv
<1>4. CASE ConsumerStep
  <2>1. Data' /\ CoverOK'
    BY <1>4, ConsumerCover, ReadCover, SaveCardCover DEF ConsumerStep, ConsumerWork
  <2>2. QED
    BY <1>1, <2>1 DEF CInv
<1>5. CASE SyncStep
  <2>1. Data' /\ CoverOK'
    BY <1>5, SyncCover, SyncSaveCover
  <2>2. QED
    BY <1>1, <2>1 DEF CInv
<1>6. CASE BoardStep \/ LarkStep \/ ServiceStep
  <2>1. Data' /\ CoverOK'
    BY <1>6, BoardCover, LarkCover, ServiceCover
  <2>2. QED
    BY <1>1, <2>1 DEF CInv
<1>7. QED
  BY <1>2, <1>3, <1>4, <1>5, <1>6 DEF Next, WorkerStep, Tame

\* Once every event that Lark pushed has been processed or ignored, the saved
\* snapshot of each card is the card on the board: no order or repetition of
\* pushes, no crash and no failed request leaves an older read of a card behind,
\* nor does a change of the staff or a disabled workspace within Tame.
THEOREM Converges ==
  ASSUME Tame
  PROVE  Spec => []QuietConverges
<1>1. CInv /\ [Next]_vars => CInv'
  BY ConvergenceNext
<1>2. CInv => QuietConverges
  <2> SUFFICES ASSUME CInv, Quiet, NEW c \in Card
               PROVE  snap[c].c = board[c]
    BY DEF QuietConverges
  <2>1. CASE Touch(c) = {}
    <3>1. board[c] = None
      BY <2>1 DEF CInv, Data, BoardOK
    <3>2. QED
      BY <2>1, <3>1 DEF CInv, Data, SnapOK, Fresh
  <2>2. CASE Touch(c) # {}
    <3>1. Len(log) \in Nat /\ Touch(c) \subseteq 1..Len(log)
      BY DEF CInv, IInv, TypeOK, Touch
    <3>2. PICK i \in Touch(c) : \A j \in Touch(c) : j <= i
      BY <2>2, <3>1, Greatest
    <3>3. Covered(i, c)
      BY <3>2 DEF CInv, CoverOK, LastTouch, Touch
    <3>4. i \in Rev
      BY <3>1, EventsAssumption DEF CInv, IInv, TypeOK, Rev
    <3>5. snap[c].rev >= Revision(i) \/ Gone(c)
      BY <3>3, <3>4 DEF Covered, Underway, Rereads, Listed, Quiet
    <3>6. CASE snap[c].rev >= Revision(i)
      <4>1. snap[c].rev \in Nat /\ snap[c].rev # 0
        BY <3>1, <3>6, EventsAssumption DEF CInv, IInv, TypeOK, Revision
      <4>2. \A j \in Touch(c) : Revision(j) <= snap[c].rev
        BY <3>1, <3>2, <3>6, <4>1 DEF Revision
      <4>3. QED
        BY <4>1, <4>2 DEF CInv, Data, SnapOK, Fresh
    <3>7. CASE Gone(c)
      BY <3>7 DEF Gone
    <3>8. QED
      BY <3>5, <3>6, <3>7
  <2>3. QED
    BY <2>1, <2>2
<1>3. QED
  BY <1>1, <1>2, ConvergenceInit, PTL DEF Spec
=============================================================================
