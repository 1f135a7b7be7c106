------------------------ MODULE RepositoryGateProofs ------------------------
(***************************************************************************)
(* What the delivery gate guarantees for every history of commits and      *)
(* every use of the repository: proofs about RepositoryGate.               *)
(*                                                                         *)
(* The gate reads the reflog of main, which expires and starts again when  *)
(* main is deleted; the properties speak of where main has really been     *)
(* (moves).  LogOK relates the two: the reflog is a true, if short, start  *)
(* of that history.                                                        *)
(***************************************************************************)
EXTENDS RepositoryGate, TLAPS

\* The reflog shows the latest updates of main, in order, and none that was not
\* made.
LogOK ==
  /\ log \in Seq(Commit) /\ moves \in Seq(Commit \cup {None})
  /\ main # None => Len(log) > 0
  /\ \A i \in 1..Len(log) : i <= Len(moves) /\ log[i] = moves[i]

IInv == TypeOK /\ LogOK /\ ModeSettled

-----------------------------------------------------------------------------
(* The operators.                                                           *)

\* What agents may send: commits they name, branches they declare, a mode.
LEMMA InputTyped ==
  ASSUME NEW input \in Inputs
  PROVE  /\ input.mode \in Modes \cup {None} /\ input.resources \subseteq Branch
         /\ DOMAIN input.sha \subseteq Shas
         /\ \A f \in DOMAIN input.sha : input.sha[f] \in Commit
<1>1. CASE input = NoInput
  BY <1>1 DEF NoInput
<1>2. CASE \E m \in Modes : input = [NoInput EXCEPT !.mode = m]
  BY <1>2 DEF NoInput
<1>3. CASE \E F \in {Shas} \cup {{f} : f \in Shas}, c \in Supplied :
             input = [NoInput EXCEPT !.sha = [f \in F |-> c]]
  BY <1>3, GateAssumption DEF NoInput
<1>4. CASE \E b \in Branch : input = [NoInput EXCEPT !.resources = {b}]
  BY <1>4 DEF NoInput
<1>5. QED
  BY <1>1, <1>2, <1>3, <1>4 DEF Inputs

\* resolve_transition_mode settles the mode, and a card that has left the
\* backlog with a mode keeps it.
LEMMA ModeOfCall ==
  ASSUME TypeOK, NEW requested \in Modes \cup {None}, NEW action, NEW to,
         NEW mode \in TransitionMode(requested, action, to)
  PROVE  /\ mode \in Modes \cup {None}
         /\ card.mode # None /\ card.status # "backlog" => mode = card.mode
         /\ card.mode # None => mode # None
         /\ action # "cancel" /\ to # None => mode # None
<1>1. card.mode \in Modes \cup {None} /\ None \notin Modes /\ "standard" \in Modes
  BY WorkflowAssumption DEF TypeOK, Modes
<1>2. CASE requested # None
  <2>1. /\ mode = requested /\ requested \in Modes
        /\ card.mode \in {None, requested} \/ card.status = "backlog"
    BY <1>2 DEF TransitionMode
  <2>2. QED
    BY <1>1, <1>2, <2>1
<1>3. CASE requested = None /\ card.mode # None
  <2>1. mode = card.mode
    BY <1>3 DEF TransitionMode
  <2>2. QED
    BY <1>1, <1>3, <2>1
<1>4. CASE requested = None /\ card.mode = None
  <2>1. mode = "standard" \/ (mode = None /\ ~(action # "cancel" /\ to # None))
    BY <1>4 DEF TransitionMode
  <2>2. QED
    BY <1>1, <1>4, <2>1
<1>5. QED
  BY <1>2, <1>3, <1>4

\* claim_baseline keeps a baseline that is pinned, and pins one for a claim.
LEMMA BaseOfCall ==
  ASSUME TypeOK, NEW action, NEW mode, NEW base \in ClaimBaseline(action, mode)
  PROVE  /\ base \in Commit \cup {None}
         /\ card.base # None => base = card.base
         /\ action = "claim" /\ mode = "repository" => base # None
BY GateAssumption DEF ClaimBaseline, TypeOK

\* _apply_delivery writes a card, field by field.
LEMMA RecordedCard ==
  ASSUME TypeOK, NEW mode \in Modes \cup {None}, NEW base \in Commit \cup {None},
         NEW input \in Inputs, NEW to \in Status \cup {None}
  PROVE  LET new == Recorded(mode, base, input, to) IN
         /\ new \in [status : Status \cup {None}, mode : Modes \cup {None},
                     sha : [Shas -> Commit \cup {None}], base : Commit \cup {None},
                     resources : SUBSET Branch]
         /\ new.mode = mode /\ new.base = base
         /\ new.status = IF to = None THEN card.status ELSE to
         /\ card.resources \subseteq new.resources
BY InputTyped DEF TypeOK, Recorded, AppendResources

\* The gate: main is where the reflog begins, has reached the commit by moving
\* onto it, and only forward since.
LEMMA GateShows ==
  ASSUME IInv, NEW new, new.mode = "repository", GateOpen(new),
         new.sha["candidate"] \in Commit \cup {None}, new.base \in Commit \cup {None}
  PROVE  /\ new.sha["verified"] # None /\ Promoted(new.sha["verified"])
         /\ new.base # None /\ IsAncestor(new.base, main)
         /\ new.resources \cap branches = {}
<1> DEFINE c == new.sha["candidate"]
<1>1. /\ new.sha["verified"] = c /\ c \in Commit /\ new.base \in Commit /\ main \in Commit
      /\ IsAncestor(new.base, c) /\ IsAncestor(c, main) /\ FastForwardedTo(c)
      /\ new.resources \cap branches = {}
  BY DEF GateOpen, Shas, IInv, TypeOK
<1>2. IsAncestor(new.base, main)
  BY <1>1, GateAssumption DEF IsAncestor
<1>3. PICK i \in 1..(Len(log) - 1) :
        log[i] = c /\ \A j \in 1..i : IsAncestor(log[j + 1], log[j])
  BY <1>1 DEF FastForwardedTo
<1>4. /\ Len(log) \in Nat /\ Len(moves) \in Nat /\ Len(log) <= Len(moves)
      /\ \A k \in 1..Len(log) : log[k] = moves[k] /\ log[k] \in Commit
  BY DEF IInv, TypeOK, LogOK
<1>5. \A j \in 1..i : j \in 1..Len(log) /\ j + 1 \in 1..Len(log)
  BY <1>4
<1>6. i \in 1..(Len(moves) - 1)
  BY <1>4
<1>7. moves[i] = c
  BY <1>3, <1>4, <1>5
<1>8. \A j \in 1..i : moves[j + 1] # None /\ IsAncestor(moves[j + 1], moves[j])
  BY <1>3, <1>4, <1>5, GateAssumption
<1>9. Promoted(c)
  BY <1>6, <1>7, <1>8 DEF Promoted
<1>10. QED
  BY <1>1, <1>2, <1>9, GateAssumption

-----------------------------------------------------------------------------
(* The calls of agents.                                                     *)

\* What a transition does to the card, and what a completion has checked.
LEMMA TransitionCard ==
  ASSUME IInv, Transition
  PROVE  /\ card' \in [status : Status \cup {None}, mode : Modes \cup {None},
                       sha : [Shas -> Commit \cup {None}], base : Commit \cup {None},
                       resources : SUBSET Branch]
         /\ card.status # None /\ card'.status \in Status
         /\ card.mode # None /\ card.status # "backlog" => card'.mode = card.mode
         /\ card'.status # "canceled" => card'.mode # None
         /\ card.base # None => card'.base = card.base
         /\ card'.status = "in_progress" /\ card'.mode = "repository" => card'.base # None
         /\ card.resources \subseteq card'.resources
         /\ card'.status = "done" => GateOpen(card')
<1>1. PICK m \in Moves :
        /\ card.status = m[2]
        /\ \E input \in IF m[1] = "submit" THEN Inputs ELSE {NoInput} :
           \E mode \in TransitionMode(input.mode, m[1], m[3]) :
           \E base \in ClaimBaseline(m[1], mode) :
             /\ Acceptable(mode, input)
             /\ card' = Recorded(mode, base, input, m[3])
             /\ m[3] = "done" => GateOpen(card')
  BY DEF Transition
<1>2. PICK input \in Inputs : \E mode \in TransitionMode(input.mode, m[1], m[3]) :
           \E base \in ClaimBaseline(m[1], mode) :
             /\ card' = Recorded(mode, base, input, m[3])
             /\ m[3] = "done" => GateOpen(card')
  BY <1>1 DEF Inputs
<1>3. PICK mode \in TransitionMode(input.mode, m[1], m[3]) :
           \E base \in ClaimBaseline(m[1], mode) :
             /\ card' = Recorded(mode, base, input, m[3])
             /\ m[3] = "done" => GateOpen(card')
  BY <1>2
<1>4. PICK base \in ClaimBaseline(m[1], mode) :
             /\ card' = Recorded(mode, base, input, m[3])
             /\ m[3] = "done" => GateOpen(card')
  BY <1>3
<1>5. TypeOK /\ m[2] \in Status /\ m[3] \in Status /\ m[3] # None /\ m[2] # None
  BY WorkflowAssumption DEF IInv, Status
<1>6. /\ mode \in Modes \cup {None}
      /\ card.mode # None /\ card.status # "backlog" => mode = card.mode
      /\ m[1] # "cancel" => mode # None
  BY <1>3, <1>5, InputTyped, ModeOfCall
<1>7. /\ base \in Commit \cup {None} /\ (card.base # None => base = card.base)
      /\ m[1] = "claim" /\ mode = "repository" => base # None
  BY <1>4, <1>5, BaseOfCall
<1>8. /\ card' \in [status : Status \cup {None}, mode : Modes \cup {None},
                    sha : [Shas -> Commit \cup {None}], base : Commit \cup {None},
                    resources : SUBSET Branch]
      /\ card'.mode = mode /\ card'.base = base /\ card'.status = m[3]
      /\ card.resources \subseteq card'.resources
  BY <1>4, <1>5, <1>6, <1>7, RecordedCard
<1>9. QED
  BY <1>1, <1>4, <1>5, <1>6, <1>7, <1>8, WorkflowAssumption

\* What update_task does to the card: its state and its baseline stay.
LEMMA RecordFactsCard ==
  ASSUME IInv, RecordFacts
  PROVE  /\ card' \in [status : Status \cup {None}, mode : Modes \cup {None},
                       sha : [Shas -> Commit \cup {None}], base : Commit \cup {None},
                       resources : SUBSET Branch]
         /\ card.status # None /\ card'.status = card.status /\ card'.base = card.base
         /\ card.mode # None /\ card.status # "backlog" => card'.mode = card.mode
         /\ card.resources \subseteq card'.resources
<1>1. PICK input \in Inputs : \E mode \in TransitionMode(input.mode, "update", None) :
                                card' = Recorded(mode, card.base, input, None)
  BY DEF RecordFacts
<1>2. PICK mode \in TransitionMode(input.mode, "update", None) :
             card' = Recorded(mode, card.base, input, None)
  BY <1>1
<1>3. TypeOK /\ card.base \in Commit \cup {None}
  BY DEF IInv, TypeOK
<1>4. /\ mode \in Modes \cup {None}
      /\ card.mode # None /\ card.status # "backlog" => mode = card.mode
  BY <1>2, <1>3, InputTyped, ModeOfCall
<1>5. QED
  BY <1>2, <1>3, <1>4, RecordedCard DEF RecordFacts

\* A call keeps the invariant: the mode is settled when the card leaves the
\* backlog, the baseline pinned by the claim and checked by the completion.
LEMMA CallIInv ==
  ASSUME IInv, CreateTask \/ Transition \/ RecordFacts
  PROVE  IInv'
<1>1. UNCHANGED <<git, enabled>>
  BY DEF CreateTask, Transition, RecordFacts
<1>2. LogOK'
  BY <1>1 DEF IInv, LogOK, git
<1>3. CASE CreateTask
  <2>1. PICK mode \in Modes \cup {None} :
          card' = [card EXCEPT !.status = "backlog", !.mode = mode]
    BY <1>3 DEF CreateTask, CreateMode, Modes
  <2>2. QED
    BY <1>1, <1>2, <2>1, WorkflowAssumption DEF IInv, TypeOK, ModeSettled, git
<1>4. CASE Transition
  <2>1. card'.status = "done" /\ card'.mode = "repository" => card'.base # None
    BY <1>4, TransitionCard DEF GateOpen
  <2>2. TypeOK'
    BY <1>1, <1>4, TransitionCard DEF IInv, TypeOK, git
  <2>3. QED
    BY <1>2, <1>4, <2>1, <2>2, TransitionCard DEF IInv, ModeSettled
<1>5. CASE RecordFacts
  BY <1>1, <1>2, <1>5, RecordFactsCard, WorkflowAssumption DEF IInv, TypeOK, ModeSettled, git
<1>6. QED
  BY <1>3, <1>4, <1>5

-----------------------------------------------------------------------------
(* The repository.                                                          *)

\* Updating main puts the update first in the reflog and in the history.
LEMMA MoveMainIInv ==
  ASSUME IInv, MoveMain
  PROVE  IInv'
<1>1. PICK c \in Commit : /\ main' = c /\ moves' = <<c>> \o moves
                          /\ log' = IF main = None THEN <<c>> ELSE <<c>> \o log
  BY DEF MoveMain, IInv, TypeOK
<1>2. /\ moves \in Seq(Commit \cup {None}) /\ log \in Seq(Commit)
      /\ Len(moves) \in Nat /\ Len(log) \in Nat /\ Len(moves) <= MaxMoves
      /\ Len(log) <= Len(moves) /\ MaxMoves \in Nat
  BY GateAssumption DEF MoveMain, IInv, TypeOK, LogOK
<1>3. /\ moves' \in Seq(Commit \cup {None}) /\ Len(moves') = Len(moves) + 1
      /\ moves'[1] = c /\ \A i \in 1..Len(moves) : moves'[i + 1] = moves[i]
  BY <1>1, <1>2
<1>4. /\ log' \in Seq(Commit) /\ Len(log') \in 1..(Len(log) + 1)
      /\ log'[1] = c /\ Head(log') = c
      /\ \A i \in 1..Len(log) : i + 1 <= Len(log') => log'[i + 1] = log[i]
  BY <1>1, <1>2
<1>5. \A i \in 1..Len(log') : i <= Len(moves') /\ log'[i] = moves'[i]
  <2> SUFFICES ASSUME NEW i \in 1..Len(log')
               PROVE  i <= Len(moves') /\ log'[i] = moves'[i]
    OBVIOUS
  <2>1. CASE i = 1
    BY <2>1, <1>2, <1>3, <1>4
  <2>2. CASE i # 1
    <3>1. /\ i - 1 \in 1..Len(log) /\ i - 1 \in 1..Len(moves) /\ i = (i - 1) + 1
          /\ (i - 1) + 1 <= Len(log')
      BY <2>2, <1>2, <1>4
    <3>2. log'[i] = log[i - 1] /\ moves'[i] = moves[i - 1]
      BY <3>1, <1>3, <1>4
    <3>3. log[i - 1] = moves[i - 1]
      BY <3>1 DEF IInv, LogOK
    <3>4. QED
      BY <3>1, <3>2, <3>3, <1>2, <1>3
  <2>3. QED
    BY <2>1, <2>2
<1>6. LogOK'
  BY <1>3, <1>4, <1>5 DEF LogOK
<1>7. TypeOK'
  BY <1>1, <1>2, <1>3, <1>4 DEF MoveMain, IInv, TypeOK
<1>8. QED
  BY <1>6, <1>7 DEF IInv, ModeSettled, MoveMain

\* Deleting main ends its reflog; expiry forgets the oldest entry; collecting
\* garbage, branches and the switch leave main alone.
LEMMA RepositoryIInv ==
  ASSUME IInv, Repository
  PROVE  IInv'
<1>1. CASE MoveMain
  BY <1>1, MoveMainIInv
<1>2. CASE DeleteMain
  <2>1. /\ log' = << >> /\ moves' = <<None>> \o moves /\ main' = None
        /\ moves \in Seq(Commit \cup {None}) /\ Len(moves) \in Nat
        /\ Len(moves) <= MaxMoves /\ MaxMoves \in Nat
    BY <1>2, GateAssumption DEF DeleteMain, IInv, TypeOK, LogOK
  <2>2. moves' \in Seq(Commit \cup {None}) /\ Len(moves') = Len(moves) + 1
    BY <2>1
  <2>3. LogOK'
    BY <2>1, <2>2 DEF LogOK
  <2>4. TypeOK'
    BY <1>2, <2>1, <2>2 DEF DeleteMain, IInv, TypeOK
  <2>5. QED
    BY <1>2, <2>3, <2>4 DEF IInv, ModeSettled, DeleteMain
<1>3. CASE ExpireReflog
  <2>1. /\ log \in Seq(Commit) /\ Len(log) \in Nat /\ Len(log) > 1
        /\ log' = SubSeq(log, 1, Len(log) - 1) /\ Len(log) <= Len(moves)
        /\ Len(moves) \in Nat /\ UNCHANGED <<main, moves>>
    BY <1>3 DEF ExpireReflog, IInv, TypeOK, LogOK
  <2>2. /\ log' \in Seq(Commit) /\ Len(log') = Len(log) - 1 /\ Len(log') > 0
        /\ \A i \in 1..Len(log') : log'[i] = log[i]
    <3>1. /\ Len(SubSeq(log, 1, Len(log) - 1)) = Len(log) - 1
          /\ SubSeq(log, 1, Len(log) - 1) \in Seq(Commit)
      BY <2>1
    <3>2. \A i \in 1..(Len(log) - 1) : SubSeq(log, 1, Len(log) - 1)[i] = log[i]
      BY <2>1
    <3>3. log' \in Seq(Commit) /\ Len(log') = Len(log) - 1
      BY <2>1, <3>1
    <3>4. \A i \in 1..Len(log') : log'[i] = log[i]
      BY <2>1, <3>2, <3>3
    <3>5. QED
      BY <2>1, <3>3, <3>4
  <2>3. Head(log') = Head(log)
    BY <2>1, <2>2
  <2>4. LogOK'
    BY <2>1, <2>2 DEF LogOK, IInv
  <2>5. TypeOK'
    BY <1>3, <2>1, <2>2, <2>3 DEF ExpireReflog, IInv, TypeOK
  <2>6. QED
    BY <1>3, <2>4, <2>5 DEF IInv, ModeSettled, ExpireReflog
<1>4. CASE CollectGarbage \/ ToggleBranch \/ SwitchVersionControl
  <2>1. UNCHANGED <<card, main, log, moves>>
    BY <1>4 DEF CollectGarbage, ToggleBranch, SwitchVersionControl, git
  <2>2. branches' \subseteq Branch /\ objects' \subseteq Commit /\ enabled' \in BOOLEAN
    BY <1>4 DEF CollectGarbage, ToggleBranch, SwitchVersionControl, git, IInv, TypeOK
  <2>3. QED
    BY <2>1, <2>2 DEF IInv, TypeOK, LogOK, ModeSettled
<1>5. QED
  BY <1>1, <1>2, <1>3, <1>4 DEF Repository

-----------------------------------------------------------------------------
\* The start: an empty slot for the card, and main where the work begins.
LEMMA InitIInv == Init => IInv
BY GateAssumption, WorkflowAssumption DEF Init, IInv, TypeOK, LogOK, ModeSettled, Modes, Shas

\* The invariant of the repository gate.
LEMMA Inductive == Spec => []IInv
<1>1. IInv /\ [Next]_vars => IInv'
  <2> SUFFICES ASSUME IInv, [Next]_vars
               PROVE  IInv'
    OBVIOUS
  <2>1. CASE Next
    BY <2>1, CallIInv, RepositoryIInv DEF Next
  <2>2. CASE UNCHANGED vars
    BY <2>2 DEF vars, git, IInv, TypeOK, LogOK, ModeSettled
  <2>3. QED
    BY <2>1, <2>2
<1>2. QED
  BY InitIInv, <1>1, PTL DEF Spec

\* A repository card in progress has its baseline, and main is where its reflog
\* says, whatever is done to the repository between the calls.
THEOREM Typed == Spec => []TypeOK
<1>1. IInv => TypeOK
  BY DEF IInv
<1>2. QED
  BY Inductive, <1>1, PTL

\* A card that work has started on has a mode, and a completed repository card
\* its baseline, whenever the version control switch was turned.
THEOREM Settled == Spec => []ModeSettled
<1>1. IInv => ModeSettled
  BY DEF IInv
<1>2. QED
  BY Inductive, <1>1, PTL

\* No call moves the baseline, changes the mode of a card that has left the
\* backlog, or takes back a resource it declared.
THEOREM Fixed == Spec => DeliveryFixed
<1> DEFINE A == /\ card.status \notin {None, "backlog"} /\ card.mode # None
                     => card'.mode = card.mode
                /\ card.base # None => card'.base = card.base
                /\ card.resources \subseteq card'.resources
<1>1. IInv /\ [Next]_vars => [A]_vars
  <2> SUFFICES ASSUME IInv, Next
               PROVE  A
    OBVIOUS
  <2>1. CASE CreateTask
    BY <2>1 DEF CreateTask, IInv, TypeOK
  <2>2. CASE Transition
    BY <2>2, TransitionCard
  <2>3. CASE RecordFacts
    BY <2>3, RecordFactsCard
  <2>4. CASE Repository
    BY <2>4 DEF Repository, MoveMain, DeleteMain, ExpireReflog, CollectGarbage,
                ToggleBranch, SwitchVersionControl
  <2>5. QED
    BY <2>1, <2>2, <2>3, <2>4 DEF Next
<1>2. QED
  BY Inductive, <1>1, PTL DEF Spec, DeliveryFixed

\* Only a transition completes a card, and it has found the gate open.
LEMMA Completing ==
  ASSUME IInv, Next, card'.status = "done", card.status # "done"
  PROVE  /\ GateOpen(card') /\ card'.base \in Commit \cup {None}
         /\ card'.sha["candidate"] \in Commit \cup {None}
         /\ UNCHANGED git
<1>1. ~CreateTask
  BY DEF CreateTask, IInv, TypeOK
<1>2. ~RecordFacts
  BY RecordFactsCard
<1>3. ~Repository
  BY DEF Repository, MoveMain, DeleteMain, ExpireReflog, CollectGarbage,
         ToggleBranch, SwitchVersionControl
<1>4. Transition
  BY <1>1, <1>2, <1>3 DEF Next
<1>5. QED
  BY <1>4, TransitionCard DEF Transition, Shas

\* A repository card is completed only when main has really moved onto the
\* verified commit and only forward since, contains the baseline, and nothing
\* the card declared is left: a reflog that expired or began again never shows
\* the gate a promotion that did not happen.
THEOREM Completed == Spec => CompletedInMain
<1> DEFINE A == card'.status = "done" /\ card.status # "done" /\ card'.mode = "repository"
                  => /\ card'.sha["verified"] # None /\ Promoted(card'.sha["verified"])
                     /\ IsAncestor(card'.base, main)
                     /\ card'.resources \cap branches = {}
<1>1. IInv /\ [Next]_vars => [A]_vars
  <2> SUFFICES ASSUME IInv, Next, card'.status = "done", card.status # "done",
                      card'.mode = "repository"
               PROVE  /\ card'.sha["verified"] # None /\ Promoted(card'.sha["verified"])
                      /\ IsAncestor(card'.base, main)
                      /\ card'.resources \cap branches = {}
    OBVIOUS
  <2>1. /\ GateOpen(card') /\ card'.base \in Commit \cup {None}
        /\ card'.sha["candidate"] \in Commit \cup {None}
    BY Completing
  <2>2. QED
    BY <2>1, GateShows
<1>2. QED
  BY Inductive, <1>1, PTL DEF Spec, CompletedInMain

-----------------------------------------------------------------------------
(* What holds of NothingDiscarded and of DoneVerified.                      *)

\* Main has only moved forward since it was where it was i - 1 moves ago.
ForwardSince(i) ==
  \A j \in 1..(i - 1) : moves[j + 1] # None /\ IsAncestor(moves[j + 1], moves[j])
\* Main contains all the places it has moved forward from.
KeptOK ==
  /\ Len(moves) > 0 /\ moves[1] = main
  /\ main # None => \A i \in 1..Len(moves) :
                      moves[i] # None /\ ForwardSince(i) => IsAncestor(moves[i], main)

\* A step keeps it, because ancestry is transitive.
LEMMA KeptNext ==
  ASSUME IInv, KeptOK, [Next]_vars
  PROVE  KeptOK'
<1>1. moves \in Seq(Commit \cup {None}) /\ Len(moves) \in Nat /\ main \in Commit \cup {None}
  BY DEF IInv, TypeOK, LogOK
<1>2. CASE UNCHANGED <<main, moves>>
  BY <1>2 DEF KeptOK, ForwardSince
<1>3. CASE DeleteMain
  <2>1. main' = None /\ moves' = <<None>> \o moves
    BY <1>3 DEF DeleteMain
  <2>2. Len(moves') > 0 /\ moves'[1] = None
    BY <1>1, <2>1
  <2>3. QED
    BY <2>1, <2>2 DEF KeptOK
<1>4. CASE MoveMain
  <2>1. PICK c \in Commit : main' = c /\ moves' = <<c>> \o moves
    BY <1>4 DEF MoveMain, IInv, TypeOK
  <2>2. /\ Len(moves') = Len(moves) + 1 /\ moves'[1] = c
        /\ \A i \in 1..Len(moves) : moves'[i + 1] = moves[i]
    BY <1>1, <2>1
  <2>3. ASSUME NEW i \in 1..Len(moves'), moves'[i] # None, ForwardSince(i)'
        PROVE  IsAncestor(moves'[i], c)
    <3>1. CASE i = 1
      BY <2>2, <3>1, GateAssumption DEF IsAncestor
    <3>2. CASE i # 1
      <4>1. i - 1 \in 1..Len(moves) /\ (i - 1) + 1 = i /\ i \in Nat
        BY <1>1, <2>2, <3>2
      <4>2. moves'[i] = moves[i - 1] /\ moves[i - 1] # None
        BY <2>2, <2>3, <4>1
      <4>3. moves'[2] # None /\ IsAncestor(moves'[2], moves'[1])
        <5>1. 1 \in 1..(i - 1) /\ 1 + 1 = 2
          BY <3>2, <4>1
        <5>2. QED
          BY <2>3, <5>1 DEF ForwardSince
      <4>4. moves'[2] = main /\ main # None /\ main \in Commit
        <5>1. 1 \in 1..Len(moves) /\ 1 + 1 = 2
          BY <1>1, <4>1
        <5>2. QED
          BY <1>1, <2>2, <4>3, <5>1 DEF KeptOK
      <4>5. ForwardSince(i - 1)
        <5> SUFFICES ASSUME NEW j \in 1..(i - 1 - 1)
                     PROVE  moves[j + 1] # None /\ IsAncestor(moves[j + 1], moves[j])
          BY DEF ForwardSince
        <5>1. /\ j + 1 \in 1..(i - 1) /\ j \in 1..Len(moves) /\ j + 1 \in 1..Len(moves)
          BY <1>1, <4>1
        <5>2. moves'[j + 1 + 1] # None /\ IsAncestor(moves'[j + 1 + 1], moves'[j + 1])
          BY <2>3, <5>1 DEF ForwardSince
        <5>3. QED
          BY <2>2, <5>1, <5>2
      <4>6. IsAncestor(moves[i - 1], main)
        BY <4>1, <4>2, <4>4, <4>5 DEF KeptOK
      <4>7. main \in Ancestors[c] /\ Ancestors[main] \subseteq Ancestors[c]
        BY <2>2, <4>3, <4>4, GateAssumption DEF IsAncestor
      <4>8. QED
        BY <4>2, <4>6, <4>7 DEF IsAncestor
    <3>3. QED
      BY <3>1, <3>2
  <2>4. QED
    BY <1>1, <2>1, <2>2, <2>3 DEF KeptOK
<1>5. QED
  BY <1>2, <1>3, <1>4 DEF Next, vars, git, CreateTask, Transition, RecordFacts, Repository,
                          ExpireReflog, CollectGarbage, ToggleBranch, SwitchVersionControl

\* The part of NothingDiscarded that holds: when a repository card is completed,
\* main contains every commit it has been on since the one from which it was moved
\* onto the verified commit (fast_forwarded_to).  What main had before that move
\* the gate does not look at.
THEOREM KeptSincePromotion ==
  Spec => [][ card'.status = "done" /\ card.status # "done" /\ card'.mode = "repository"
              => \E i \in 1..(Len(moves) - 1) :
                   /\ moves[i] = card'.sha["verified"]
                   /\ \A j \in 1..(i + 1) : IsAncestor(moves[j], main) ]_vars
<1> DEFINE Kept == \E i \in 1..(Len(moves) - 1) :
                     /\ moves[i] = card'.sha["verified"]
                     /\ \A j \in 1..(i + 1) : IsAncestor(moves[j], main)
           A == card'.status = "done" /\ card.status # "done" /\ card'.mode = "repository" => Kept
<1>1. Init => KeptOK
  <2> SUFFICES ASSUME Init PROVE KeptOK
    OBVIOUS
  <2>1. moves = <<First>> /\ main = First /\ First \in Ancestors[First]
    BY GateAssumption DEF Init
  <2>2. QED
    BY <2>1 DEF KeptOK, IsAncestor
<1>2. IInv /\ KeptOK /\ [Next]_vars => KeptOK'
  BY KeptNext
<1>3. IInv /\ KeptOK /\ [Next]_vars => [A]_vars
  <2> SUFFICES ASSUME IInv, KeptOK, Next, card'.status = "done", card.status # "done",
                      card'.mode = "repository"
               PROVE  Kept
    OBVIOUS
  <2>1. /\ GateOpen(card') /\ card'.base \in Commit \cup {None}
        /\ card'.sha["candidate"] \in Commit \cup {None}
    BY Completing
  <2>2. Promoted(card'.sha["verified"])
    BY <2>1, GateShows
  <2>3. PICK i \in 1..(Len(moves) - 1) :
          /\ moves[i] = card'.sha["verified"]
          /\ \A j \in 1..i : moves[j + 1] # None /\ IsAncestor(moves[j + 1], moves[j])
    BY <2>2 DEF Promoted
  <2>4. main # None /\ moves[1] = main /\ Len(moves) \in Nat
    BY <2>1 DEF GateOpen, KeptOK, IInv, LogOK
  <2>5. ASSUME NEW j \in 1..(i + 1) PROVE IsAncestor(moves[j], main)
    <3>1. j \in 1..Len(moves) /\ \A l \in 1..(j - 1) : l \in 1..i
      BY <2>4
    <3>2. ForwardSince(j)
      BY <2>3, <3>1 DEF ForwardSince
    <3>3. moves[j] # None
      <4>1. CASE j = 1
        BY <2>4, <4>1
      <4>2. CASE j # 1
        <5>1. j - 1 \in 1..i /\ (j - 1) + 1 = j
          BY <4>2
        <5>2. QED
          BY <2>3, <5>1
      <4>3. QED
        BY <4>1, <4>2
    <3>4. QED
      BY <2>4, <3>1, <3>2, <3>3 DEF KeptOK
  <2>6. QED
    BY <2>3, <2>5
<1>4. QED
  BY <1>1, <1>2, <1>3, Inductive, PTL DEF Spec

\* The part of DoneVerified that holds: a repository card is completed with one
\* commit as candidate, verified and promoted, and names it from then on, unless
\* update_task records other facts on the completed card (run gate_terminal).
THEOREM VerifiedUntilRecorded ==
  Spec => [][ DoneVerified /\ ~(RecordFacts /\ card.status = "done") => DoneVerified' ]_vars
<1>1. IInv /\ [Next]_vars =>
        [DoneVerified /\ ~(RecordFacts /\ card.status = "done") => DoneVerified']_vars
  <2> SUFFICES ASSUME IInv, Next, DoneVerified, ~(RecordFacts /\ card.status = "done"),
                      card'.status = "done", card'.mode = "repository"
               PROVE  \A f \in Shas : card'.sha[f] # None /\ card'.sha[f] = card'.sha["candidate"]
    BY DEF DoneVerified
  <2>1. CASE Transition
    BY <2>1, TransitionCard DEF GateOpen
  <2>2. CASE CreateTask
    BY <2>2 DEF CreateTask, IInv, TypeOK
  <2>3. CASE RecordFacts
    BY <2>3, RecordFactsCard
  <2>4. CASE Repository
    BY <2>4 DEF Repository, MoveMain, DeleteMain, ExpireReflog, CollectGarbage,
                ToggleBranch, SwitchVersionControl, DoneVerified
  <2>5. QED
    BY <2>1, <2>2, <2>3, <2>4 DEF Next
<1>2. QED
  BY Inductive, <1>1, PTL DEF Spec
=============================================================================
