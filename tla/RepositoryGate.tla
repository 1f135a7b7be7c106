--------------------------- MODULE RepositoryGate ---------------------------
(***************************************************************************)
(* Repository delivery: what agents may record about their commits, and    *)
(* the facts about main that must hold before a card is completed.         *)
(*                                                                         *)
(*   core/delivery.py        modes, baseline, recorded commits, the gate   *)
(*   core/git_facts.py       what is read from the repository              *)
(*   core/teamflow_tools.py  _apply_delivery, _execute_existing_action     *)
(*                                                                         *)
(* One card.  Who may make which transition is module TaskLifecycle; here  *)
(* a transition is one of Moves.  Commits and their ancestry are constants.*)
(* The repository belongs to people and agents: between two calls main is  *)
(* advanced, forced, deleted and made again, its reflog expires, objects   *)
(* are collected, and the version control switch is turned.  A probe of    *)
(* git that fails refuses the call, which changes nothing.                 *)
(***************************************************************************)
EXTENDS Naturals, FiniteSets, Sequences

CONSTANTS
  Commit, Ancestors,   \* commits, and the ancestors of each, itself included
  First,               \* where main is in the beginning
  Supplied,            \* commits agents record
  Branch,              \* temporary branches and worktrees agents declare
  Moves,               \* transitions: <<action, from, to>>
  None,                \* NULL, "", or no branch
  MaxMoves             \* bound: updates of main

ASSUME GateAssumption ==
  /\ First \in Commit /\ Supplied \subseteq Commit /\ None \notin Commit
  /\ Ancestors \in [Commit -> SUBSET Commit]
  /\ \A c \in Commit : c \in Ancestors[c]
  /\ \A c, d \in Commit : d \in Ancestors[c] => Ancestors[d] \subseteq Ancestors[c]
  /\ MaxMoves \in Nat

Modes == {"standard", "repository"}
Shas == {"candidate", "verified", "promoted"}   \* AGENT_SHA_FIELDS
Status == {m[2] : m \in Moves} \cup {m[3] : m \in Moves}

\* The software-development workflow: only a claim puts a card in progress, and
\* a cancelled card is canceled.
ASSUME WorkflowAssumption ==
  /\ None \notin Status \cup Modes /\ "backlog" \in Status
  /\ \A m \in Moves : /\ m[3] = "in_progress" => m[1] = "claim"
                      /\ m[1] = "cancel" => m[3] = "canceled"

VARIABLES
  card,      \* status, delivery mode, recorded commits, baseline, resources
  main,      \* refs/heads/main, or None
  log,       \* its reflog, the latest update first
  moves,     \* where main has been, the latest first: no reflog is this long
  branches,  \* branches and worktrees that exist
  objects,   \* commits the repository holds
  enabled    \* version_control_enabled of the workspace

git == <<main, log, moves, branches, objects>>
vars == <<card, git, enabled>>

\* Type invariant; a repository card in progress has its baseline, and a branch
\* that exists is where its reflog says.
TypeOK ==
  /\ card \in [status : Status \cup {None}, mode : Modes \cup {None},
               sha : [Shas -> Commit \cup {None}], base : Commit \cup {None},
               resources : SUBSET Branch]
  /\ main \in Commit \cup {None} /\ (main # None => main = Head(log))
  /\ branches \subseteq Branch /\ objects \subseteq Commit
  /\ Len(moves) <= MaxMoves + 1 /\ Len(log) <= Len(moves) /\ enabled \in BOOLEAN
  /\ card.status = "in_progress" /\ card.mode = "repository" => card.base # None

-----------------------------------------------------------------------------
(* git_facts.py                                                             *)

IsAncestor(a, c) == a \in Ancestors[c]
CommitExists(c) == c \in objects

\* The reflog shows main moving onto the commit, and only forward since.
FastForwardedTo_Reached(c) ==
  \E i \in 1..(Len(log) - 1) : log[i] = c /\ IsAncestor(log[i + 1], log[i])
FastForwardedTo(c) ==
  \E i \in 1..(Len(log) - 1) :
    log[i] = c /\ \A j \in 1..i : IsAncestor(log[j + 1], log[j])

-----------------------------------------------------------------------------
(* delivery.py                                                              *)

\* resolve_create_mode: the modes a card may be created with.
CreateMode(requested) ==
  CASE requested = None -> {IF enabled THEN None ELSE "standard"}
    [] requested = "repository" /\ ~enabled -> {}
    [] OTHER -> {requested}

\* resolve_transition_mode: the card's mode after the call, or no mode when the
\* call is refused.
TransitionMode_Unset(requested, action, to) ==
  IF requested # None THEN {requested} \ (IF enabled THEN {} ELSE {"repository"})
  ELSE IF card.mode # None THEN {card.mode}
  ELSE {IF enabled THEN None ELSE "standard"}
TransitionMode_Unlocked(requested, action, to) ==
  IF requested # None
  THEN IF requested = "repository" /\ ~enabled /\ card.mode # "repository"
       THEN {} ELSE {requested}
  ELSE IF card.mode # None THEN {card.mode}
  ELSE IF ~enabled THEN {"standard"}
  ELSE IF action # "cancel" /\ to # None THEN {} ELSE {None}
TransitionMode(requested, action, to) ==
  IF requested # None
  THEN IF \/ requested = "repository" /\ ~enabled /\ card.mode # "repository"
          \/ card.mode \notin {None, requested} /\ card.status # "backlog"
       THEN {} ELSE {requested}
  ELSE IF card.mode # None THEN {card.mode}
  ELSE IF ~enabled THEN {"standard"}
  ELSE IF action # "cancel" /\ to # None THEN {} ELSE {None}

\* reject_repository_only_input and verify_supplied_shas
Acceptable(mode, input) ==
  /\ DOMAIN input.sha # {} \/ input.resources # {} => mode = "repository"
  /\ \A f \in DOMAIN input.sha : CommitExists(input.sha[f])

\* claim_baseline: pinned at the first claim of a repository card.
ClaimBaseline_Missing(action, mode) ==
  IF action # "claim" \/ mode # "repository" \/ card.base # None
  THEN {card.base} ELSE {main}
ClaimBaseline(action, mode) ==
  IF action # "claim" \/ mode # "repository" \/ card.base # None
  THEN {card.base} ELSE {main} \ {None}

\* append_resources: the saved JSON is parsed, what is new is appended, and the
\* result is rendered again; nothing declared is lost.
AppendResources(declared, added) == declared \cup added
\* _apply_delivery: the card after a call.
Recorded(mode, base, input, to) ==
  [card EXCEPT
     !.mode = mode, !.base = base, !.resources = AppendResources(@, input.resources),
     !.sha = [f \in Shas |-> IF f \in DOMAIN input.sha THEN input.sha[f] ELSE @[f]],
     !.status = IF to = None THEN @ ELSE to]

\* completion_failure finds nothing.
GateOpen(new) ==
  LET c == new.sha["candidate"] IN
  \/ new.mode # "repository"
  \/ /\ \A f \in Shas : new.sha[f] = c
     /\ c # None /\ CommitExists(c)
     /\ new.base # None /\ CommitExists(new.base) /\ IsAncestor(new.base, c)
     /\ main # None /\ IsAncestor(c, main) /\ FastForwardedTo(c)
     /\ new.resources \cap branches = {}

-----------------------------------------------------------------------------
(* Tools.  An input names commits, declares resources, or asks for a mode.  *)

NoInput == [mode |-> None, sha |-> << >>, resources |-> {}]
Inputs ==
  {NoInput} \cup {[NoInput EXCEPT !.mode = m] : m \in Modes}
  \cup {[NoInput EXCEPT !.sha = [f \in F |-> c]] :
          F \in {Shas} \cup {{f} : f \in Shas}, c \in Supplied}
  \cup {[NoInput EXCEPT !.resources = {b}] : b \in Branch}

CreateTask ==
  /\ card.status = None
  /\ \E requested \in Modes \cup {None} : \E mode \in CreateMode(requested) :
       card' = [card EXCEPT !.status = "backlog", !.mode = mode]
  /\ UNCHANGED <<git, enabled>>

\* A transition: route, claim, submit, block, review, cancel.  Only submit_task
\* passes delivery facts on.
Transition ==
  \E m \in Moves :
    /\ card.status = m[2] /\ UNCHANGED <<git, enabled>>
    /\ \E input \in IF m[1] = "submit" THEN Inputs ELSE {NoInput} :
       \E mode \in TransitionMode(input.mode, m[1], m[3]) :
       \E base \in ClaimBaseline(m[1], mode) :
         /\ Acceptable(mode, input)
         /\ card' = Recorded(mode, base, input, m[3])
         /\ m[3] = "done" => GateOpen(card')

\* update_task with delivery facts only.  It matches the applied rule, so the
\* state the card is in does not matter.
RecordFacts ==
  /\ card.status # None /\ UNCHANGED <<git, enabled>>
  /\ \E input \in Inputs \ {NoInput} :
     \E mode \in TransitionMode(input.mode, "update", None) :
       /\ Acceptable(mode, input)
       /\ card' = Recorded(mode, card.base, input, None)

-----------------------------------------------------------------------------
(* The repository.                                                          *)

MoveMain ==
  /\ Len(moves) <= MaxMoves
  /\ \E c \in objects \ {main} :
       /\ main' = c /\ moves' = <<c>> \o moves
       /\ log' = IF main = None THEN <<c>> ELSE <<c>> \o log
  /\ UNCHANGED <<card, branches, objects, enabled>>
DeleteMain ==
  /\ main # None /\ Len(moves) <= MaxMoves
  /\ main' = None /\ log' = << >> /\ moves' = <<None>> \o moves
  /\ UNCHANGED <<card, branches, objects, enabled>>
ExpireReflog ==
  /\ Len(log) > 1 /\ log' = SubSeq(log, 1, Len(log) - 1)
  /\ UNCHANGED <<card, main, moves, branches, objects, enabled>>
\* Objects that no ref and no reflog leads to; a temporary branch leads to all.
CollectGarbage ==
  /\ branches = {}
  /\ objects' = objects \cap UNION {Ancestors[log[i]] : i \in DOMAIN log}
  /\ UNCHANGED <<card, main, log, moves, branches, enabled>>
ToggleBranch ==
  /\ \E b \in Branch : branches' = IF b \in branches THEN branches \ {b} ELSE branches \cup {b}
  /\ UNCHANGED <<card, main, log, moves, objects, enabled>>
SwitchVersionControl ==
  /\ enabled' = ~enabled /\ UNCHANGED <<card, git>>

Init ==
  /\ card = [status |-> None, mode |-> None, sha |-> [f \in Shas |-> None],
             base |-> None, resources |-> {}]
  /\ main = First /\ log = <<First>> /\ moves = <<First>>
  /\ branches = Branch /\ objects = Commit /\ enabled = TRUE
Repository == \/ MoveMain \/ DeleteMain \/ ExpireReflog \/ CollectGarbage
              \/ ToggleBranch \/ SwitchVersionControl
Next == CreateTask \/ Transition \/ RecordFacts \/ Repository
Spec == Init /\ [][Next]_vars

-----------------------------------------------------------------------------
(* Properties                                                               *)

\* When a repository card is completed, main has moved onto the verified commit
\* and only forward since, whatever the reflog has forgotten, was pinned below
\* it, and nothing the card ever declared is left, whichever way the version
\* control switch stands.
Promoted(c) ==
  \E i \in 1..(Len(moves) - 1) :
    moves[i] = c /\ \A j \in 1..i : moves[j + 1] # None /\ IsAncestor(moves[j + 1], moves[j])
CompletedInMain ==
  [][ card'.status = "done" /\ card.status # "done" /\ card'.mode = "repository"
      => /\ card'.sha["verified"] # None /\ Promoted(card'.sha["verified"])
         /\ IsAncestor(card'.base, main)
         /\ card'.resources \cap branches = {} ]_vars

\* Once a card has left the backlog its mode is settled; its baseline, once
\* pinned, is never moved; what it declared is never taken back.
DeliveryFixed ==
  [][ /\ card.status \notin {None, "backlog"} /\ card.mode # None
         => card'.mode = card.mode
      /\ card.base # None => card'.base = card.base
      /\ card.resources \subseteq card'.resources ]_vars

\* A card that work has started on has a mode, and a completed one was claimed:
\* turning version control on later leaves no card without either.
ModeSettled ==
  /\ card.status \notin {None, "backlog", "canceled"} => card.mode # None
  /\ card.status = "done" /\ card.mode = "repository" => card.base # None

\* A completed repository card names one commit as candidate, verified and
\* promoted.
DoneVerified ==
  card.status = "done" /\ card.mode = "repository"
    => \A f \in Shas : card.sha[f] # None /\ card.sha[f] = card.sha["candidate"]

\* When a repository card is completed, main contains everything it contained
\* since it was where the card's baseline is.
NothingDiscarded ==
  [][ card'.status = "done" /\ card.status # "done" /\ card'.mode = "repository"
      => \A i \in DOMAIN moves : IsAncestor(card'.base, moves[i])
                                    => IsAncestor(moves[i], main) ]_vars
=============================================================================
