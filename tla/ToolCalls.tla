----------------------------- MODULE ToolCalls ------------------------------
(***************************************************************************)
(* The path of a TeamFlow tool call: the MCP server that relays it, the    *)
(* daemon's ToolRuntime that authorises and executes it, and the write to  *)
(* the Lark board.                                                         *)
(*                                                                         *)
(*   core/mcp_server.py                the relay and its retries           *)
(*   core/tool_runtime.py              grants, result cache, sealed turns, *)
(*                                     task and runtime locks              *)
(*   core/teamflow_tool_dispatcher.py  which function a tool is            *)
(*   core/teamflow_tools.py            read, prepare, re-read, write, wait *)
(*                                     until the write is visible          *)
(*                                                                         *)
(* One workspace, one card and the cards that calls create.  A call is one *)
(* invocation id; each try of the relay is a request of its own, which the *)
(* daemon serves on a thread of its own: the thread of a try the relay has *)
(* given up may still be running.  Which transitions the workflow admits   *)
(* is module TaskLifecycle; here a call moves the card from one status to  *)
(* another.  What a call does to the delivery and execution rows is module *)
(* TaskDelivery.  The tools that only read, and stop_task_execution, which *)
(* takes a lock of its own, write nothing to the board and are left out.   *)
(***************************************************************************)
EXTENDS Naturals, FiniteSets

CONSTANTS
  Call,        \* invocations: one uuid4 per tool call of an agent
  Kind,        \* the kind of tool each calls
  From, To,    \* the card's status it starts from and moves the card to
  TurnOf,      \* the Codex turn each is made in
  Delivered,   \* turns that were started to deliver the card
  Tries,       \* bound: requests the relay makes for a call in 60 s
  Status,      \* statuses of the card
  Start,       \* its status in the beginning
  None,        \* NULL, or nobody
  MaxCrashes,  \* bound: daemon crashes
  MaxChanges,  \* bound: changes people make: changes, toggles, registrations
  Incidents    \* which of the incidents below may happen

\* "edit": people edit the card; "toggle": the workspace is disabled and
\* enabled; "staff": a session is given to another agent; "fails": a request to
\* Lark fails; "late": a write reaches the board after the thread that sent it
\* has gone.
IncidentKinds == {"edit", "toggle", "staff", "fails", "late"}
\* handoff: route, submit, block, review and cancel; write: update and claim
KindOf == {"handoff", "write", "create"}

ASSUME CallsAssumption ==
  /\ Kind \in [Call -> KindOf]
  /\ Tries \in [Call -> Nat \ {0}] /\ Start \in Status
  /\ From \in [Call -> Status] /\ To \in [Call -> Status]
  /\ None \notin Call /\ None \notin Status
  /\ MaxCrashes \in Nat /\ MaxChanges \in Nat
  /\ Incidents \subseteq IncidentKinds

VARIABLES
  relay,     \* the MCP server's loop for a call: where it is, and which try
  handler,   \* the grant of a try, then the daemon's thread that serves it
  results,   \* invocations whose result is cached, an error as well
  closed,    \* closed_turns
  lock,      \* the holder of the workspace's task lock
  card,      \* the card's status on the board
  tokens,    \* client_tokens Lark has seen
  writes,    \* how often a write of the call has changed the board
  air,       \* writes that were sent to Lark and have not arrived
  author,    \* who changed the card last: a call, "human" or "late"
  ended,     \* turns in which a caller was told to end the turn
  route,     \* runtime.routes has the workspace
  enabled,   \* workspaces.enabled
  disable,   \* a disable request: none, waiting for the lock, or returned
  agent,     \* the agent id the session of a turn is registered for
  up, crashes, changes

memory == <<handler, results, closed, lock>>
board == <<card, tokens, writes, air, author>>
workspace == <<route, enabled, disable, agent>>
process == <<up, crashes>>
vars == <<relay, memory, board, ended, workspace, process, changes>>

Try == UNION {{c} \X (1..Tries[c]) : c \in Call}
ASSUME NobodyAssumption == None \notin Try
Turn == {TurnOf[c] : c \in Call}
Agents == {"a1", "a2"}
\* "granted": authorised, and not invoked yet.  A thread then waits for its
\* lock (enter), reads the card, reads it again and sends its write, and waits
\* until the write can be read (sent).
Steps == {"none", "granted", "enter", "read", "recheck", "sent"}
NoThread == [pc |-> "none", agent |-> None, seen |-> None]

\* Type invariant; the relay makes no more than its share of tries.
TypeOK ==
  /\ relay \in [Call -> [pc : {"authorize", "invoke", "wait", "done"},
                         n : Nat]]
  /\ \A c \in Call : relay[c].n \in 1..Tries[c]
  /\ handler \in [Try -> [pc : Steps, agent : Agents \cup {None},
                          seen : Status \cup {None}]]
  /\ results \subseteq Call
  /\ closed \subseteq Turn /\ ended \subseteq Turn
  /\ lock \in Try \cup {None}
  /\ card \in Status /\ writes \in [Call -> Nat] /\ air \subseteq Try
  /\ author \in Call \cup {None, "human", "late"}
  /\ route \in BOOLEAN /\ enabled \in BOOLEAN
  /\ disable \in {"none", "waiting", "returned"}
  /\ agent \in [Turn -> Agents \cup {None}]
  /\ up \in BOOLEAN /\ crashes \in 0..MaxCrashes /\ changes \in 0..MaxChanges

-----------------------------------------------------------------------------
(* The relay: _invoke of the MCP server.                                    *)

Now(c) == <<c, relay[c].n>>
\* _daemon_unavailable: the relay starts again with another authorisation,
\* unless its 60 seconds have passed.
Again_Unbounded(c) ==
  relay' = [relay EXCEPT ![c].pc = "authorize", ![c].n = @ + 1]
Again(c) ==
  \/ /\ relay[c].n < Tries[c]
     /\ relay' = [relay EXCEPT ![c].pc = "authorize", ![c].n = @ + 1]
  \/ relay' = [relay EXCEPT ![c].pc = "done"]

\* No daemon, no answer within 30 seconds, or a connection closed without
\* one.  A thread that serves the try is not told.
Unanswered(c) ==
  /\ relay[c].pc \in {"authorize", "invoke", "wait"}
  /\ relay[c].pc = "invoke" => ~up
  /\ Again(c)
  /\ UNCHANGED <<memory, board, ended, workspace, process, changes>>

\* ToolRuntime.authorize.  The grant of an answer that is lost is never used.
Sealed(c) == TurnOf[c] \in closed
Authorize(c) ==
  /\ up /\ relay[c].pc = "authorize"
  /\ IF /\ route /\ enabled /\ agent[TurnOf[c]] # None
        /\ Sealed(c) => c \in results
     THEN /\ handler' = [handler EXCEPT ![Now(c)] =
                           [NoThread EXCEPT !.pc = "granted", !.agent = agent[TurnOf[c]]]]
          /\ relay' = [relay EXCEPT ![c].pc = "invoke"]
     ELSE /\ relay' = [relay EXCEPT ![c].pc = "done"]
          /\ UNCHANGED handler
  /\ UNCHANGED <<results, closed, lock, board, ended, workspace,
                 process, changes>>

\* The answer of a thread reaches the relay if the relay still waits for it.
Reply(h) ==
  relay' = IF relay[h[1]].pc = "wait" /\ Now(h[1]) = h
           THEN [relay EXCEPT ![h[1]].pc = "done"]
           ELSE relay

-----------------------------------------------------------------------------
(* A thread of the daemon: ToolRuntime.invoke.                              *)

Leave(h) == handler' = [handler EXCEPT ![h] = NoThread]
Release(h) == lock' = IF lock = h THEN None ELSE lock
\* An exception in the thread: nothing is cached or sealed, locks are
\* released, and the error goes to the relay, which takes some for an
\* unavailable daemon ("connection refused" in a message from Lark).
Raise_KeepsLock(h) ==
  /\ Leave(h) /\ Reply(h) /\ UNCHANGED <<lock, results, closed, ended>>
Raise(h) ==
  /\ Leave(h) /\ Release(h)
  /\ \/ Reply(h)
     \/ relay[h[1]].pc = "wait" /\ Now(h[1]) = h /\ Again(h[1])
  /\ UNCHANGED <<results, closed, ended>>

\* _validate_workspace and _current_assignment against the grant.
Valid(h) == route /\ enabled /\ agent[TurnOf[h[1]]] = handler[h].agent
\* The checks before a call goes on: it was answered before, its turn is
\* sealed, the workspace or the assignment changed.  Done when the request
\* comes in, and again under the lock.
Passes_SealUnchecked(h) == h[1] \notin results /\ Valid(h)
Passes(h) == h[1] \notin results /\ ~Sealed(h[1]) /\ Valid(h)

\* The invoke request.  A grant is used once; one that a restarted daemon does
\* not know counts as an unavailable daemon.
Invoke(c) ==
  LET h == Now(c) IN
  /\ up /\ relay[c].pc = "invoke"
  /\ \/ handler[h].pc # "granted" /\ Again(c) /\ UNCHANGED handler
     \/ /\ handler[h].pc = "granted" /\ ~Passes(h) /\ Leave(h)
        /\ relay' = [relay EXCEPT ![c].pc = "done"]
     \/ /\ handler[h].pc = "granted" /\ Passes(h)
        /\ handler' = [handler EXCEPT ![h].pc = "enter"]
        /\ relay' = [relay EXCEPT ![c].pc = "wait"]
  /\ UNCHANGED <<results, closed, lock, board, ended, workspace,
                 process, changes>>

\* A thread gets the task lock of the workspace and makes its checks again.
Take(h) == lock = None /\ lock' = h
Enter(h) ==
  /\ handler[h].pc = "enter"
  /\ \/ /\ lock = None /\ ~Passes(h) /\ Leave(h) /\ Reply(h)
        /\ UNCHANGED lock
     \/ /\ Passes(h) /\ Take(h) /\ UNCHANGED relay
        /\ handler' = [handler EXCEPT ![h].pc =
                         IF Kind[h[1]] = "create" THEN "recheck" ELSE "read"]
  /\ UNCHANGED <<results, closed, board, ended, workspace, process, changes>>

\* The end of a call: a successful handoff of the delivered card ends the
\* turn; the result is cached, the turn sealed, the lock released.
EndsTurn(h, res) == /\ Kind[h[1]] = "handoff" /\ res = "ok"
                    /\ TurnOf[h[1]] \in Delivered
Seal(h, res) == IF EndsTurn(h, res) THEN closed \cup {TurnOf[h[1]]} ELSE closed
Finish(h, res) ==
  /\ results' = results \cup {h[1]}
  /\ closed' = Seal(h, res)
  /\ ended' = IF EndsTurn(h, res) THEN ended \cup {TurnOf[h[1]]} ELSE ended
  /\ Leave(h) /\ Release(h) /\ Reply(h)

\* _execute_existing_action reads the card: the change is there already, the
\* status does not admit it, or it is prepared.
Read(h) ==
  LET c == h[1] IN
  /\ handler[h].pc = "read"
  /\ \/ /\ card = From[c] /\ card # To[c]
        /\ handler' = [handler EXCEPT ![h].pc = "recheck", ![h].seen = card]
        /\ UNCHANGED <<relay, results, closed, ended, lock>>
     \/ card = To[c] /\ Finish(h, "ok")
     \/ card \notin {From[c], To[c]} /\ Finish(h, "error")
  /\ UNCHANGED <<board, workspace, process, changes>>

\* The card is read again, must be the same, and the write leaves
\* (upsert_lark_task).  A create writes at once.
Send_Unlocks(h) ==
  /\ handler[h].pc = "recheck"
  /\ IF Kind[h[1]] = "create" \/ card = handler[h].seen
     THEN /\ handler' = [handler EXCEPT ![h].pc = "sent"]
          /\ air' = air \cup {h} /\ Release(h)
          /\ UNCHANGED <<relay, results, closed, ended>>
     ELSE Finish(h, "error") /\ UNCHANGED air
  /\ UNCHANGED <<card, tokens, writes, author, workspace, process, changes>>
Send(h) ==
  /\ handler[h].pc = "recheck"
  /\ IF Kind[h[1]] = "create" \/ card = handler[h].seen
     THEN /\ handler' = [handler EXCEPT ![h].pc = "sent"]
          /\ air' = air \cup {h}
          /\ UNCHANGED <<relay, results, closed, ended, lock>>
     ELSE Finish(h, "error") /\ UNCHANGED air
  /\ UNCHANGED <<card, tokens, writes, author, workspace, process, changes>>

\* The client_token of a write: the invocation id, whichever try it is.
Token_PerTry(h) == h
Token(h) == h[1]

\* Lark executes a write, unless it has seen the token before.
Arrive(h) ==
  LET c == h[1]
      new == Token(h) \notin tokens IN
  /\ h \in air
  /\ air' = air \ {h} /\ tokens' = tokens \cup {Token(h)}
  /\ writes' = [writes EXCEPT ![c] = IF new THEN @ + 1 ELSE @]
  /\ IF new /\ Kind[c] # "create"
     THEN card' = To[c] /\ author' = IF handler[h].pc = "sent" THEN c ELSE "late"
     ELSE UNCHANGED <<card, author>>
  /\ UNCHANGED <<relay, memory, ended, workspace, process, changes>>

\* _visible_write: a success only if the change can be read.  Reads of Lark
\* may lag behind a write for longer than the ten seconds.
Confirm(h) ==
  LET c == h[1] IN
  /\ handler[h].pc = "sent" /\ h \notin air
  /\ \/ (Kind[c] = "create" \/ card = To[c]) /\ Finish(h, "ok")
     \/ Finish(h, "error")
  /\ UNCHANGED <<board, workspace, process, changes>>

\* A request to Lark fails, or the bookkeeping of the call does.
Fails(h) ==
  /\ "fails" \in Incidents /\ handler[h].pc \in {"read", "recheck", "sent"}
  /\ Raise(h)
  /\ air' = IF "late" \in Incidents THEN air ELSE air \ {h}
  /\ UNCHANGED <<card, tokens, writes, author, workspace, process, changes>>

-----------------------------------------------------------------------------
(* People, the workspace and the process.                                   *)

\* Something a person does, while the bound lasts.
Change(kind) == /\ kind \in Incidents /\ changes < MaxChanges
                /\ changes' = changes + 1

EditCard ==
  /\ Change("edit")
  /\ \E s \in Status \ {card} : card' = s
  /\ author' = "human"
  /\ UNCHANGED <<relay, memory, tokens, writes, air, ended, workspace, process>>

\* disable_workspace clears the flag, waits for the task lock, and takes the
\* route away.
Disable ==
  /\ Change("toggle") /\ up /\ disable # "waiting" /\ enabled
  /\ enabled' = FALSE /\ disable' = "waiting"
  /\ UNCHANGED <<relay, memory, board, ended, route, agent, process>>
DisableEnds_Unlocked ==
  /\ disable = "waiting" /\ up
  /\ route' = FALSE /\ disable' = "returned"
  /\ UNCHANGED <<relay, memory, board, ended, enabled, agent, process, changes>>
DisableEnds ==
  /\ disable = "waiting" /\ up /\ lock = None
  /\ route' = FALSE /\ disable' = "returned"
  /\ UNCHANGED <<relay, memory, board, ended, enabled, agent, process, changes>>
Enable ==
  /\ up /\ ~enabled
  /\ enabled' = TRUE /\ route' = TRUE
  /\ disable' = IF disable = "waiting" THEN disable ELSE "none"
  /\ UNCHANGED <<relay, memory, board, ended, agent, process, changes>>

\* A session is registered for another agent, or for none.
Reassign ==
  /\ Change("staff")
  /\ \E t \in Turn : \E a \in (Agents \cup {None}) \ {agent[t]} :
       agent' = [agent EXCEPT ![t] = a]
  /\ UNCHANGED <<relay, memory, board, ended, route, enabled, disable, process>>

Crash ==
  /\ up /\ crashes < MaxCrashes
  /\ up' = FALSE /\ crashes' = crashes + 1
  /\ handler' = [h \in Try |-> NoThread] /\ results' = {}
  /\ closed' = {} /\ lock' = None
  /\ air' = IF "late" \in Incidents THEN air ELSE {}
  /\ route' = FALSE /\ disable' = IF disable = "waiting" THEN "none" ELSE disable
  /\ UNCHANGED <<relay, card, tokens, writes, author, ended, enabled, agent, changes>>
Restart ==
  /\ ~up /\ up' = TRUE /\ route' = enabled
  /\ UNCHANGED <<relay, memory, board, ended, enabled, disable, agent, crashes,
                 changes>>

-----------------------------------------------------------------------------
Init ==
  /\ relay = [c \in Call |-> [pc |-> "authorize", n |-> 1]]
  /\ handler = [h \in Try |-> NoThread] /\ results = {}
  /\ closed = {} /\ ended = {} /\ lock = None
  /\ card = Start /\ tokens = {} /\ writes = [c \in Call |-> 0]
  /\ air = {} /\ author = None
  /\ route = TRUE /\ enabled = TRUE /\ disable = "none" /\ agent = [t \in Turn |-> "a1"]
  /\ up = TRUE /\ crashes = 0 /\ changes = 0

Thread(h) == Enter(h) \/ Read(h) \/ Send(h) \/ Confirm(h) \/ Fails(h)
Relay(c) == Authorize(c) \/ Invoke(c) \/ Unanswered(c)
Next ==
  \/ \E c \in Call : Relay(c)
  \/ \E h \in Try : Thread(h) \/ Arrive(h)
  \/ EditCard \/ Disable \/ DisableEnds \/ Enable \/ Reassign
  \/ Crash \/ Restart

Spec == Init /\ [][Next]_vars

\* The relay and the threads run, Lark executes what it was sent, a crashed
\* daemon is started again, and a waiting disable request gets the lock.
FairSpec ==
  /\ Spec /\ WF_vars(Restart) /\ WF_vars(DisableEnds)
  /\ \A c \in Call : WF_vars(Relay(c))
  /\ \A h \in Try : WF_vars(Thread(h)) /\ WF_vars(Arrive(h))

-----------------------------------------------------------------------------
(* Properties                                                               *)

\* One invocation changes the board at most once, however often the relay
\* tries it, whichever daemon serves the tries, and whenever a write that was
\* sent arrives.
OneEffect == \A c \in Call : writes[c] <= 1

\* The card is as a call that will write has read it, or a person, or a write
\* whose thread is gone, has changed it since: no call overwrites what another
\* call wrote in between (_execute_existing_action under the lock).
NoLostUpdate ==
  \A h \in Try :
    /\ handler[h].pc = "recheck" \/ (handler[h].pc = "sent" /\ h \in air)
    /\ Kind[h[1]] # "create"
    => card = handler[h].seen \/ author \in {"human", "late"}

\* Once a turn is sealed, no call of it is about to write.
SealedTurnQuiet ==
  \A h \in Try : handler[h].pc = "recheck" => TurnOf[h[1]] \notin closed

\* The same of every turn whose caller was ever told to end it.  A restarted
\* daemon has forgotten the sealed turns.
HandoffFinal ==
  \A h \in Try : handler[h].pc = "recheck" => TurnOf[h[1]] \notin ended

\* When disable_workspace has returned, no call is under way that could still
\* write to the board.
DisableDrains == disable = "returned" /\ ~enabled => lock = None

\* A disable request returns: every call gives the task lock back, whether it
\* ends, fails, or dies with the daemon.
DisableReturns == disable = "waiting" ~> disable # "waiting"
=============================================================================
