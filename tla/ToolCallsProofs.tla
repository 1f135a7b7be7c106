-------------------------- MODULE ToolCallsProofs ---------------------------
(***************************************************************************)
(* What the task lock, the client token and the sealed turns guarantee     *)
(* for any number of calls, tries and crashes: proofs about ToolCalls.     *)
(*                                                                         *)
(* A thread holds the task lock from its checks to its end, and no other   *)
(* thread is then between its checks and its write (LockOK).  That rests   *)
(* on a fact about the relay: the try it makes next has no thread yet, so  *)
(* an authorisation never takes the place of a thread that is still        *)
(* running for a try the relay has given up (RelayOK).                     *)
(***************************************************************************)
EXTENDS ToolCalls, TLAPS

Inside == {"read", "recheck", "sent"}

\* The holder of the workspace's task lock is the one thread past its checks.
LockOK == \A h \in Try : handler[h].pc \in Inside <=> lock = h
\* A try that was not authorised has neither a grant nor a thread.
RelayOK ==
  \A h \in Try : \/ h[2] > relay[h[1]].n
                 \/ h[2] = relay[h[1]].n /\ relay[h[1]].pc = "authorize"
                 => handler[h].pc = "none"
\* A write that changed the board has left its token with Lark.
TokenOK == \A c \in Call : writes[c] = 0 \/ (writes[c] = 1 /\ c \in tokens)
\* A thread past its checks belongs to a turn that is not sealed.
SealOK == \A h \in Try : handler[h].pc \in Inside => TurnOf[h[1]] \notin closed

IInv == /\ TypeOK /\ LockOK /\ RelayOK /\ TokenOK /\ SealOK
        /\ NoLostUpdate /\ DisableDrains

-----------------------------------------------------------------------------
(* Tries and threads.                                                       *)

\* A try is a call and a number within the call's share.
LEMMA TryParts ==
  ASSUME NEW h \in Try
  PROVE  h[1] \in Call /\ h[2] \in 1..Tries[h[1]] /\ h = <<h[1], h[2]>> /\ h # None
BY NobodyAssumption DEF Try

\* The relay's present try is one.
LEMMA NowTry ==
  ASSUME TypeOK, NEW c \in Call
  PROVE  Now(c) \in Try /\ Now(c)[1] = c /\ Now(c)[2] = relay[c].n
BY DEF TypeOK, Now, Try

\* The relay after another try, or an end: it never goes back to an earlier try,
\* and nothing of another call is touched.
LEMMA AgainRelay ==
  ASSUME TypeOK, NEW c \in Call, Again(c)
  PROVE  /\ relay' \in [Call -> [pc : {"authorize", "invoke", "wait", "done"}, n : Nat]]
         /\ \A d \in Call : relay'[d].n \in 1..Tries[d]
         /\ \A d \in Call : d # c => relay'[d] = relay[d]
         /\ \/ relay'[c].pc = "authorize" /\ relay'[c].n = relay[c].n + 1
            \/ relay'[c].pc = "done" /\ relay'[c].n = relay[c].n
<1>1. relay[c] \in [pc : {"authorize", "invoke", "wait", "done"}, n : Nat]
  BY DEF TypeOK
<1>2. Tries[c] \in Nat /\ relay[c].n \in 1..Tries[c]
  BY CallsAssumption DEF TypeOK
<1>3. CASE /\ relay[c].n < Tries[c]
           /\ relay' = [relay EXCEPT ![c].pc = "authorize", ![c].n = @ + 1]
  <2>1. relay'[c] = [pc |-> "authorize", n |-> relay[c].n + 1]
    BY <1>1, <1>3 DEF TypeOK
  <2>2. \A d \in Call : d # c => relay'[d] = relay[d]
    BY <1>3 DEF TypeOK
  <2>3. DOMAIN relay' = Call /\ relay' = [d \in Call |-> relay'[d]]
    BY <1>3 DEF TypeOK
  <2>4. relay[c].n + 1 \in Nat /\ relay[c].n + 1 \in 1..Tries[c]
    BY <1>2, <1>3
  <2>5. QED
    BY <2>1, <2>2, <2>3, <2>4 DEF TypeOK
<1>4. CASE relay' = [relay EXCEPT ![c].pc = "done"]
  BY <1>1, <1>4 DEF TypeOK
<1>5. QED
  BY <1>3, <1>4 DEF Again

\* What an answer does to the relay.
LEMMA ReplyRelay ==
  ASSUME TypeOK, NEW h \in Try, Reply(h)
  PROVE  /\ relay' \in [Call -> [pc : {"authorize", "invoke", "wait", "done"}, n : Nat]]
         /\ \A d \in Call : relay'[d].n = relay[d].n
         /\ \A d \in Call : relay'[d].pc = "authorize" => relay[d].pc = "authorize"
BY TryParts DEF TypeOK, Reply

\* The relay may go on as it does after an answer or a failure: the next try has
\* no thread.
LEMMA RelayGoesOn ==
  ASSUME TypeOK, RelayOK,
         \A d \in Call :
           \/ relay'[d].n = relay[d].n /\ (relay'[d].pc = "authorize" => relay[d].pc = "authorize")
           \/ relay'[d].n = relay[d].n + 1,
         \A h \in Try : handler'[h].pc = "none" \/ handler'[h] = handler[h]
  PROVE  RelayOK'
<1> SUFFICES ASSUME NEW h \in Try,
                    \/ h[2] > relay'[h[1]].n
                    \/ h[2] = relay'[h[1]].n /\ relay'[h[1]].pc = "authorize"
             PROVE  handler'[h].pc = "none"
  BY DEF RelayOK
<1>1. h[1] \in Call /\ h[2] \in Nat /\ relay[h[1]].n \in Nat
  BY TryParts, CallsAssumption DEF TypeOK
<1>2. handler[h].pc = "none"
  BY <1>1 DEF RelayOK
<1>3. QED
  BY <1>2

-----------------------------------------------------------------------------
(* The steps of the relay.                                                  *)

\* A try that no thread serves any more, or has not served yet: another try.
LEMMA UnansweredIInv ==
  ASSUME IInv, NEW c \in Call, Unanswered(c)
  PROVE  IInv'
<1>1. Again(c) /\ UNCHANGED <<memory, board, ended, workspace, process, changes>>
  BY DEF Unanswered
<1>2. TypeOK'
  BY <1>1, AgainRelay DEF IInv, TypeOK, memory, board, workspace, process
<1>3. RelayOK'
  BY <1>1, AgainRelay, RelayGoesOn DEF IInv, memory
<1>4. QED
  BY <1>1, <1>2, <1>3 DEF IInv, LockOK, TokenOK, SealOK, NoLostUpdate, DisableDrains,
                          memory, board, workspace

\* An authorisation is a grant for the present try, which had no thread.
LEMMA AuthorizeIInv ==
  ASSUME IInv, NEW c \in Call, Authorize(c)
  PROVE  IInv'
<1> DEFINE g == [NoThread EXCEPT !.pc = "granted", !.agent = agent[TurnOf[c]]]
<1>1. /\ relay[c].pc = "authorize"
      /\ UNCHANGED <<results, closed, lock, board, ended, workspace, process, changes>>
  BY DEF Authorize
<1>2. Now(c) \in Try /\ Now(c)[1] = c /\ Now(c)[2] = relay[c].n
  BY NowTry DEF IInv
<1>3. handler[Now(c)].pc = "none"
  BY <1>1, <1>2 DEF IInv, RelayOK
<1>4. CASE /\ agent[TurnOf[c]] # None
           /\ handler' = [handler EXCEPT ![Now(c)] = g]
           /\ relay' = [relay EXCEPT ![c].pc = "invoke"]
  <2>1. g \in [pc : Steps, agent : Agents \cup {None}, seen : Status \cup {None}] /\ g.pc = "granted"
    BY DEF IInv, TypeOK, NoThread, Steps, Turn
  <2>2. TypeOK'
    BY <1>1, <1>2, <1>4, <2>1 DEF IInv, TypeOK, board, workspace, process
  <2>3. \A h \in Try : h # Now(c) => handler'[h] = handler[h]
    BY <1>4 DEF IInv, TypeOK
  <2>4. handler'[Now(c)].pc = "granted"
    BY <1>2, <1>4, <2>1 DEF IInv, TypeOK
  <2>5. LockOK' /\ SealOK' /\ NoLostUpdate'
    BY <1>1, <1>3, <2>3, <2>4 DEF IInv, LockOK, SealOK, NoLostUpdate, Inside, board
  <2>6. RelayOK'
    <3> SUFFICES ASSUME NEW h \in Try,
                        \/ h[2] > relay'[h[1]].n
                        \/ h[2] = relay'[h[1]].n /\ relay'[h[1]].pc = "authorize"
                 PROVE  handler'[h].pc = "none"
      BY DEF RelayOK
    <3>1. h[1] \in Call /\ h[2] \in Nat /\ relay[h[1]].n \in Nat
      BY TryParts, CallsAssumption DEF IInv, TypeOK
    <3>2. /\ relay'[h[1]].n = relay[h[1]].n
          /\ relay'[h[1]].pc = "authorize" => relay[h[1]].pc = "authorize" /\ h[1] # c
      BY <1>4, <3>1 DEF IInv, TypeOK
    <3>3. h # Now(c) /\ handler[h].pc = "none"
      BY <1>2, <3>1, <3>2 DEF IInv, RelayOK
    <3>4. QED
      BY <2>3, <3>3
  <2>7. QED
    BY <1>1, <2>2, <2>5, <2>6 DEF IInv, TokenOK, DisableDrains, board, workspace
<1>5. CASE relay' = [relay EXCEPT ![c].pc = "done"] /\ UNCHANGED handler
  <2>1. TypeOK'
    BY <1>1, <1>5 DEF IInv, TypeOK, board, workspace, process
  <2>2. \A d \in Call : relay'[d].n = relay[d].n
                        /\ (relay'[d].pc = "authorize" => relay[d].pc = "authorize")
    BY <1>5 DEF IInv, TypeOK
  <2>3. RelayOK'
    BY <1>5, <2>2, RelayGoesOn DEF IInv
  <2>4. QED
    BY <1>1, <1>5, <2>1, <2>3 DEF IInv, LockOK, TokenOK, SealOK, NoLostUpdate,
                                  DisableDrains, board, workspace
<1>6. QED
  BY <1>4, <1>5 DEF Authorize

\* The invoke request makes the grant a thread that waits for the lock, or ends it.
LEMMA InvokeIInv ==
  ASSUME IInv, NEW c \in Call, Invoke(c)
  PROVE  IInv'
<1> DEFINE h == Now(c)
<1>1. /\ relay[c].pc = "invoke"
      /\ UNCHANGED <<results, closed, lock, board, ended, workspace, process, changes>>
  BY DEF Invoke
<1>2. h \in Try /\ h[1] = c /\ h[2] = relay[c].n
  BY NowTry DEF IInv
<1>3. CASE Again(c) /\ UNCHANGED handler
  <2>1. TypeOK'
    BY <1>1, <1>3, AgainRelay DEF IInv, TypeOK, board, workspace, process
  <2>2. RelayOK'
    BY <1>3, AgainRelay, RelayGoesOn DEF IInv
  <2>3. QED
    BY <1>1, <1>3, <2>1, <2>2 DEF IInv, LockOK, TokenOK, SealOK, NoLostUpdate,
                                  DisableDrains, board, workspace
<1>4. CASE handler[h].pc = "granted" /\ Leave(h) /\ relay' = [relay EXCEPT ![c].pc = "done"]
  <2>1. /\ \A k \in Try : k # h => handler'[k] = handler[k]
        /\ handler'[h] = NoThread /\ NoThread.pc = "none"
    BY <1>2, <1>4 DEF IInv, TypeOK, Leave, NoThread
  <2>2. TypeOK'
    BY <1>1, <1>2, <1>4 DEF IInv, TypeOK, Leave, NoThread, Steps, board, workspace, process
  <2>3. \A d \in Call : relay'[d].n = relay[d].n
                        /\ (relay'[d].pc = "authorize" => relay[d].pc = "authorize")
    BY <1>4 DEF IInv, TypeOK
  <2>4. RelayOK'
    BY <2>1, <2>3, RelayGoesOn DEF IInv
  <2>5. QED
    BY <1>1, <1>4, <2>1, <2>2, <2>4 DEF IInv, LockOK, TokenOK, SealOK, NoLostUpdate,
                                        DisableDrains, Inside, board, workspace
<1>5. CASE /\ handler[h].pc = "granted" /\ handler' = [handler EXCEPT ![h].pc = "enter"]
           /\ relay' = [relay EXCEPT ![c].pc = "wait"]
  <2>1. /\ \A k \in Try : k # h => handler'[k] = handler[k]
        /\ handler'[h].pc = "enter"
    BY <1>2, <1>5 DEF IInv, TypeOK
  <2>2. TypeOK'
    BY <1>1, <1>2, <1>5 DEF IInv, TypeOK, Steps, board, workspace, process
  <2>3. \A d \in Call : /\ relay'[d].n = relay[d].n
                        /\ relay'[d].pc = "authorize" => relay[d].pc = "authorize" /\ d # c
    BY <1>5 DEF IInv, TypeOK
  <2>4. RelayOK'
    <3> SUFFICES ASSUME NEW k \in Try,
                        \/ k[2] > relay'[k[1]].n
                        \/ k[2] = relay'[k[1]].n /\ relay'[k[1]].pc = "authorize"
                 PROVE  handler'[k].pc = "none"
      BY DEF RelayOK
    <3>1. k[1] \in Call /\ k[2] \in Nat /\ relay[k[1]].n \in Nat
      BY TryParts, CallsAssumption DEF IInv, TypeOK
    <3>2. k # h /\ handler[k].pc = "none"
      BY <1>2, <2>3, <3>1 DEF IInv, RelayOK
    <3>3. QED
      BY <2>1, <3>2
  <2>5. QED
    BY <1>1, <1>5, <2>1, <2>2, <2>4 DEF IInv, LockOK, TokenOK, SealOK, NoLostUpdate,
                                        DisableDrains, Inside, board, workspace
<1>6. QED
  BY <1>3, <1>4, <1>5 DEF Invoke
-----------------------------------------------------------------------------
(* The steps of a thread.                                                   *)

\* A thread past its checks that ends gives the lock back, and leaves no other
\* thread past its checks.
LEMMA ThreadGone ==
  ASSUME IInv, NEW h \in Try, handler[h].pc \in Inside, Leave(h), Release(h)
  PROVE  /\ handler' \in [Try -> [pc : Steps, agent : Agents \cup {None},
                                  seen : Status \cup {None}]]
         /\ lock' = None
         /\ \A k \in Try : /\ handler'[k].pc \notin Inside
                           /\ handler'[k].pc = "none" \/ handler'[k] = handler[k]
         /\ LockOK' /\ SealOK' /\ NoLostUpdate' /\ DisableDrains'
<1>1. lock = h
  BY DEF IInv, LockOK
<1>2. /\ handler' \in [Try -> [pc : Steps, agent : Agents \cup {None},
                               seen : Status \cup {None}]]
      /\ lock' = None
  BY <1>1 DEF Leave, Release, IInv, TypeOK, NoThread, Steps
<1>3. \A k \in Try : /\ handler'[k].pc \notin Inside
                     /\ handler'[k].pc = "none" \/ handler'[k] = handler[k]
  BY <1>1 DEF Leave, IInv, TypeOK, LockOK, NoThread, Inside
<1>4. \A k \in Try : k # None
  BY TryParts
<1>5. QED
  BY <1>2, <1>3, <1>4 DEF LockOK, SealOK, NoLostUpdate, DisableDrains, Inside

\* The end of a call, with a result or an error: cached, sealed, unlocked.
LEMMA FinishIInv ==
  ASSUME IInv, NEW h \in Try, handler[h].pc \in Inside, NEW res, Finish(h, res),
         UNCHANGED <<board, workspace, process, changes>>
  PROVE  IInv'
<1>1. Leave(h) /\ Release(h) /\ Reply(h)
  BY DEF Finish
<1>2. results' \subseteq Call /\ closed' \subseteq Turn /\ ended' \subseteq Turn
  BY TryParts DEF Finish, Seal, IInv, TypeOK, Turn
<1>3. TypeOK'
  BY <1>1, <1>2, ThreadGone, ReplyRelay DEF IInv, TypeOK, board, workspace, process
<1>4. RelayOK'
  BY <1>1, ThreadGone, ReplyRelay, RelayGoesOn DEF IInv
<1>5. TokenOK'
  BY DEF IInv, TokenOK, board
<1>6. QED
  BY <1>1, <1>3, <1>4, <1>5, ThreadGone DEF IInv

\* A thread gets the task lock and passes its checks, or goes without it.
LEMMA EnterIInv ==
  ASSUME IInv, NEW h \in Try, Enter(h)
  PROVE  IInv'
<1>1. /\ handler[h].pc = "enter"
      /\ UNCHANGED <<results, closed, board, ended, workspace, process, changes>>
  BY DEF Enter
<1>2. CASE Leave(h) /\ Reply(h) /\ UNCHANGED lock
  <2>1. /\ handler' \in [Try -> [pc : Steps, agent : Agents \cup {None},
                                 seen : Status \cup {None}]]
        /\ \A k \in Try : handler'[k].pc = "none" \/ handler'[k] = handler[k]
        /\ \A k \in Try : k # h => handler'[k] = handler[k]
        /\ handler'[h].pc = "none"
    BY <1>2 DEF Leave, IInv, TypeOK, NoThread, Steps
  <2>2. TypeOK'
    BY <1>1, <1>2, <2>1, ReplyRelay DEF IInv, TypeOK, board, workspace, process
  <2>3. RelayOK'
    BY <1>2, <2>1, ReplyRelay, RelayGoesOn DEF IInv
  <2>4. QED
    BY <1>1, <1>2, <2>1, <2>2, <2>3 DEF IInv, LockOK, TokenOK, SealOK, NoLostUpdate,
                                        DisableDrains, Inside, board, workspace
<1>3. CASE /\ Passes(h) /\ Take(h) /\ UNCHANGED relay
           /\ handler' = [handler EXCEPT ![h].pc =
                            IF Kind[h[1]] = "create" THEN "recheck" ELSE "read"]
  <2>1. /\ handler' \in [Try -> [pc : Steps, agent : Agents \cup {None},
                                 seen : Status \cup {None}]]
        /\ \A k \in Try : k # h => handler'[k] = handler[k]
        /\ handler'[h].pc \in {"recheck", "read"}
        /\ Kind[h[1]] # "create" => handler'[h].pc = "read"
    BY <1>3 DEF IInv, TypeOK, Steps
  <2>2. lock = None /\ lock' = h /\ enabled /\ TurnOf[h[1]] \notin closed
    BY <1>3 DEF Take, Passes, Valid, Sealed
  <2>3. TypeOK'
    BY <1>1, <1>3, <2>1, <2>2 DEF IInv, TypeOK, board, workspace, process
  <2>4. LockOK'
    BY <2>1, <2>2, TryParts DEF IInv, LockOK, Inside
  <2>5. SealOK'
    BY <1>1, <2>1, <2>2 DEF IInv, SealOK
  <2>6. NoLostUpdate'
    BY <1>1, <2>1 DEF IInv, NoLostUpdate, board
  <2>7. RelayOK'
    BY <1>1, <1>3, <2>1 DEF IInv, RelayOK
  <2>8. QED
    BY <1>1, <2>2, <2>3, <2>4, <2>5, <2>6, <2>7 DEF IInv, TokenOK, DisableDrains, board,
                                                    workspace
<1>4. QED
  BY <1>2, <1>3 DEF Enter

\* The card is read: what the call will compare with is what the card is.
LEMMA ReadIInv ==
  ASSUME IInv, NEW h \in Try, Read(h)
  PROVE  IInv'
<1>1. handler[h].pc = "read" /\ UNCHANGED <<board, workspace, process, changes>>
  BY DEF Read
<1>2. CASE /\ handler' = [handler EXCEPT ![h].pc = "recheck", ![h].seen = card]
           /\ UNCHANGED <<relay, results, closed, ended, lock>>
  <2>1. /\ handler' \in [Try -> [pc : Steps, agent : Agents \cup {None},
                                 seen : Status \cup {None}]]
        /\ \A k \in Try : k # h => handler'[k] = handler[k]
        /\ handler'[h].pc = "recheck" /\ handler'[h].seen = card
    BY <1>2 DEF IInv, TypeOK, Steps
  <2>2. TypeOK'
    BY <1>1, <1>2, <2>1 DEF IInv, TypeOK, board, workspace, process
  <2>3. LockOK' /\ SealOK' /\ NoLostUpdate'
    BY <1>1, <1>2, <2>1 DEF IInv, LockOK, SealOK, NoLostUpdate, Inside, board
  <2>4. RelayOK'
    BY <1>1, <1>2, <2>1 DEF IInv, RelayOK
  <2>5. QED
    BY <1>1, <1>2, <2>2, <2>3, <2>4 DEF IInv, TokenOK, DisableDrains, board, workspace
<1>3. CASE \E res \in {"ok", "error"} : Finish(h, res)
  BY <1>1, <1>3, FinishIInv DEF Inside
<1>4. QED
  BY <1>2, <1>3 DEF Read

\* The write leaves under the lock, from a card that was found unchanged.
LEMMA SendIInv ==
  ASSUME IInv, NEW h \in Try, Send(h)
  PROVE  IInv'
<1>1. /\ handler[h].pc = "recheck"
      /\ UNCHANGED <<card, tokens, writes, author, workspace, process, changes>>
  BY DEF Send
<1>2. CASE /\ Kind[h[1]] = "create" \/ card = handler[h].seen
           /\ handler' = [handler EXCEPT ![h].pc = "sent"] /\ air' = air \cup {h}
           /\ UNCHANGED <<relay, results, closed, ended, lock>>
  <2>1. /\ handler' \in [Try -> [pc : Steps, agent : Agents \cup {None},
                                 seen : Status \cup {None}]]
        /\ \A k \in Try : k # h => handler'[k] = handler[k]
        /\ handler'[h].pc = "sent" /\ handler'[h].seen = handler[h].seen
    BY <1>2 DEF IInv, TypeOK, Steps
  <2>2. TypeOK'
    BY <1>1, <1>2, <2>1 DEF IInv, TypeOK, workspace, process
  <2>3. LockOK' /\ SealOK'
    BY <1>1, <1>2, <2>1 DEF IInv, LockOK, SealOK, Inside
  <2>4. NoLostUpdate'
    BY <1>1, <1>2, <2>1 DEF IInv, NoLostUpdate
  <2>5. RelayOK'
    BY <1>1, <1>2, <2>1 DEF IInv, RelayOK
  <2>6. QED
    BY <1>1, <1>2, <2>2, <2>3, <2>4, <2>5 DEF IInv, TokenOK, DisableDrains, workspace
<1>3. CASE Finish(h, "error") /\ UNCHANGED air
  BY <1>1, <1>3, FinishIInv DEF Inside, board
<1>4. QED
  BY <1>2, <1>3 DEF Send

\* A failed call leaves nothing behind but, perhaps, a write on its way.
LEMMA FailsIInv ==
  ASSUME IInv, NEW h \in Try, Fails(h)
  PROVE  IInv'
<1>1. /\ handler[h].pc \in Inside /\ Leave(h) /\ Release(h)
      /\ UNCHANGED <<card, tokens, writes, author, workspace, process, changes>>
      /\ UNCHANGED <<results, closed, ended>> /\ air' \subseteq air
  BY DEF Fails, Raise, Inside
<1>2. /\ relay' \in [Call -> [pc : {"authorize", "invoke", "wait", "done"}, n : Nat]]
      /\ \A d \in Call : relay'[d].n \in 1..Tries[d]
      /\ \A d \in Call :
           \/ relay'[d].n = relay[d].n /\ (relay'[d].pc = "authorize" => relay[d].pc = "authorize")
           \/ relay'[d].n = relay[d].n + 1
  <2>1. CASE Reply(h)
    BY <2>1, ReplyRelay DEF IInv, TypeOK
  <2>2. CASE Again(h[1])
    BY <2>2, AgainRelay, TryParts DEF IInv
  <2>3. QED
    BY <2>1, <2>2 DEF Fails, Raise
<1>3. TypeOK'
  BY <1>1, <1>2, ThreadGone DEF IInv, TypeOK, workspace, process
<1>4. RelayOK'
  BY <1>1, <1>2, ThreadGone, RelayGoesOn DEF IInv
<1>5. QED
  BY <1>1, <1>3, <1>4, ThreadGone DEF IInv, TokenOK

\* A write arrives: only the thread that holds the lock, or none, sent it.
LEMMA ArriveIInv ==
  ASSUME IInv, NEW h \in Try, Arrive(h)
  PROVE  IInv'
<1> DEFINE c == h[1]
           new == Token(h) \notin tokens
<1>1. /\ air' = air \ {h} /\ tokens' = tokens \cup {c}
      /\ writes' = [writes EXCEPT ![c] = IF new THEN @ + 1 ELSE @]
      /\ UNCHANGED <<relay, memory, ended, workspace, process, changes>>
      /\ \/ card' = To[c] /\ author' = IF handler[h].pc = "sent" THEN c ELSE "late"
         \/ UNCHANGED <<card, author>>
  BY DEF Arrive, Token
<1>2. c \in Call /\ (new <=> c \notin tokens)
  BY TryParts DEF Token
<1>3. TypeOK'
  <2>1. writes' \in [Call -> Nat]
    BY <1>1, <1>2 DEF IInv, TypeOK
  <2>2. card' \in Status /\ author' \in Call \cup {None, "human", "late"} /\ air' \subseteq Try
    <3>1. To[c] \in Status
      BY <1>2, CallsAssumption
    <3>2. air' \subseteq Try
      BY <1>1 DEF IInv, TypeOK
    <3>3. QED
      BY <1>1, <1>2, <3>1, <3>2 DEF IInv, TypeOK
  <2>3. QED
    BY <1>1, <2>1, <2>2 DEF IInv, TypeOK, memory, workspace, process
<1>4. TokenOK'
  BY <1>1, <1>2 DEF IInv, TypeOK, TokenOK
<1>5. LockOK' /\ SealOK' /\ RelayOK' /\ DisableDrains'
  BY <1>1 DEF IInv, LockOK, SealOK, RelayOK, DisableDrains, memory, workspace
<1>6. NoLostUpdate'
  BY <1>1 DEF IInv, NoLostUpdate, LockOK, Inside, memory
<1>7. QED
  BY <1>3, <1>4, <1>5, <1>6 DEF IInv

-----------------------------------------------------------------------------
(* People, the workspace and the process.                                   *)

\* What people do leaves the threads, the lock and the tokens alone.
LEMMA PeopleIInv ==
  ASSUME IInv, EditCard \/ Disable \/ DisableEnds \/ Enable \/ Reassign \/ Restart
  PROVE  IInv'
<1>1. UNCHANGED <<relay, memory, tokens, writes, air, ended>>
  BY DEF EditCard, Disable, DisableEnds, Enable, Reassign, Restart, board
<1>2. LockOK' /\ RelayOK' /\ TokenOK' /\ SealOK'
  BY <1>1 DEF IInv, LockOK, RelayOK, TokenOK, SealOK, memory
<1>3. TypeOK'
  <2>1. card' \in Status /\ author' \in Call \cup {None, "human", "late"}
    BY DEF IInv, TypeOK, EditCard, Disable, DisableEnds, Enable, Reassign, Restart, board
  <2>2. agent' \in [Turn -> Agents \cup {None}]
    BY DEF IInv, TypeOK, EditCard, Disable, DisableEnds, Enable, Reassign, Restart, workspace
  <2>3. disable' \in {"none", "waiting", "returned"} /\ route' \in BOOLEAN /\ enabled' \in BOOLEAN
    BY DEF IInv, TypeOK, EditCard, Disable, DisableEnds, Enable, Reassign, Restart, workspace
  <2>4. up' \in BOOLEAN /\ crashes' = crashes
    BY DEF IInv, TypeOK, EditCard, Disable, DisableEnds, Enable, Reassign, Restart, process
  <2>5. changes' \in 0..MaxChanges
    BY CallsAssumption DEF IInv, TypeOK, EditCard, Disable, DisableEnds, Enable, Reassign,
                           Restart, Change
  <2>6. QED
    BY <1>1, <2>1, <2>2, <2>3, <2>4, <2>5 DEF IInv, TypeOK, memory
<1>4. NoLostUpdate'
  BY <1>1 DEF IInv, NoLostUpdate, memory, EditCard, Disable, DisableEnds, Enable, Reassign,
              Restart, board
<1>5. DisableDrains'
  BY <1>1 DEF IInv, DisableDrains, memory, EditCard, Disable, DisableEnds, Enable, Reassign,
              Restart, workspace
<1>6. QED
  BY <1>2, <1>3, <1>4, <1>5 DEF IInv

\* A crash ends every thread, and the lock and the sealed turns with them.
LEMMA CrashIInv ==
  ASSUME IInv, Crash
  PROVE  IInv'
<1>1. /\ handler' = [h \in Try |-> NoThread] /\ lock' = None /\ closed' = {}
      /\ UNCHANGED <<relay, tokens, writes>>
      /\ \A h \in Try : handler'[h].pc = "none"
  BY DEF Crash, NoThread
<1>2. TypeOK'
  <2>1. handler' \in [Try -> [pc : Steps, agent : Agents \cup {None},
                             seen : Status \cup {None}]]
    BY <1>1 DEF NoThread, Steps
  <2>2. results' \subseteq Call /\ closed' \subseteq Turn /\ air' \subseteq Try
    BY DEF IInv, TypeOK, Crash
  <2>3. crashes' \in 0..MaxCrashes
    BY CallsAssumption DEF IInv, TypeOK, Crash
  <2>4. /\ up' \in BOOLEAN /\ route' \in BOOLEAN
        /\ disable' \in {"none", "waiting", "returned"}
    BY DEF IInv, TypeOK, Crash
  <2>5. QED
    BY <1>1, <2>1, <2>2, <2>3, <2>4 DEF IInv, TypeOK, Crash
<1>3. LockOK' /\ RelayOK' /\ SealOK' /\ NoLostUpdate'
  BY <1>1, TryParts DEF LockOK, RelayOK, SealOK, NoLostUpdate, Inside
<1>4. QED
  BY <1>1, <1>2, <1>3 DEF IInv, TokenOK, DisableDrains

-----------------------------------------------------------------------------
\* The start: every call about to be authorised, nothing written.
LEMMA InitIInv == Init => IInv
<1> SUFFICES ASSUME Init
             PROVE  IInv
  OBVIOUS
<1>1. /\ \A h \in Try : handler[h].pc = "none" /\ h # None
      /\ handler \in [Try -> [pc : Steps, agent : Agents \cup {None},
                              seen : Status \cup {None}]]
  BY TryParts DEF Init, NoThread, Steps
<1>2. TypeOK
  BY <1>1, CallsAssumption DEF Init, TypeOK, Agents
<1>3. QED
  BY <1>1, <1>2 DEF Init, IInv, LockOK, RelayOK, TokenOK, SealOK, NoLostUpdate,
                    DisableDrains, Inside

\* The invariant of the tool calls.
LEMMA Inductive == Spec => []IInv
<1>1. IInv /\ [Next]_vars => IInv'
  <2> SUFFICES ASSUME IInv, [Next]_vars
               PROVE  IInv'
    OBVIOUS
  <2>1. CASE \E c \in Call : Relay(c)
    BY <2>1, AuthorizeIInv, InvokeIInv, UnansweredIInv DEF Relay
  <2>2. ASSUME NEW h \in Try, Confirm(h)
        PROVE  IInv'
    BY <2>2, FinishIInv DEF Confirm, Inside
  <2>3. CASE \E h \in Try : Thread(h) \/ Arrive(h)
    BY <2>2, <2>3, EnterIInv, ReadIInv, SendIInv, FailsIInv, ArriveIInv DEF Thread
  <2>4. CASE EditCard \/ Disable \/ DisableEnds \/ Enable \/ Reassign \/ Crash \/ Restart
    BY <2>4, PeopleIInv, CrashIInv
  <2>5. CASE UNCHANGED vars
    BY <2>5 DEF vars, memory, board, workspace, process, IInv, TypeOK, LockOK, RelayOK,
                TokenOK, SealOK, NoLostUpdate, DisableDrains
  <2>6. QED
    BY <2>1, <2>3, <2>4, <2>5 DEF Next
<1>2. QED
  BY InitIInv, <1>1, PTL DEF Spec

\* The relay, the threads and the board keep their types; no call is tried more
\* often than its share.
THEOREM Typed == Spec => []TypeOK
<1>1. IInv => TypeOK
  BY DEF IInv
<1>2. QED
  BY Inductive, <1>1, PTL

\* One invocation changes the board at most once: the client_token is the
\* invocation's, whichever try, thread or daemon sends the write.
THEOREM AtMostOneEffect == Spec => []OneEffect
<1>1. IInv => OneEffect
  BY DEF IInv, TokenOK, OneEffect, TypeOK
<1>2. QED
  BY Inductive, <1>1, PTL

\* No call overwrites what another call wrote between its read and its write:
\* the task lock is held from the one to the other.
THEOREM LostUpdateFree == Spec => []NoLostUpdate
<1>1. IInv => NoLostUpdate
  BY DEF IInv
<1>2. QED
  BY Inductive, <1>1, PTL

\* Once a turn is sealed, no call of it is about to write: a call checks the
\* seal under the lock that every sealing call holds.
THEOREM SealedQuiet == Spec => []SealedTurnQuiet
<1>1. IInv => SealedTurnQuiet
  BY DEF IInv, SealOK, SealedTurnQuiet, Inside
<1>2. QED
  BY Inductive, <1>1, PTL

\* When disable_workspace has returned and the workspace is still disabled, no
\* call holds the task lock, and none can get past its checks.
THEOREM Drained == Spec => []DisableDrains
<1>1. IInv => DisableDrains
  BY DEF IInv
<1>2. QED
  BY Inductive, <1>1, PTL

\* The turns whose callers were told to end them are sealed in the daemon that
\* told them so.
EndedSealed == crashes = 0 => ended \subseteq closed

\* A step keeps it: a call that ends seals what it tells, and only a crash
\* forgets the sealed turns.
LEMMA EndedSealedNext ==
  ASSUME TypeOK, EndedSealed, [Next]_vars
  PROVE  EndedSealed'
<1> USE DEF EndedSealed
<1>1. \A h, res : Finish(h, res) => (ended \subseteq closed => ended' \subseteq closed')
  BY DEF Finish, Seal
<1>2. CASE \E c \in Call : Relay(c)
  BY <1>2 DEF Relay, Authorize, Invoke, Unanswered, memory, process
<1>3. ASSUME NEW h \in Try, Thread(h) \/ Arrive(h)
      PROVE  EndedSealed'
  <2>1. crashes' = crashes
    BY <1>3 DEF Thread, Enter, Read, Send, Confirm, Fails, Arrive, process
  <2>2. CASE Enter(h) \/ Fails(h) \/ Arrive(h)
    BY <2>1, <2>2 DEF Enter, Fails, Raise, Arrive, memory
  <2>3. CASE Read(h) \/ Send(h) \/ Confirm(h)
    BY <1>1, <2>1, <2>3 DEF Read, Send, Confirm
  <2>4. QED
    BY <1>3, <2>2, <2>3 DEF Thread
<1>4. CASE EditCard \/ Disable \/ DisableEnds \/ Enable \/ Reassign \/ Restart
  BY <1>4 DEF EditCard, Disable, DisableEnds, Enable, Reassign, Restart, memory, process
<1>5. CASE Crash
  <2>1. crashes \in Nat /\ crashes' = crashes + 1
    BY <1>5, CallsAssumption DEF Crash, TypeOK
  <2>2. QED
    BY <2>1
<1>6. CASE UNCHANGED vars
  BY <1>6 DEF vars, memory, process
<1>7. QED
  BY <1>2, <1>3, <1>4, <1>5, <1>6 DEF Next

\* A handoff is final as long as the daemon has not crashed: no call of a turn
\* whose caller was told to end it is about to write.  A restarted daemon has
\* forgotten the turns it sealed (closed_turns is kept in memory only).
THEOREM HandoffFinalUntilCrash == Spec => [](crashes = 0 => HandoffFinal)
<1>1. Init => EndedSealed
  BY DEF Init, EndedSealed
<1>2. TypeOK /\ EndedSealed /\ [Next]_vars => EndedSealed'
  BY EndedSealedNext
<1>3. IInv /\ EndedSealed => (crashes = 0 => HandoffFinal)
  BY DEF IInv, EndedSealed, SealOK, HandoffFinal, Inside
<1>4. QED
  BY <1>1, <1>2, <1>3, Inductive, Typed, PTL DEF Spec
=============================================================================
