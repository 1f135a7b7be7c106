-------------------------- MODULE DaemonLifecycle ---------------------------
(***************************************************************************)
(* One daemon per user: starting, replacing and stopping the process.      *)
(*                                                                         *)
(*   core/daemon.py            run_daemon, ensure_daemon, stop_daemon and  *)
(*                             the lifecycle lock, socket and pid file     *)
(*   core/critical_runtime.py  a component that fails stops the daemon     *)
(*   core/daemon_ipc.py        ping and shutdown requests                  *)
(*   core/daemon_monitor.py    the status a ping answers                   *)
(*                                                                         *)
(* Processes start, fail, are interrupted and killed; clients (the command *)
(* line, hooks, the MCP server) call ensure_daemon, stop_daemon, and       *)
(* verify, which starts a daemon and stops it again.  What the daemon does *)
(* for workspaces is TaskEvents, TaskDelivery and ToolCalls.               *)
(***************************************************************************)
EXTENDS Naturals, FiniteSets

CONSTANTS
  Proc,        \* daemon processes: a bound on how many are started
  Client, Op,  \* callers, and what each calls
  None,        \* nobody
  MaxFaults,   \* bound: failed components, dead processes, slow pings
  Incidents    \* which of the incidents below may happen

\* "kill": a process dies; "component": a critical component fails; "interrupt":
\* SIGINT; "slow": a ping gets no answer in time; "late": a wait passes its
\* deadline, or a shutdown request reaches a daemon that no longer answers.
IncidentKinds == {"kill", "component", "interrupt", "slow", "late"}
ASSUME LifecycleAssumption ==
  /\ Op \in [Client -> {"ensure", "stop", "verify"}]
  /\ None \notin Proc \cup Client /\ Proc \cap Client = {} /\ MaxFaults \in Nat
  /\ Incidents \subseteq IncidentKinds

VARIABLES
  proc,       \* where run_daemon is
  failure,    \* a component's failure: recorded, requested (fatal_requested),
              \* told (request_stop has run)
  stopping,   \* processes whose runtime.stopping is set
  stopReq,    \* processes whose stop_requested is set
  handler,    \* processes whose fatal handler is installed
  lock,       \* who holds daemon.lock
  sock,       \* the process that listens at daemon.sock, if the path exists
  pid,        \* the process daemon.pid names
  client,     \* where a client is
  was,        \* clients whose verify found a daemon running
  calm,       \* clients under way, nothing against them since they began
  faults

process == <<proc, failure, stopping, stopReq, handler>>
files == <<lock, sock, pid>>
vars == <<process, files, client, was, calm, faults>>

Starting == {"spawned", "locked", "built", "bound", "ready"}
Leaving == {"closing", "closed", "released"}
\* Type invariant; the lock is held by the one process that is past taking it and
\* has not exited, and by no other.
TypeOK ==
  /\ proc \in [Proc -> {"none", "serving", "gone"} \cup Starting \cup Leaving]
  /\ failure \in [Proc -> {"no", "recorded", "requested", "told"}]
  /\ stopping \subseteq Proc /\ stopReq \subseteq Proc /\ handler \subseteq Proc
  /\ lock \in Proc \cup Client \cup {None}
  /\ sock \in Proc \cup {None} /\ pid \in Proc \cup {None}
  /\ client \in [Client -> {"idle", "ping", "replace", "replacing", "stop", "stopping",
                            "probe", "probing", "look", "spawn", "poll", "verify", "done", "failed"}]
  /\ was \subseteq Client /\ calm \subseteq Client /\ faults \in 0..MaxFaults
  /\ \A p \in Proc : proc[p] \in (Starting \ {"spawned"}) \cup {"serving"} \cup Leaving
                       <=> lock = p

Go(p, pc) == proc' = [proc EXCEPT ![p] = pc]
-----------------------------------------------------------------------------
(* run_daemon                                                               *)

\* flock without waiting: a process that does not get the lock ends.
TakeLock_Unlinks(p) ==
  /\ proc[p] = "spawned" /\ sock' = None
  /\ \/ lock = None /\ lock' = p /\ Go(p, "locked")
     \/ lock # None /\ UNCHANGED lock /\ Go(p, "gone")
  /\ UNCHANGED <<failure, stopping, stopReq, handler, pid, client, was, calm, faults>>
TakeLock_Ignores(p) ==
  /\ proc[p] = "spawned" /\ Go(p, "locked")
  /\ lock' = IF lock = None THEN p ELSE lock
  /\ UNCHANGED <<failure, stopping, stopReq, handler, sock, pid, client, was, calm, faults>>
TakeLock(p) ==
  /\ proc[p] = "spawned"
  /\ \/ lock = None /\ lock' = p /\ Go(p, "locked")
     \/ lock # None /\ UNCHANGED lock /\ Go(p, "gone")
  /\ UNCHANGED <<failure, stopping, stopReq, handler, sock, pid, client, was, calm, faults>>

\* A socket that a dead daemon left is removed; TeamFlowDaemon starts its
\* component threads.
Build(p) ==
  /\ proc[p] = "locked" /\ Go(p, "built") /\ sock' = None
  /\ UNCHANGED <<failure, stopping, stopReq, handler, lock, pid, client, was, calm, faults>>

\* DaemonServer binds the socket, the stop thread starts.
Bind(p) ==
  /\ proc[p] = "built" /\ Go(p, "bound") /\ sock' = p
  /\ UNCHANGED <<failure, stopping, stopReq, handler, lock, pid, client, was, calm, faults>>

\* set_fatal_shutdown: a failure that came first is honoured now.
Install_Forgets(p) ==
  /\ proc[p] = "bound" /\ Go(p, "ready")
  /\ handler' = handler \cup {p}
  /\ UNCHANGED <<failure, stopping, stopReq, files, client, was, calm, faults>>
Install(p) ==
  /\ proc[p] = "bound" /\ Go(p, "ready")
  /\ handler' = handler \cup {p}
  /\ stopReq' = IF failure[p] \in {"requested", "told"} THEN stopReq \cup {p} ELSE stopReq
  /\ UNCHANGED <<failure, stopping, files, client, was, calm, faults>>

Serve(p) ==
  /\ proc[p] = "ready" /\ Go(p, "serving") /\ pid' = p
  /\ UNCHANGED <<failure, stopping, stopReq, handler, lock, sock, client, was, calm, faults>>

\* The stop thread marks the daemon as stopping and ends serve_forever.
LoopEnds(p) ==
  /\ proc[p] = "serving" /\ p \in stopReq
  /\ Go(p, "closing") /\ stopping' = stopping \cup {p}
  /\ UNCHANGED <<failure, stopReq, handler, files, client, was, calm, faults>>
Interrupt(p) ==
  /\ "interrupt" \in Incidents /\ proc[p] = "serving" /\ faults < MaxFaults
  /\ Go(p, "closing") /\ stopping' = stopping \cup {p} /\ stopReq' = stopReq \cup {p}
  /\ faults' = faults + 1 /\ calm' = {}
  /\ UNCHANGED <<failure, handler, files, client, was>>

\* runtime.close ends or raises; the files go in either case, then the lock.
Close(p) ==
  /\ proc[p] = "closing" /\ Go(p, "closed")
  /\ UNCHANGED <<failure, stopping, stopReq, handler, files, client, was, calm, faults>>
Release(p) ==
  /\ proc[p] = "closed" /\ Go(p, "released") /\ sock' = None /\ pid' = None
  /\ UNCHANGED <<failure, stopping, stopReq, handler, lock, client, was, calm, faults>>
Exit(p) ==
  /\ proc[p] = "released" /\ Go(p, "gone") /\ lock' = None
  /\ UNCHANGED <<failure, stopping, stopReq, handler, sock, pid, client, was, calm, faults>>

\* A process that is killed, or raises while it starts, leaves its files.
Killed(p) ==
  /\ "kill" \in Incidents /\ faults < MaxFaults /\ proc[p] \notin {"none", "gone"}
  /\ Go(p, "gone") /\ lock' = IF lock = p THEN None ELSE lock
  /\ faults' = faults + 1 /\ calm' = {}
  /\ UNCHANGED <<failure, stopping, stopReq, handler, sock, pid, client, was>>

-----------------------------------------------------------------------------
(* CriticalComponents.fail: the failure is recorded, the daemon is stopping *)
(* and the stop requested, and the handler, if there is one yet, is called. *)

Fail(p) ==
  /\ "component" \in Incidents /\ faults < MaxFaults /\ failure[p] = "no"
  /\ proc[p] \in {"built", "bound", "ready", "serving"}
  /\ failure' = [failure EXCEPT ![p] = "recorded"]
  /\ faults' = faults + 1 /\ calm' = {}
  /\ UNCHANGED <<proc, stopping, stopReq, handler, files, client, was>>
OnFatal(p) ==
  /\ failure[p] = "recorded" /\ proc[p] # "gone"
  /\ failure' = [failure EXCEPT ![p] = "requested"]
  /\ stopping' = stopping \cup {p}
  /\ UNCHANGED <<proc, stopReq, handler, files, client, was, calm, faults>>
RequestStop(p) ==
  /\ failure[p] = "requested" /\ proc[p] # "gone"
  /\ failure' = [failure EXCEPT ![p] = "told"]
  /\ stopReq' = IF p \in handler THEN stopReq \cup {p} ELSE stopReq
  /\ UNCHANGED <<proc, stopping, handler, files, client, was, calm, faults>>

-----------------------------------------------------------------------------
(* The clients.                                                             *)

Step(c, pc) == client' = [client EXCEPT ![c] = pc]
Serving(p) == p # None /\ proc[p] = "serving"
Open(p) == p # None /\ proc[p] # "gone"
Healthy(p) == Serving(p) /\ failure[p] = "no" /\ p \notin stopping

\* daemon_status: "up", "stopping" or "failing" if a daemon answers; "offline"
\* if none does in time.
Status == IF ~Serving(sock) THEN "offline"
          ELSE IF sock \in stopping THEN "stopping"
          ELSE IF Healthy(sock) THEN "up" ELSE "failing"
Answered(s) == s = Status /\ UNCHANGED faults
TimedOut(s) == /\ "slow" \in Incidents /\ faults < MaxFaults /\ faults' = faults + 1
               /\ s = "offline"
Hear(s) == Answered(s) \/ TimedOut(s)
Heard == {"offline", "stopping", "failing", "up"}

\* The caller gets an error, and may call again.
GiveUp(c) == /\ "late" \in Incidents /\ calm' = calm \ {c}
             /\ client' = [client EXCEPT ![c] = "failed"]

Begin(c) ==
  /\ client[c] = "idle" /\ calm' = calm \cup {c}
  /\ \E s \in Heard :
       /\ IF Op[c] = "verify" THEN Hear(s) ELSE Answered(s)
       /\ was' = IF Op[c] = "verify" /\ s # "offline" THEN was \cup {c} ELSE was
  /\ Step(c, IF Op[c] = "stop" THEN "stop" ELSE "ping")
  /\ UNCHANGED <<process, files>>

Return(c) == IF Op[c] = "verify" THEN "verify" ELSE "done"

\* ensure_daemon: a healthy daemon is used, a failing one is asked to stop, and
\* otherwise the lock is waited for.
Ping(c) ==
  /\ client[c] = "ping"
  /\ \E s \in Heard : Hear(s) /\ Step(c, CASE s = "up" -> Return(c)
                                          [] s = "failing" -> "replace"
                                          [] OTHER -> "probe")
  /\ UNCHANGED <<process, files, was, calm>>

\* stop_daemon asks only a daemon that is not leaving yet.
Replacing(c) == client[c] \in {"replace", "replacing"}
After(c) == IF Replacing(c) THEN "probe" ELSE "done"
Reping(c) ==
  /\ client[c] \in {"replace", "stop"}
  /\ \E s \in Heard :
       /\ Hear(s)
       /\ Step(c, IF s \notin {"up", "failing"} THEN After(c)
                  ELSE IF Replacing(c) THEN "replacing" ELSE "stopping")
  /\ UNCHANGED <<process, files, was, calm>>

\* The shutdown request: begin_shutdown, the answer, request_stop.  A socket that
\* is closed is what was wanted; a daemon that has stopped serving but not closed
\* its socket leaves the caller with an error.
Shutdown(c) ==
  /\ client[c] \in {"replacing", "stopping"}
  /\ \/ /\ Serving(sock)
        /\ stopping' = stopping \cup {sock} /\ stopReq' = stopReq \cup {sock}
        /\ Step(c, After(c))
        /\ calm' = IF Replacing(c) THEN calm ELSE {}
     \/ /\ ~Open(sock)
        /\ Step(c, After(c)) /\ UNCHANGED <<stopping, stopReq, calm>>
     \/ /\ Open(sock) /\ ~Serving(sock)
        /\ GiveUp(c) /\ UNCHANGED <<stopping, stopReq>>
  /\ UNCHANGED <<proc, failure, handler, files, was, faults>>

\* await_daemon_lifecycle_lock takes the lock and gives it back at once, as the
\* proof that no daemon is left, or looks for a healthy one.
Probe_Socket(c) ==
  /\ client[c] = "probe"
  /\ Step(c, IF sock = None THEN "spawn" ELSE "look")
  /\ UNCHANGED <<process, files, was, calm, faults>>
Probe(c) ==
  /\ client[c] = "probe"
  /\ \/ lock = None /\ lock' = c /\ Step(c, "probing")
     \/ lock # None /\ UNCHANGED lock /\ Step(c, "look")
  /\ UNCHANGED <<process, sock, pid, was, calm, faults>>
Unprobe(c) ==
  /\ client[c] = "probing" /\ lock' = None /\ Step(c, "spawn")
  /\ UNCHANGED <<process, sock, pid, was, calm, faults>>
Look(c) ==
  /\ client[c] = "look"
  /\ \/ /\ \E s \in Heard : Hear(s) /\ Step(c, IF s = "up" THEN Return(c) ELSE "probe")
        /\ UNCHANGED calm
     \/ Status # "up" /\ GiveUp(c) /\ UNCHANGED faults
  /\ UNCHANGED <<process, files, was>>

Spawn(c) ==
  /\ client[c] = "spawn"
  /\ \E p \in Proc : proc[p] = "none" /\ Go(p, "spawned")
  /\ Step(c, "poll")
  /\ UNCHANGED <<failure, stopping, stopReq, handler, files, was, calm, faults>>
Poll(c) ==
  /\ client[c] = "poll"
  /\ \/ Status = "up" /\ Step(c, Return(c)) /\ UNCHANGED calm
     \/ Status # "up" /\ GiveUp(c)
  /\ UNCHANGED <<process, files, was, faults>>

\* verify_daemon_workspace stops the daemon it started, if no workspace is
\* enabled.
Verify(c) ==
  /\ client[c] = "verify"
  /\ \/ c \in was /\ Step(c, "done")
     \/ c \notin was /\ \E next \in {"done", "stop"} : Step(c, next)
  /\ UNCHANGED <<process, files, was, calm, faults>>

-----------------------------------------------------------------------------
Init ==
  /\ proc = [p \in Proc |-> "none"] /\ failure = [p \in Proc |-> "no"]
  /\ stopping = {} /\ stopReq = {} /\ handler = {}
  /\ lock = None /\ sock = None /\ pid = None
  /\ client = [c \in Client |-> "idle"] /\ was = {} /\ calm = {} /\ faults = 0

Main(p) == \/ TakeLock(p) \/ Build(p) \/ Bind(p) \/ Install(p) \/ Serve(p)
           \/ LoopEnds(p) \/ Close(p) \/ Release(p) \/ Exit(p)
Component(p) == OnFatal(p) \/ RequestStop(p)
Calling(c) == \/ Ping(c) \/ Reping(c) \/ Shutdown(c) \/ Probe(c) \/ Unprobe(c)
              \/ Look(c) \/ Spawn(c) \/ Poll(c) \/ Verify(c)
Next == \/ \E p \in Proc : Main(p) \/ Component(p) \/ Fail(p) \/ Interrupt(p) \/ Killed(p)
        \/ \E c \in Client : Begin(c) \/ Calling(c)
Spec == Init /\ [][Next]_vars

\* Threads and processes that can go on do; that a deadline passes is never
\* relied on.
FairSpec ==
  /\ Spec
  /\ \A p \in Proc : WF_vars(Main(p)) /\ WF_vars(Component(p))
  /\ \A c \in Client : WF_vars(Calling(c) /\ client'[c] # "failed")

-----------------------------------------------------------------------------
(* Properties                                                               *)

\* A daemon that serves can be reached: neither a daemon that could not get the
\* lock, nor one that is leaving, nor one that died has taken its socket or its
\* pid file away.
ServingReachable == \A p \in Proc : proc[p] = "serving" => sock = p /\ pid = p

\* A daemon that has said it is stopping, because a component failed at any
\* moment of its start or because a client asked, ends and gives its lock back.
StoppingEnds == \A p \in Proc : p \in stopping ~> proc[p] = "gone"

\* ensure_daemon is answered by a healthy daemon, whoever else starts one or
\* replaces one at the same time, and although a ping may time out, unless a
\* daemon dies or is stopped meanwhile, or a wait passes its deadline.
EnsureBringsUp ==
  \A c \in Client : c \in calm /\ Op[c] # "stop"
                    ~> client[c] \in {"verify", "done"} \/ c \notin calm
=============================================================================
