----------------------- MODULE DaemonLifecycleProofs ------------------------
(***************************************************************************)
(* One daemon serves, and can be reached, whatever the number of processes *)
(* and callers: proofs about DaemonLifecycle.  daemon.lock is what makes   *)
(* it so, and two clauses say how.  A process touches daemon.sock and      *)
(* daemon.pid only while it holds the lock, so whoever is past binding     *)
(* finds its own socket there; and a caller that probes holds the lock     *)
(* itself, so that giving it back takes it from no daemon.                 *)
(***************************************************************************)
EXTENDS DaemonLifecycle, TLAPS

Bound == {"bound", "ready", "serving", "closing", "closed"}
Named == {"serving", "closing", "closed"}

\* A caller in await_daemon_lifecycle_lock that has the lock is its holder.
ProbeOK == \A c \in Client : client[c] = "probing" => lock = c
\* From server_bind to _remove_daemon_files the socket path is the process's own.
SocketOK == \A p \in Proc : proc[p] \in Bound => sock = p
\* From the writing of daemon.pid on, the file names the process.
PidOK == \A p \in Proc : proc[p] \in Named => pid = p

IInv == TypeOK /\ ProbeOK /\ SocketOK /\ PidOK

\* The start: no process, no caller, no file.
LEMMA InitIInv == Init => IInv
BY LifecycleAssumption
DEF Init, IInv, TypeOK, ProbeOK, SocketOK, PidOK, Starting, Leaving, Bound, Named

\* Two processes that are past taking the lock are one.
LEMMA OneHolder ==
  ASSUME TypeOK, NEW p \in Proc, NEW q \in Proc,
         proc[p] \notin {"none", "spawned", "gone"},
         proc[q] \notin {"none", "spawned", "gone"}
  PROVE  p = q
BY DEF TypeOK, Starting, Leaving

\* run_daemon keeps the invariant: every step of a process that concerns the
\* files is one of the holder of the lock.
LEMMA MainIInv ==
  ASSUME IInv, NEW p \in Proc, Main(p)
  PROVE  IInv'
<1> USE LifecycleAssumption DEF IInv, TypeOK, ProbeOK, SocketOK, PidOK, Starting, Leaving,
                                Bound, Named, Go, files
<1>1. CASE TakeLock(p)
  BY <1>1 DEF TakeLock
<1>2. CASE Build(p)
  BY <1>2 DEF Build
<1>3. CASE Bind(p)
  BY <1>3 DEF Bind
<1>4. CASE Install(p)
  BY <1>4 DEF Install
<1>5. CASE Serve(p)
  BY <1>5 DEF Serve
<1>6. CASE LoopEnds(p)
  BY <1>6 DEF LoopEnds
<1>7. CASE Close(p)
  BY <1>7 DEF Close
<1>8. CASE Release(p)
  BY <1>8 DEF Release
<1>9. CASE Exit(p)
  BY <1>9 DEF Exit
<1>10. QED
  BY <1>1, <1>2, <1>3, <1>4, <1>5, <1>6, <1>7, <1>8, <1>9 DEF Main

\* So do a failing component, an interrupt and a death, which gives the lock of
\* the process back and leaves its files.
LEMMA IncidentIInv ==
  ASSUME IInv, NEW p \in Proc, Component(p) \/ Fail(p) \/ Interrupt(p) \/ Killed(p)
  PROVE  IInv'
<1> USE LifecycleAssumption DEF IInv, TypeOK, ProbeOK, SocketOK, PidOK, Starting, Leaving,
                                Bound, Named, Go, files
<1>1. CASE Component(p)
  BY <1>1 DEF Component, OnFatal, RequestStop
<1>2. CASE Fail(p)
  BY <1>2 DEF Fail
<1>3. CASE Interrupt(p)
  BY <1>3 DEF Interrupt
<1>4. CASE Killed(p)
  BY <1>4 DEF Killed
<1>5. QED
  BY <1>1, <1>2, <1>3, <1>4

\* A caller's waits and pings change nothing the invariant is about, its probe
\* takes a free lock and gives back its own.
LEMMA ClientIInv ==
  ASSUME IInv, NEW c \in Client, Begin(c) \/ Calling(c)
  PROVE  IInv'
<1> USE LifecycleAssumption DEF IInv, TypeOK, ProbeOK, SocketOK, PidOK, Starting, Leaving,
                                Bound, Named, Go, Step, files, process
<1>1. CASE Begin(c)
  BY <1>1 DEF Begin, Hear, Answered, TimedOut
<1>2. CASE Ping(c)
  <2>1. PICK s \in Heard : Hear(s) /\ Step(c, CASE s = "up" -> Return(c)
                                               [] s = "failing" -> "replace"
                                               [] OTHER -> "probe")
    BY <1>2 DEF Ping
  <2>2. faults' \in 0..MaxFaults
    BY <2>1 DEF Hear, Answered, TimedOut
  <2>3. QED
    BY <1>2, <2>1, <2>2 DEF Ping, Return, Heard
<1>3. CASE Reping(c)
  <2>1. faults' \in 0..MaxFaults
    BY <1>3 DEF Reping, Hear, Answered, TimedOut
  <2>2. QED
    BY <1>3, <2>1 DEF Reping, After, Replacing
<1>4. CASE Shutdown(c)
  BY <1>4 DEF Shutdown, Serving, Open, GiveUp, After, Replacing
<1>5. CASE Probe(c)
  BY <1>5 DEF Probe
<1>6. CASE Unprobe(c)
  BY <1>6 DEF Unprobe
<1>7. CASE Look(c)
  <2>1. faults' \in 0..MaxFaults
    BY <1>7 DEF Look, Hear, Answered, TimedOut
  <2>2. QED
    BY <1>7, <2>1 DEF Look, GiveUp, Return
<1>8. CASE Spawn(c)
  BY <1>8 DEF Spawn
<1>9. CASE Poll(c)
  BY <1>9 DEF Poll, GiveUp, Return
<1>10. CASE Verify(c)
  BY <1>10 DEF Verify
<1>11. QED
  BY <1>1, <1>2, <1>3, <1>4, <1>5, <1>6, <1>7, <1>8, <1>9, <1>10 DEF Calling

\* The invariant of the daemon lifecycle.
LEMMA Inductive == Spec => []IInv
<1>1. IInv /\ [Next]_vars => IInv'
  <2> SUFFICES ASSUME IInv, [Next]_vars
               PROVE  IInv'
    OBVIOUS
  <2>1. CASE Next
    BY <2>1, MainIInv, IncidentIInv, ClientIInv DEF Next
  <2>2. CASE UNCHANGED vars
    BY <2>2 DEF vars, process, files, IInv, TypeOK, ProbeOK, SocketOK, PidOK
  <2>3. QED
    BY <2>1, <2>2
<1>2. QED
  BY InitIInv, <1>1, PTL DEF Spec

\* daemon.lock is held by exactly the one process that has taken it and has not
\* exited: two daemons never run at once, however many are started, killed or
\* replaced while callers probe the lock.
THEOREM Typed == Spec => []TypeOK
<1>1. IInv => TypeOK
  BY DEF IInv
<1>2. QED
  BY Inductive, <1>1, PTL

\* The daemon that serves is the one daemon.sock and daemon.pid lead to: no
\* process that starts, loses the lock, leaves or dies takes the files of another.
THEOREM Reachable == Spec => []ServingReachable
<1>1. IInv => ServingReachable
  BY DEF IInv, SocketOK, PidOK, ServingReachable, Bound, Named
<1>2. QED
  BY Inductive, <1>1, PTL
=============================================================================
