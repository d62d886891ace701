------------------------------ MODULE Executor ------------------------------
(***************************************************************************)
(* BashExecutor (executor.rs): one call runs a sandboxed child in a        *)
(* process group of its own, reads its output to the end, and has a timer  *)
(* thread that kills the group at the timeout; the daemon's shutdown kills *)
(* the groups it knows of and exits.  Calls of several sessions, their     *)
(* timer threads, the processes they started and the shutdown interleave.  *)
(*                                                                         *)
(* A call's processes are its child and one descendant of it at a time.    *)
(* What they print is left out; which pipes they hold open decides who     *)
(* waits.                                                                  *)
(***************************************************************************)
EXTENDS FiniteSets

CONSTANTS
  Calls,        \* calls of session_bash and session_package_install
  Redirecting,  \* calls whose processes may close stdout or stderr and live on
  Detaching,    \* calls whose descendant may leave the child's process group
  Garbling      \* calls whose processes may print what is not UTF-8

Unruly == Redirecting \cup Detaching \cup Garbling

ASSUME CallsAssumption == Unruly \subseteq Calls

VARIABLES
  main,        \* where the thread of the call is
  timer,       \* where its timer thread is
  timedOut,    \* the flag they share
  alive,       \* processes of the call that run
  holds,       \* the pipes each of them holds open
  detached,    \* calls whose descendant left the process group
  registered,  \* RUNNING_CHILD_PGIDS
  daemon,      \* "up", "killing" in kill_all_running_children, or "down"
  doomed,      \* the groups kill_all_running_children copied
  killed,      \* those of them it has killed
  stopped      \* calls with a process that the timer killed

process == <<alive, holds, detached>>
shutdown == <<daemon, doomed, killed>>
executorVars == <<main, timer, timedOut, process, registered, shutdown, stopped>>

Pipes == {"stdout", "stderr"}
Processes == {"child", "descendant"}
Ended == {"ok", "timeout error"}

ExecutorTypeOK ==
  /\ main \in [Calls -> {"ready", "spawned", "reading", "cancelling", "joining", "waiting",
                         "sweeping", "judging"} \cup Ended]
  /\ timer \in [Calls -> {"none", "armed", "expired", "flagged", "swept", "gone"}]
  /\ timedOut \in [Calls -> BOOLEAN]
  /\ alive \in [Calls -> SUBSET Processes]
  /\ holds \in [Calls -> [Processes -> SUBSET Pipes]]
  /\ \A c \in Calls, p \in Processes : p \notin alive[c] => holds[c][p] = {}
  /\ detached \subseteq {c \in Calls : "descendant" \in alive[c]}
  /\ registered \subseteq Calls
  /\ daemon \in {"up", "killing", "down"}
  /\ killed \subseteq doomed /\ doomed \subseteq Calls
  /\ stopped \subseteq Calls

ExecutorInit ==
  /\ main = [c \in Calls |-> "ready"] /\ timer = [c \in Calls |-> "none"]
  /\ timedOut = [c \in Calls |-> FALSE]
  /\ alive = [c \in Calls |-> {}]
  /\ holds = [c \in Calls |-> [p \in Processes |-> {}]]
  /\ detached = {} /\ registered = {}
  /\ daemon = "up" /\ doomed = {} /\ killed = {} /\ stopped = {}

-----------------------------------------------------------------------------
(***************************************************************************)
(* The processes.  Nothing makes them end by themselves.                   *)
(***************************************************************************)
threads == <<main, timer, timedOut, registered, shutdown, stopped>>

Dies(c, dead) ==
  /\ alive' = [alive EXCEPT ![c] = @ \ dead]
  /\ holds' = [holds EXCEPT ![c] = [p \in Processes |-> IF p \in dead THEN {} ELSE @[p]]]
  /\ detached' = detached \ (IF "descendant" \in dead THEN {c} ELSE {})

Fork(c) ==
  /\ "child" \in alive[c] /\ "descendant" \notin alive[c]
  /\ alive' = [alive EXCEPT ![c] = @ \cup {"descendant"}]
  /\ holds' = [holds EXCEPT ![c]["descendant"] = holds[c]["child"]]
  /\ UNCHANGED <<detached, threads>>

Redirect(c) ==
  /\ c \in Redirecting
  /\ \E p \in alive[c] : \E pipe \in holds[c][p] :
       holds' = [holds EXCEPT ![c][p] = @ \ {pipe}]
  /\ UNCHANGED <<alive, detached, threads>>

Detach(c) ==
  /\ c \in Detaching
  /\ "descendant" \in alive[c] /\ c \notin detached
  /\ detached' = detached \cup {c}
  /\ UNCHANGED <<alive, holds, threads>>

Exit(c) == \E p \in alive[c] : Dies(c, {p}) /\ UNCHANGED threads

\* kill_process_tree: the group, and then what `ps` shows below the child, which
\* is nothing once the child is gone: its children have another parent by then.
Grouped(c) == alive[c] \ (IF c \in detached THEN {"descendant"} ELSE {})
KillProcessTree(c) ==
  \E found \in IF "child" \in alive[c] THEN {{}, alive[c]} ELSE {{}} :
    Dies(c, Grouped(c) \cup found)

-----------------------------------------------------------------------------
(***************************************************************************)
(* run and run_child.                                                      *)
(***************************************************************************)
At(c, from, to) == main[c] = from /\ main' = [main EXCEPT ![c] = to]

\* Processes that keep a pipe from ending.
Writers(c, pipe) == {p \in alive[c] : pipe \in holds[c][p]}

Spawn(c) ==
  /\ At(c, "ready", "spawned")
  /\ alive' = [alive EXCEPT ![c] = {"child"}]
  /\ holds' = [holds EXCEPT ![c]["child"] = Pipes]
  /\ UNCHANGED <<timer, timedOut, detached, registered, shutdown, stopped>>

\* ChildGuard::new, then the timer thread and the thread that reads stderr.
Register(c) ==
  /\ At(c, "spawned", "reading")
  /\ registered' = registered \cup {c}
  /\ timer' = [timer EXCEPT ![c] = "armed"]
  /\ UNCHANGED <<timedOut, process, shutdown, stopped>>

ReadToEnd(c) ==
  /\ At(c, "reading", "cancelling")
  /\ Writers(c, "stdout") = {}
  /\ UNCHANGED <<timer, timedOut, process, registered, shutdown, stopped>>

\* read_line fails on what is not UTF-8: the loop ends, whoever goes on printing.
ReadFails(c) ==
  /\ At(c, "reading", "cancelling")
  /\ c \in Garbling
  /\ Writers(c, "stdout") /= {}
  /\ UNCHANGED <<timer, timedOut, process, registered, shutdown, stopped>>

\* cancel_tx.send: it comes too late for a timer whose wait has ended.
Cancel(c) ==
  /\ At(c, "cancelling", "joining")
  /\ timer' = [timer EXCEPT ![c] = IF @ = "armed" THEN "gone" ELSE @]
  /\ UNCHANGED <<timedOut, process, registered, shutdown, stopped>>

JoinStderr(c) ==
  /\ At(c, "joining", "waiting")
  /\ Writers(c, "stderr") = {}
  /\ UNCHANGED <<timer, timedOut, process, registered, shutdown, stopped>>

\* Mutant: the group is no longer registered once the child has ended.
WaitUnregister(c) ==
  /\ At(c, "waiting", "sweeping")
  /\ "child" \notin alive[c]
  /\ registered' = registered \ {c}
  /\ UNCHANGED <<timer, timedOut, process, shutdown, stopped>>

\* child.wait(), with the child's mutex held while it waits.
Wait(c) ==
  /\ At(c, "waiting", "sweeping")
  /\ "child" \notin alive[c]
  /\ UNCHANGED <<timer, timedOut, process, registered, shutdown, stopped>>

\* Mutant: what the child left running is not killed.
SweepNothing(c) ==
  /\ At(c, "sweeping", "judging")
  /\ UNCHANGED <<timer, timedOut, process, registered, shutdown, stopped>>

Sweep(c) ==
  /\ At(c, "sweeping", "judging")
  /\ KillProcessTree(c)
  /\ UNCHANGED <<timer, timedOut, registered, shutdown, stopped>>

\* The result, and the drop of the ChildGuard.
Judge(c) ==
  /\ At(c, "judging", IF timedOut[c] THEN "timeout error" ELSE "ok")
  /\ registered' = registered \ {c}
  /\ UNCHANGED <<timer, timedOut, process, shutdown, stopped>>

Main(c) ==
  /\ daemon /= "down"
  /\ \/ Register(c) \/ ReadToEnd(c) \/ ReadFails(c) \/ Cancel(c) \/ JoinStderr(c) \/ Wait(c)
     \/ Sweep(c) \/ Judge(c)

-----------------------------------------------------------------------------
(***************************************************************************)
(* The timer thread.                                                       *)
(***************************************************************************)
TimerAt(c, from, to) == timer[c] = from /\ timer' = [timer EXCEPT ![c] = to]

Expire(c) ==
  /\ TimerAt(c, "armed", "expired")
  /\ UNCHANGED <<main, timedOut, process, registered, shutdown, stopped>>

Flag(c) ==
  /\ TimerAt(c, "expired", "flagged")
  /\ timedOut' = [timedOut EXCEPT ![c] = TRUE]
  /\ UNCHANGED <<main, process, registered, shutdown, stopped>>

\* Mutants: the kill comes before the flag, or hits the child alone.
KillUnflagged(c) ==
  /\ TimerAt(c, "expired", "swept")
  /\ KillProcessTree(c)
  /\ stopped' = IF alive'[c] = alive[c] THEN stopped ELSE stopped \cup {c}
  /\ UNCHANGED <<main, timedOut, registered, shutdown>>
KillOnlyChild(c) ==
  /\ TimerAt(c, "flagged", "swept")
  /\ Dies(c, {"child"})
  /\ stopped' = IF alive'[c] = alive[c] THEN stopped ELSE stopped \cup {c}
  /\ UNCHANGED <<main, timedOut, registered, shutdown>>

KillGroup(c) ==
  /\ TimerAt(c, "flagged", "swept")
  /\ KillProcessTree(c)
  /\ stopped' = IF alive'[c] = alive[c] THEN stopped ELSE stopped \cup {c}
  /\ UNCHANGED <<main, timedOut, registered, shutdown>>

\* child.kill() waits for the mutex that wait() is under.
KillChild(c) ==
  /\ TimerAt(c, "swept", "gone")
  /\ main[c] /= "waiting"
  /\ Dies(c, {"child"})
  /\ UNCHANGED <<main, timedOut, registered, shutdown, stopped>>

Timer(c) ==
  daemon /= "down" /\ (Expire(c) \/ Flag(c) \/ KillGroup(c) \/ KillChild(c))

-----------------------------------------------------------------------------
(***************************************************************************)
(* The shutdown handler, beside the requests still being served.           *)
(***************************************************************************)
Signal ==
  /\ daemon = "up"
  /\ daemon' = "killing"
  /\ doomed' = registered
  /\ UNCHANGED <<main, timer, timedOut, process, registered, killed, stopped>>

KillDoomed(c) ==
  /\ daemon = "killing"
  /\ c \in doomed \ killed
  /\ KillProcessTree(c)
  /\ killed' = killed \cup {c}
  /\ UNCHANGED <<main, timer, timedOut, registered, daemon, doomed, stopped>>

\* With bwrap --die-with-parent the children die now, with sandbox-exec they live on.
ExitDaemon ==
  /\ daemon = "killing"
  /\ killed = doomed
  /\ daemon' = "down"
  /\ \E dying \in {{}, {"child"}} :
       /\ alive' = [c \in Calls |-> alive[c] \ dying]
       /\ holds' = [c \in Calls |-> [p \in Processes |-> IF p \in dying THEN {} ELSE holds[c][p]]]
  /\ UNCHANGED <<main, timer, timedOut, detached, registered, doomed, killed, stopped>>

-----------------------------------------------------------------------------
ExecutorNext ==
  \/ \E c \in Calls :
       \/ daemon /= "down" /\ Spawn(c)
       \/ Main(c) \/ Timer(c)
       \/ Fork(c) \/ Redirect(c) \/ Detach(c) \/ Exit(c)
       \/ KillDoomed(c)
  \/ Signal \/ ExitDaemon

ExecutorSpec == ExecutorInit /\ [][ExecutorNext]_executorVars

\* The daemon's threads go on and the timeout comes; the processes owe nothing.
ExecutorFairness ==
  /\ \A c \in Calls : /\ WF_executorVars(Main(c)) /\ WF_executorVars(Timer(c))
                      /\ WF_executorVars(KillDoomed(c))
  /\ WF_executorVars(ExitDaemon)
ExecutorFairSpec == ExecutorSpec /\ ExecutorFairness

-----------------------------------------------------------------------------
(***************************************************************************)
(* Properties.                                                             *)
(***************************************************************************)

\* A command the timer killed, whole or in part, is never reported as one that
\* ended: the flag is up before the first kill and read after the last.
StoppedIsReported == \A c \in stopped : main[c] /= "ok"

\* After a call, whatever its command left running in the background, none of its
\* process group is alive.
GroupGone == \A c \in Calls : main[c] \in Ended => Grouped(c) = {}

\* While a process of a call's group may live, a shutdown finds the group: it
\* stays registered until the last sweep is over.
ReachableAtShutdown ==
  /\ ExecutorTypeOK
  /\ \A c \in Calls :
       Grouped(c) /= {} /\ main[c] \notin {"ready", "spawned"} => c \in registered

\* A call ends with its command or at the timeout though no process of the command
\* ever exits, and its timer thread ends with it, the timer waiting for the mutex
\* the call holds or not.  The processes of the call must keep their pipes and their
\* group and print UTF-8; those of other calls may do as they like.
EndsEventually(c) ==
  main[c] = "reading" ~> daemon = "down" \/ (main[c] \in Ended /\ timer[c] = "gone")
TameCallsEnd == \A c \in Calls \ Unruly : EndsEventually(c)

\* Doc of run: the wall time of every call is bounded by the timeout.
EveryCallEnds == \A c \in Calls : EndsEventually(c)
=============================================================================
