----------------------------- MODULE Traceflow -----------------------------
(***************************************************************************)
(* The trace loop of c/traceflow.c: a tracer that waits for any of its     *)
(* tracees, keeps a bounded table of them, and lets each one go on.  The   *)
(* kernel stops a tracee at every system call and event, starts each new   *)
(* task stopped, and reports the stops of different tasks in any order.    *)
(*                                                                         *)
(* One action takes a report and answers it: until it is answered the task *)
(* stands still, and nobody but the tracer touches the table.  PIDs are    *)
(* not reused within one trace.                                            *)
(***************************************************************************)
EXTENDS Naturals, FiniteSets

CONSTANTS Pids,       \* the tasks there may be
          Root,       \* the command itself
          MaxTraced,  \* MAX_TRACED
          Stops,      \* bound on system-call, exec and signal stops
          None        \* no task

ASSUME TraceAssumption ==
  /\ Root \in Pids
  /\ None \notin Pids
  /\ MaxTraced \in Nat \ {0}
  /\ Stops \in Nat

VARIABLES table,    \* processes[]: entries by PID
          pc,       \* "wait" or "returned"
          result,   \* root_status
          fault,    \* waitpid or PTRACE_SYSCALL failed
          life,     \* "unborn", "running", "stopped", "zombie" or "reaped"
          stop,     \* why a stopped task stands still
          child,    \* the task it has just created
          inside,   \* it is inside a system call
          ending,   \* the status Root will end with
          doomed,   \* tasks given PTRACE_KILL
          unlisted, \* new tasks that no entry was made for: the table was full,
                    \* or their creator was killed before it could be read
          left      \* system-call, exec and signal stops still to come

tracerVars == <<table, pc, result, fault>>
taskVars   == <<life, stop, child, inside, ending, doomed, unlisted, left>>
vars       == <<tracerVars, taskVars>>

Kinds == {"none", "initial", "syscall", "fork", "exec", "signal", "exit"}
Statuses == {0, 1, 137}
Alive(p) == life[p] \in {"running", "stopped"}

-----------------------------------------------------------------------------
(* The table *)

Entry == [parent: Pids \cup {None}, depth: Nat, entering: {"yes", "no"}]

(* add_process: p under q, unless p is there or the table is full. *)
AddProcess(t, p, q) ==
  IF p \in DOMAIN t \/ Cardinality(DOMAIN t) >= MaxTraced THEN t
  ELSE [r \in DOMAIN t \cup {p} |->
          IF r \in DOMAIN t THEN t[r]
          ELSE [parent |-> q, depth |-> IF q \in DOMAIN t THEN t[q].depth + 1 ELSE 0,
                entering |-> "yes"]]

RemoveProcess(t, p) == [r \in DOMAIN t \ {p} |-> t[r]]

(* A task that reports and is not in the table is put under Root. *)
Seen(p) == AddProcess(table, p, Root)

-----------------------------------------------------------------------------
(* The tracer *)

(* waitpid returns the report of some task while the table has entries. *)
Reports(p, state) ==
  /\ pc = "wait"
  /\ DOMAIN table # {}
  /\ life[p] = state

(* PTRACE_SYSCALL; a task that stopped for its exit is then over. *)
Resume(p) ==
  /\ life' = [life EXCEPT ![p] = IF stop[p] = "exit" THEN "zombie" ELSE "running"]
  /\ stop' = [stop EXCEPT ![p] = "none"]

(* Mutant of OnZombie: the status is that of the last task to end. *)
OnZombieAny(p) ==
  /\ Reports(p, "zombie")
  /\ life' = [life EXCEPT ![p] = "reaped"]
  /\ table' = RemoveProcess(table, p)
  /\ result' = IF p = Root THEN ending ELSE 0
  /\ UNCHANGED <<pc, fault, stop, child, inside, ending, doomed, unlisted, left>>

(* A task has exited or was killed.  One that is not in the table, whether  *)
(* or not there is room for it, leaves the table as it is.                  *)
OnZombie(p) ==
  /\ Reports(p, "zombie")
  /\ life' = [life EXCEPT ![p] = "reaped"]
  /\ table' = RemoveProcess(table, p)
  /\ result' = IF p = Root THEN ending ELSE result
  /\ UNCHANGED <<pc, fault, stop, child, inside, ending, doomed, unlisted, left>>

(* Stopped and, now, in the table. *)
Tracked(p) == Reports(p, "stopped") /\ p \in DOMAIN Seen(p)

OnSyscall(p) ==
  /\ Tracked(p) /\ stop[p] = "syscall"
  /\ table' = [Seen(p) EXCEPT ![p].entering = IF @ = "yes" THEN "no" ELSE "yes"]
  /\ Resume(p)
  /\ UNCHANGED <<pc, result, fault, child, inside, ending, doomed, unlisted, left>>

(* Mutant of OnFork: the new task is left to its own first stop. *)
OnForkUnread(p) ==
  /\ Tracked(p) /\ stop[p] = "fork"
  /\ table' = Seen(p)
  /\ Resume(p)
  /\ UNCHANGED <<pc, result, fault, child, inside, ending, doomed, unlisted, left>>

OnFork(p) ==
  /\ Tracked(p) /\ stop[p] = "fork"
  /\ table' = AddProcess(Seen(p), child[p], p)
  /\ unlisted' = unlisted \cup ({child[p]} \ DOMAIN table')
  /\ Resume(p)
  /\ UNCHANGED <<pc, result, fault, child, inside, ending, doomed, left>>

(* Mutant of OnOther: an exec is taken for the end of the system call. *)
OnOtherToggles(p) ==
  /\ Tracked(p) /\ stop[p] \in {"initial", "exec", "signal", "exit"}
  /\ table' = [Seen(p) EXCEPT ![p].entering = IF stop[p] = "exec" THEN "yes" ELSE @]
  /\ Resume(p)
  /\ UNCHANGED <<pc, result, fault, child, inside, ending, doomed, unlisted, left>>

(* The first stop, an exec, a signal, which is delivered, or the exit. *)
OnOther(p) ==
  /\ Tracked(p) /\ stop[p] \in {"initial", "exec", "signal", "exit"}
  /\ table' = Seen(p)
  /\ Resume(p)
  /\ UNCHANGED <<pc, result, fault, child, inside, ending, doomed, unlisted, left>>

(* Mutant of OnFull: the task is neither killed nor resumed. *)
OnFullSkips(p) ==
  /\ Reports(p, "stopped") /\ p \notin DOMAIN Seen(p)
  /\ UNCHANGED vars

(* PTRACE_KILL for a task there is no room for.  A stop for its exit may or *)
(* may not come before its end.                                             *)
OnFull(p) ==
  /\ Reports(p, "stopped") /\ p \notin DOMAIN Seen(p)
  /\ doomed' = doomed \cup {p}
  /\ \/ /\ life' = [life EXCEPT ![p] = "zombie"]
        /\ stop' = [stop EXCEPT ![p] = "none"]
     \/ /\ stop[p] # "exit"
        /\ stop' = [stop EXCEPT ![p] = "exit"]
        /\ UNCHANGED life
  /\ UNCHANGED <<tracerVars, child, inside, ending, unlisted, left>>

TracerReturns(status) ==
  /\ pc' = "returned"
  /\ result' = status
  /\ UNCHANGED <<table, taskVars>>

(* Mutant of NoChildren: ECHILD is retried like EINTR. *)
NoChildrenRetry ==
  /\ pc = "wait" /\ DOMAIN table # {}
  /\ \A p \in Pids : life[p] \in {"unborn", "reaped"}
  /\ UNCHANGED vars

(* ECHILD: nobody is left, whatever the table says. *)
NoChildren ==
  /\ pc = "wait" /\ DOMAIN table # {}
  /\ \A p \in Pids : life[p] \in {"unborn", "reaped"}
  /\ TracerReturns(result)
  /\ UNCHANGED fault

NoEntries ==
  /\ pc = "wait" /\ DOMAIN table = {}
  /\ TracerReturns(result)
  /\ UNCHANGED fault

(* waitpid or PTRACE_SYSCALL fails. *)
TraceFails ==
  /\ pc = "wait" /\ DOMAIN table # {}
  /\ fault' = TRUE
  /\ TracerReturns(1)

Tracer ==
  \/ \E p \in Pids : OnZombie(p) \/ OnSyscall(p) \/ OnFork(p) \/ OnOther(p) \/ OnFull(p)
  \/ NoChildren \/ NoEntries

-----------------------------------------------------------------------------
(* The kernel and the tasks *)

StopFor(p, kind) ==
  /\ pc = "wait"
  /\ life[p] = "running"
  /\ life' = [life EXCEPT ![p] = "stopped"]
  /\ stop' = [stop EXCEPT ![p] = kind]
  /\ UNCHANGED <<tracerVars, ending, doomed, unlisted>>

SyscallStop(p) ==
  /\ left > 0 /\ left' = left - 1
  /\ StopFor(p, "syscall")
  /\ inside' = [inside EXCEPT ![p] = ~@]
  /\ UNCHANGED child

ExecStop(p) ==
  /\ left > 0 /\ left' = left - 1
  /\ inside[p]
  /\ StopFor(p, "exec")
  /\ UNCHANGED <<inside, child>>

SignalStop(p) ==
  /\ left > 0 /\ left' = left - 1
  /\ ~inside[p]
  /\ StopFor(p, "signal")
  /\ UNCHANGED <<inside, child>>

ExitStop(p) ==
  /\ StopFor(p, "exit")
  /\ UNCHANGED <<inside, child, left>>

(* fork, vfork or clone: the new task and its creator both stop. *)
Clone(p, c) ==
  /\ pc = "wait"
  /\ life[p] = "running" /\ inside[p]
  /\ life[c] = "unborn"
  /\ life' = [life EXCEPT ![p] = "stopped", ![c] = "stopped"]
  /\ stop' = [stop EXCEPT ![p] = "fork", ![c] = "initial"]
  /\ child' = [child EXCEPT ![p] = c]
  /\ UNCHANGED <<tracerVars, inside, ending, doomed, unlisted, left>>

(* SIGKILL from somebody else ends a task at once, stopped or not. *)
Killed(p) ==
  /\ pc = "wait"
  /\ Alive(p)
  /\ life' = [life EXCEPT ![p] = "zombie"]
  /\ stop' = [stop EXCEPT ![p] = "none"]
  /\ unlisted' = IF stop[p] = "fork" THEN unlisted \cup ({child[p]} \ DOMAIN table) ELSE unlisted
  /\ UNCHANGED <<tracerVars, child, inside, ending, doomed, left>>

Tasks == \E p \in Pids :
  \/ SyscallStop(p) \/ ExecStop(p) \/ SignalStop(p) \/ ExitStop(p) \/ Killed(p)
  \/ \E c \in Pids : Clone(p, c)

-----------------------------------------------------------------------------

(* main has waited for the first stop of Root, and let it go on. *)
Init ==
  /\ table = [p \in {Root} |-> [parent |-> None, depth |-> 0, entering |-> "yes"]]
  /\ pc = "wait" /\ result = 1 /\ fault = FALSE
  /\ life = [p \in Pids |-> IF p = Root THEN "running" ELSE "unborn"]
  /\ stop = [p \in Pids |-> "none"]
  /\ child = [p \in Pids |-> None]
  /\ inside = [p \in Pids |-> FALSE]
  /\ ending \in Statuses
  /\ doomed = {} /\ unlisted = {}
  /\ left = Stops

Next == Tracer \/ TraceFails \/ Tasks

(* The tracer is scheduled.  Nothing is promised of the tasks, nor of the   *)
(* order in which waitpid picks them.                                       *)
Spec == Init /\ [][Next]_vars /\ WF_vars(Tracer)

-----------------------------------------------------------------------------
(* Type invariant.  The table never exceeds its limit, and what a task      *)
(* stopped for fits its state.                                              *)

TypeOK ==
  /\ DOMAIN table \in SUBSET Pids
  /\ \A p \in DOMAIN table : table[p] \in Entry
  /\ Cardinality(DOMAIN table) <= MaxTraced
  /\ pc \in {"wait", "returned"}
  /\ result \in Statuses
  /\ fault \in BOOLEAN
  /\ life \in [Pids -> {"unborn", "running", "stopped", "zombie", "reaped"}]
  /\ stop \in [Pids -> Kinds]
  /\ \A p \in Pids : stop[p] # "none" <=> life[p] = "stopped"
  /\ child \in [Pids -> Pids \cup {None}]
  /\ inside \in [Pids -> BOOLEAN]
  /\ ending \in Statuses
  /\ doomed \in SUBSET Pids
  /\ unlisted \in SUBSET Pids
  /\ left \in 0..Stops

-----------------------------------------------------------------------------
(* Safety *)

(* The tracer's idea of where each task is, on its way into a system call   *)
(* or out of one, is right whenever the task runs: no result is ever        *)
(* printed as a call, whatever forks, execs and signals come between.       *)
PhaseAgrees ==
  \A p \in DOMAIN table :
    life[p] = "running" => (table[p].entering = "no" <=> inside[p])

(* A trace that did not fail ends with the status of the command, whoever   *)
(* of its descendants ends last.                                            *)
RootStatus ==
  pc = "returned" /\ ~fault => life[Root] = "reaped" /\ result = ending

(* The tracer leaves nobody behind alive, but a task it has killed, and one *)
(* that no entry was made for when it was created.                          *)
NoneEscapes ==
  pc = "returned" /\ ~fault => \A p \in Pids : Alive(p) => p \in doomed \cup unlisted

(* README.md: "follows fork/vfork/clone/exec events" of the command: the    *)
(* trace does not end before its last descendant.                           *)
FollowsAll ==
  pc = "returned" /\ ~fault => \A p \in Pids : Alive(p) => p \in doomed

-----------------------------------------------------------------------------
(* Liveness *)

(* Every stopped task is let go, or killed, also when the table is full. *)
StopsAnswered ==
  \A p \in Pids : life[p] = "stopped" ~> (life[p] # "stopped" \/ pc = "returned")

(* Once all tasks are over the tracer returns, even with entries of tasks   *)
(* whose end came before the report of their creation.                      *)
Returns ==
  <>[](\A p \in Pids : life[p] \in {"unborn", "zombie", "reaped"}) => <>(pc = "returned")
=============================================================================
