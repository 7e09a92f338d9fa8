------------------------------- MODULE PqRun -------------------------------
(***************************************************************************)
(* pq_run of c/pqcommon.c and run of pqcommon.py: the bounded invocation   *)
(* of OpenSSL.  The runner forks one child in a process group of its own,  *)
(* reads its output from a pipe up to a budget and a deadline, and either  *)
(* collects it or kills the group.  The child may fork a descendant that   *)
(* shares the pipe and may leave the group.  The kernel may give the       *)
(* child's PID to a stranger, but only once the child is reaped and its    *)
(* group is empty.                                                         *)
(***************************************************************************)
EXTENDS Naturals

CONSTANTS Runners,    \* the programs that may run: "c", "python"
          Budget,     \* PQ_OUTPUT, in the unit of one read
          MaxOutput,  \* bound on what the processes write
          PipeCap     \* capacity of the pipe

ASSUME PqAssumption ==
  /\ Runners \subseteq {"c", "python"}
  /\ Budget \in Nat
  /\ MaxOutput \in Nat
  /\ PipeCap \in Nat \ {0}

VARIABLES runner,   \* the program that runs
          pc,       \* its next step
          expired,  \* the ten seconds are over
          eof,      \* the runner has read end of file
          done,     \* the runner has collected the child's status
          length,   \* output collected
          result,   \* "none", "ok" or "failed"
          fault,    \* poll, read or the clock failed
          cut,      \* the runner gave the child up and signalled its group
          child,    \* "none", "forked", "running", "zombie" or "reaped"
          status,   \* how the child ended
          desc,     \* the descendant: "none", "running" or "dead"
          grouped,  \* the descendant is in the child's group
          writers,  \* who holds the write end of the pipe
          pipe,     \* units in the pipe
          written,  \* units ever written
          owner,    \* whom the child's PID denotes: "child", "free", "stranger"
          stricken  \* a stranger has been sent the runner's SIGKILL

runnerVars == <<runner, pc, expired, eof, done, length, result, fault, cut>>
childVars  == <<child, status, desc, grouped, writers, pipe, written>>
kernelVars == <<owner, stricken>>
vars == <<runnerVars, childVars, kernelVars>>

-----------------------------------------------------------------------------
(* The runner *)

(* pipe and fork; the parent still holds its own copy of the write end.     *)
(* Popen returns only after the exec.                                       *)
Fork ==
  /\ pc = "start"
  /\ child' = IF runner = "c" THEN "forked" ELSE "running"
  /\ owner' = "child"
  /\ writers' = {"parent", "child"}
  /\ pc' = "parent"
  /\ UNCHANGED <<runner, expired, eof, done, length, result, fault, cut, status, desc, grouped,
                 pipe, written, stricken>>

(* pipe or fork fails: nothing to clean up.  In Python a failed exec is a   *)
(* failed Popen, which has collected the child.                             *)
ForkFails ==
  /\ pc = "start"
  /\ pc' = "returned"
  /\ result' = "failed"
  /\ fault' = TRUE
  /\ UNCHANGED <<runner, expired, eof, done, length, cut, childVars, kernelVars>>

CloseWriteEnd ==
  /\ pc = "parent"
  /\ writers' = writers \ {"parent"}
  /\ pc' = "check"
  /\ UNCHANGED <<runner, expired, eof, done, length, result, fault, cut, child, status, desc,
                 grouped, pipe, written, kernelVars>>

RunnerGoes(step) ==
  /\ pc' = step
  /\ UNCHANGED <<runner, expired, eof, done, length, result, fault, cut, childVars, kernelVars>>

(* Mutant of Check: an exited child counts as end of file. *)
CheckExit ==
  /\ pc = "check"
  /\ RunnerGoes(IF expired THEN "kill" ELSE
                IF eof \/ child = "zombie" THEN "collect" ELSE "io")

(* The head of the loop looks at the clock. *)
Check ==
  /\ pc = "check"
  /\ RunnerGoes(IF expired THEN "kill" ELSE IF eof THEN "collect" ELSE "io")

(* Mutant of Read: the budget is checked off by one. *)
ReadBelowBudget ==
  /\ pc = "io"
  /\ \E n \in 1..pipe :
       /\ pipe' = pipe - n
       /\ \/ n >= Budget - length /\ pc' = "kill" /\ UNCHANGED length
          \/ n < Budget - length /\ pc' = "check" /\ length' = length + n
  /\ UNCHANGED <<runner, expired, eof, done, result, fault, cut, child, status, desc, grouped,
                 writers, written, kernelVars>>

(* One read of what the pipe holds; more than the budget gives up. *)
Read ==
  /\ pc = "io"
  /\ \E n \in 1..pipe :
       /\ pipe' = pipe - n
       /\ \/ n > Budget - length /\ pc' = "kill" /\ UNCHANGED length
          \/ n <= Budget - length /\ pc' = "check" /\ length' = length + n
  /\ UNCHANGED <<runner, expired, eof, done, result, fault, cut, child, status, desc, grouped,
                 writers, written, kernelVars>>

ReadEof ==
  /\ pc = "io"
  /\ pipe = 0 /\ writers = {}
  /\ eof' = TRUE
  /\ pc' = "collect"
  /\ UNCHANGED <<runner, expired, done, length, result, fault, cut, childVars, kernelVars>>

(* C polls for 50 ms and goes round, as it does for EINTR; Python selects   *)
(* for all of the time that remains and gives up.                           *)
NothingToRead ==
  /\ pc = "io"
  /\ \/ runner = "c" /\ RunnerGoes("check")
     \/ runner = "python" /\ expired /\ pipe = 0 /\ writers # {} /\ RunnerGoes("kill")

(* The clock, poll, read or waitpid fails; Ctrl-C interrupts Python. *)
IOFails ==
  /\ pc \in {"check", "io", "collect"}
  /\ fault' = TRUE
  /\ pc' = "kill"
  /\ UNCHANGED <<runner, expired, eof, done, length, result, cut, childVars, kernelVars>>

(* The PID stays the child's until it is reaped and its group is empty. *)
Reap ==
  /\ child = "zombie"
  /\ child' = "reaped"
  /\ owner' = IF desc = "running" /\ grouped THEN owner ELSE "free"

(* Mutant of NotExited: proc.wait() without a time-out. *)
NotExitedForever ==
  /\ pc = "collect" /\ child # "zombie" /\ runner = "c"
  /\ RunnerGoes("check")

(* waitpid(WNOHANG) finds no exit, and C goes round; proc.wait times out. *)
NotExited ==
  /\ pc = "collect" /\ child # "zombie"
  /\ \/ runner = "c" /\ RunnerGoes("check")
     \/ runner = "python" /\ expired /\ RunnerGoes("kill")

(* Mutant of Collect: the cleanup signals the group of a collected child. *)
CollectThenKill ==
  /\ pc = "collect"
  /\ Reap
  /\ done' = TRUE
  /\ \/ status = "ok" /\ pc' = "returned" /\ result' = "ok"
     \/ status # "ok" /\ pc' = "kill" /\ UNCHANGED result
  /\ UNCHANGED <<runner, expired, eof, length, fault, cut, status, desc, grouped, writers, pipe,
                 written, stricken>>

(* The exited child is collected.  For a status other than 0 C returns;     *)
(* Python raises, and its handler signals the group.                        *)
Collect ==
  /\ pc = "collect"
  /\ Reap
  /\ done' = TRUE
  /\ \/ status = "ok" /\ pc' = "returned" /\ result' = "ok"
     \/ status # "ok" /\ runner = "c" /\ pc' = "returned" /\ result' = "failed"
     \/ status # "ok" /\ runner = "python" /\ pc' = "kill" /\ UNCHANGED result
  /\ UNCHANGED <<runner, expired, eof, length, fault, cut, status, desc, grouped, writers, pipe,
                 written, stricken>>

(* Mutant of Kill: only the child is signalled, not its group. *)
KillChildOnly ==
  /\ pc = "kill"
  /\ LET struck == child \in {"forked", "running"}
     IN /\ child' = IF struck THEN "zombie" ELSE child
        /\ status' = IF struck THEN "killed" ELSE status
        /\ writers' = IF struck THEN writers \ {"child"} ELSE writers
  /\ cut' = TRUE
  /\ pc' = "wait"
  /\ UNCHANGED <<runner, expired, eof, done, length, result, fault, desc, grouped, pipe, written,
                 kernelVars>>

(* kill(-pid) and kill(pid) in C, os.killpg(pid) in Python.  The child and  *)
(* the descendant in its group die; a stranger with that PID would.         *)
Kill ==
  /\ pc = "kill"
  /\ LET hit == desc = "running" /\ grouped /\ owner = "child"
         struck == child \in {"forked", "running"}
     IN /\ child' = IF struck THEN "zombie" ELSE child
        /\ status' = IF struck THEN "killed" ELSE status
        /\ desc' = IF hit THEN "dead" ELSE desc
        /\ writers' = {p \in writers : ~(p = "child" /\ struck) /\ ~(p = "desc" /\ hit)}
        /\ owner' = IF hit /\ child = "reaped" THEN "free" ELSE owner
  /\ stricken' = (stricken \/ owner = "stranger")
  /\ cut' = TRUE
  /\ pc' = "wait"
  /\ UNCHANGED <<runner, expired, eof, done, length, result, fault, grouped, pipe, written>>

(* The blocking waitpid after the kill. *)
WaitChild ==
  /\ pc = "wait"
  /\ IF done THEN UNCHANGED <<child, owner>> ELSE Reap
  /\ done' = TRUE
  /\ pc' = "returned"
  /\ result' = "failed"
  /\ UNCHANGED <<runner, expired, eof, length, fault, cut, status, desc, grouped, writers, pipe,
                 written, stricken>>

RunnerStep ==
  \/ Fork \/ CloseWriteEnd \/ Check \/ Read \/ ReadEof \/ NothingToRead
  \/ NotExited \/ Collect \/ Kill \/ WaitChild

RunnerFails == ForkFails \/ IOFails

-----------------------------------------------------------------------------
(* The child, its descendant and the kernel *)

(* setpgid, dup2, setrlimit, execv; _exit(126) or _exit(127) if one fails. *)
Exec ==
  /\ child = "forked"
  /\ \/ child' = "running" /\ UNCHANGED <<status, writers>>
     \/ child' = "zombie" /\ status' = "bad" /\ writers' = writers \ {"child"}
  /\ UNCHANGED <<runnerVars, desc, grouped, pipe, written, kernelVars>>

ChildForks ==
  /\ child = "running" /\ desc = "none"
  /\ desc' = "running"
  /\ grouped' \in BOOLEAN
  /\ \/ UNCHANGED writers
     \/ "child" \in writers /\ writers' = writers \cup {"desc"}
  /\ UNCHANGED <<runnerVars, child, status, pipe, written, kernelVars>>

Alive(p) == \/ p = "child" /\ child = "running"
            \/ p = "desc" /\ desc = "running"

(* SIGPIPE ends a writer once the runner has closed the read end. *)
WriteOutput(p) ==
  /\ Alive(p) /\ p \in writers
  /\ pc # "returned"
  /\ pipe < PipeCap /\ written < MaxOutput
  /\ pipe' = pipe + 1
  /\ written' = written + 1
  /\ UNCHANGED <<runnerVars, child, status, desc, grouped, writers, kernelVars>>

CloseOutput(p) ==
  /\ Alive(p) /\ p \in writers
  /\ writers' = writers \ {p}
  /\ UNCHANGED <<runnerVars, child, status, desc, grouped, pipe, written, kernelVars>>

ChildExits ==
  /\ child = "running"
  /\ child' = "zombie"
  /\ status' \in {"ok", "bad"}
  /\ writers' = writers \ {"child"}
  /\ UNCHANGED <<runnerVars, desc, grouped, pipe, written, kernelVars>>

DescExits ==
  /\ desc = "running"
  /\ desc' = "dead"
  /\ writers' = writers \ {"desc"}
  /\ owner' = IF child = "reaped" /\ owner = "child" THEN "free" ELSE owner
  /\ UNCHANGED <<runnerVars, child, status, grouped, pipe, written, stricken>>

(* A new process, leading a group of its own, gets the free PID. *)
ReusePid ==
  /\ child = "reaped" /\ owner = "free"
  /\ owner' = "stranger"
  /\ UNCHANGED <<runnerVars, childVars, stricken>>

Tick ==
  /\ pc \notin {"start", "returned"}
  /\ ~expired
  /\ expired' = TRUE
  /\ UNCHANGED <<runner, pc, eof, done, length, result, fault, cut, childVars, kernelVars>>

Outside == \/ Exec \/ ChildForks \/ ChildExits \/ DescExits \/ ReusePid \/ Tick
           \/ \E p \in {"child", "desc"} : WriteOutput(p) \/ CloseOutput(p)

-----------------------------------------------------------------------------

Init ==
  /\ runner \in Runners
  /\ pc = "start" /\ expired = FALSE /\ eof = FALSE /\ done = FALSE /\ length = 0
  /\ result = "none" /\ fault = FALSE /\ cut = FALSE
  /\ child = "none" /\ status = "none" /\ desc = "none" /\ grouped = FALSE
  /\ writers = {} /\ pipe = 0 /\ written = 0
  /\ owner = "free" /\ stricken = FALSE

Next == RunnerStep \/ RunnerFails \/ Outside

(* The runner is scheduled and time passes.  No failure is counted upon to  *)
(* get it going, and the child owes nothing: it may never write or exit.    *)
Fairness == WF_vars(RunnerStep) /\ WF_vars(Tick)

Spec == Init /\ [][Next]_vars /\ Fairness

-----------------------------------------------------------------------------
(* Type invariant *)

TypeOK ==
  /\ runner \in Runners
  /\ pc \in {"start", "parent", "check", "io", "collect", "kill", "wait", "returned"}
  /\ expired \in BOOLEAN /\ eof \in BOOLEAN /\ done \in BOOLEAN
  /\ fault \in BOOLEAN /\ cut \in BOOLEAN /\ stricken \in BOOLEAN
  /\ length \in 0..Budget
  /\ result \in {"none", "ok", "failed"}
  /\ child \in {"none", "forked", "running", "zombie", "reaped"}
  /\ status \in {"none", "ok", "bad", "killed"}
  /\ desc \in {"none", "running", "dead"}
  /\ grouped \in BOOLEAN
  /\ writers \in SUBSET {"parent", "child", "desc"}
  /\ pipe \in 0..PipeCap
  /\ written \in 0..MaxOutput
  /\ owner \in {"child", "free", "stranger"}

-----------------------------------------------------------------------------
(* Safety *)

(* The C program never sends SIGKILL to a process that is not its own: it   *)
(* keeps the child unreaped, and so its PID reserved, for as long as it may *)
(* signal it (c/pqcommon.c, "Keep an exited child unreaped").               *)
NeverSignalsStranger == runner = "c" => ~stricken

(* A successful run returns all that was written, after an exit status 0,   *)
(* however the writes of two processes and the end of the child interleave. *)
SuccessIsComplete ==
  result = "ok" => /\ length = written
                   /\ status = "ok"
                   /\ done /\ eof

(* A run fails for a reason: a failed call, the deadline, an output beyond  *)
(* the budget, or a child that did not exit with 0.                         *)
FailureHasCause ==
  result = "failed" => fault \/ expired \/ written > Budget \/ status = "bad"

(* When the runner returns its child is reaped, and if it gave up, nothing  *)
(* of the child's group is left alive.                                      *)
NothingLeftBehind ==
  pc = "returned" => /\ child \in {"none", "reaped"}
                     /\ cut => ~(desc = "running" /\ grouped)
=============================================================================
