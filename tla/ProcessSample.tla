--------------------------- MODULE ProcessSample ---------------------------
(***************************************************************************)
(* sample_processes of pydev_ai/processes.py and the response list_processes *)
(* of pydev_ai/collectors.py makes of it.  The collector passes over /proc *)
(* twice, computes rates for the PIDs it saw both times, then reads the    *)
(* status, stat, exe and fd of each, one file after the other, while       *)
(* processes end and their PIDs are given to new ones.                     *)
(*                                                                         *)
(* A process is an incarnation of its PID: a number that stands for its    *)
(* start time and for everything its files say of it.  Linux lists /proc in *)
(* the order of the PIDs, and the rates keep that order.                   *)
(***************************************************************************)
EXTENDS Naturals, FiniteSets, FiniteSetsExt

CONSTANTS Pids,          \* the PIDs in use
          MaxProcesses,  \* max_processes of read_counters
          RowLimit,      \* limit of list_processes
          Births,        \* bound on the processes a PID is given to
          MaxTicks,      \* bound on a process's CPU ticks
          Changes        \* bound on what happens to the processes in all

ASSUME SampleAssumption ==
  /\ Pids \subseteq Nat \ {0} /\ IsFiniteSet(Pids)
  /\ MaxProcesses \in Nat
  /\ RowLimit \in Nat \ {0}
  /\ Births \in Nat \ {0}
  /\ MaxTicks \in Nat
  /\ Changes \in Nat

VARIABLES pc,      \* "before", "sleep", "after", a file of a row, or "done"
          todo,    \* PIDs the current pass or loop has still to visit
          before,  \* counters of the first pass, by PID
          after,   \* counters of the second pass
          row,     \* the row being read
          rows,    \* the rows published
          tally,   \* what read_counters and the rows have left out, by reason
          answer,  \* coverage and status of the response
          who,     \* the process that has each PID, 0 for none
          ticks,   \* its CPU ticks
          born,    \* how many processes have had it
          left,    \* changes still to come
          steady   \* PIDs whose process has lived since the sample began and whose
           \* counter has never gone back

collectorVars == <<pc, todo, before, after, row, rows, tally, answer>>
kernelVars    == <<who, ticks, born, left, steady>>
vars          == <<collectorVars, kernelVars>>

Nobody == 0
NoRow == [pid |-> 0, status |-> Nobody, start |-> Nobody, exe |-> Nobody, fds |-> Nobody]
NoAnswer == [status |-> "none", scanned |-> 0, skipped |-> 0, failed |-> 0, truncated |-> 0]

Count(field, n) == tally' = [tally EXCEPT ![field] = @ + n]

-----------------------------------------------------------------------------
(* read_counters, twice *)

(* One entry of /proc in the pass that fills c: beyond the limit it is      *)
(* skipped, also when its process has ended since it was listed.  Below it  *)
(* stat is read, which fails if the process has ended, and may fail for one *)
(* that is there (OSError, ValueError); either counts as failed.  A listing *)
(* is read in batches: it may lack a process that was not there all along.  *)
VisitInto(c, p) ==
  \/ /\ p \notin steady
     /\ UNCHANGED <<before, after, tally>>
  \/ /\ Cardinality(DOMAIN c) >= MaxProcesses
     /\ Count("skipped", 1)
     /\ UNCHANGED <<before, after>>
  \/ /\ Cardinality(DOMAIN c) < MaxProcesses
     /\ Count("failed", 1)
     /\ UNCHANGED <<before, after>>
  \/ /\ Cardinality(DOMAIN c) < MaxProcesses /\ who[p] # Nobody
     /\ LET read == [q \in DOMAIN c \cup {p} |->
                       IF q = p THEN [start |-> who[p], cpu |-> ticks[p]] ELSE c[q]]
        IN IF pc = "before" THEN before' = read /\ UNCHANGED after
                            ELSE after' = read /\ UNCHANGED before
     /\ UNCHANGED tally

Visit(p) ==
  /\ pc \in {"before", "after"}
  /\ p \in todo /\ \A q \in todo : p <= q
  /\ VisitInto(IF pc = "before" THEN before ELSE after, p)
  /\ todo' = todo \ {p}
  /\ UNCHANGED <<pc, row, rows, answer, kernelVars>>

Sleep ==
  /\ pc = "before" /\ todo = {}
  /\ pc' = "after"
  /\ todo' = Pids
  /\ UNCHANGED <<before, after, row, rows, tally, answer, kernelVars>>

-----------------------------------------------------------------------------
(* process_cpu_rates *)

Both     == DOMAIN before \cap DOMAIN after
Reused   == {p \in Both : before[p].start # after[p].start}

(* Mutant of WentBack: a counter that stood still counts as gone back. *)
StoodStill == {p \in Both \ Reused : after[p].cpu <= before[p].cpu}

WentBack == {p \in Both \ Reused : after[p].cpu < before[p].cpu}

Rated == Both \ (Reused \cup WentBack)

Rates ==
  /\ pc = "after" /\ todo = {}
  /\ tally' = [tally EXCEPT !.reused = @ + Cardinality(Reused),
                            !.reset = @ + Cardinality(WentBack)]
  /\ pc' = "status"
  /\ todo' = Rated
  /\ UNCHANGED <<before, after, row, rows, answer, kernelVars>>

-----------------------------------------------------------------------------
(* process_metadata: four files of one PID, one after the other *)

(* Mutant of RowFails: the row is dropped and nothing counts it. *)
RowFailsUncounted ==
  /\ UNCHANGED tally
  /\ pc' = "status"
  /\ todo' = todo \ {row'.pid}

(* A file that is gone, or cannot be read or parsed, ends the row. *)
RowFails ==
  /\ Count("lost", 1)
  /\ pc' = "status"
  /\ todo' = todo \ {row'.pid}

ReadStatus(p) ==
  /\ pc = "status"
  /\ p \in todo /\ \A q \in todo : p <= q
  /\ row' = [NoRow EXCEPT !.pid = p, !.status = who[p]]
  /\ \/ RowFails
     \/ who[p] # Nobody /\ pc' = "stat" /\ UNCHANGED <<todo, tally>>
  /\ UNCHANGED <<before, after, rows, answer, kernelVars>>

ReadStat ==
  /\ pc = "stat"
  /\ row' = [row EXCEPT !.start = who[row.pid]]
  /\ \/ RowFails
     \/ who[row.pid] # Nobody /\ pc' = "exe" /\ UNCHANGED <<todo, tally>>
  /\ UNCHANGED <<before, after, rows, answer, kernelVars>>

(* exe and fd may be unreadable, which only leaves the field out. *)
ReadExe ==
  /\ pc = "exe"
  /\ row' = [row EXCEPT !.exe = who[row.pid]]
  /\ pc' = "fd"
  /\ UNCHANGED <<todo, before, after, rows, tally, answer, kernelVars>>

ReadFd ==
  /\ pc = "fd"
  /\ row' = [row EXCEPT !.fds = who[row.pid]]
  /\ pc' = "recheck"
  /\ UNCHANGED <<todo, before, after, rows, tally, answer, kernelVars>>

(* Mutant of Recheck: the row is published as it was read. *)
RecheckNothing ==
  /\ pc = "recheck"
  /\ rows' = rows \cup {row}
  /\ UNCHANGED tally
  /\ pc' = "status"
  /\ todo' = todo \ {row.pid}
  /\ UNCHANGED <<before, after, row, answer, kernelVars>>

(* The start time that was read must be that of the second pass. *)
Recheck ==
  /\ pc = "recheck"
  /\ \/ row.start = after[row.pid].start /\ rows' = rows \cup {row} /\ UNCHANGED tally
     \/ row.start # after[row.pid].start /\ Count("reused", 1) /\ UNCHANGED rows
  /\ pc' = "status"
  /\ todo' = todo \ {row.pid}
  /\ UNCHANGED <<before, after, row, answer, kernelVars>>

-----------------------------------------------------------------------------
(* list_processes *)

(* Rows beyond the limit, in an order of no interest here. *)
Excess == IF Cardinality(rows) > RowLimit THEN Cardinality(rows) - RowLimit ELSE 0

Answer ==
  /\ pc = "status" /\ todo = {}
  /\ \E kept \in kSubset(Cardinality(rows) - Excess, rows) :
       /\ rows' = kept
       /\ answer' = [status |-> IF tally.failed + tally.lost > 0 \/ Excess > 0
                                THEN "partial" ELSE "success",
                     scanned |-> Cardinality(kept),
                     skipped |-> tally.skipped + Excess,
                     failed |-> tally.failed + tally.lost,
                     truncated |-> Excess]
  /\ pc' = "done"
  /\ UNCHANGED <<todo, before, after, row, tally, kernelVars>>

Collector ==
  \/ \E p \in Pids : Visit(p) \/ ReadStatus(p)
  \/ Sleep \/ Rates \/ ReadStat \/ ReadExe \/ ReadFd \/ Recheck \/ Answer

-----------------------------------------------------------------------------
(* Processes *)

Starts(p) ==
  /\ who[p] = Nobody /\ born[p] < Births
  /\ born' = [born EXCEPT ![p] = @ + 1]
  /\ who' = [who EXCEPT ![p] = born[p] + 1]
  /\ ticks' = [ticks EXCEPT ![p] = 0]
  /\ UNCHANGED <<collectorVars, steady>>

Ends(p) ==
  /\ who[p] # Nobody
  /\ who' = [who EXCEPT ![p] = Nobody]
  /\ ticks' = [ticks EXCEPT ![p] = 0]
  /\ steady' = steady \ {p}
  /\ UNCHANGED <<collectorVars, born>>

(* A process works; or its counter goes back, which the code allows for. *)
Works(p) ==
  /\ who[p] # Nobody
  /\ \/ ticks[p] < MaxTicks /\ ticks' = [ticks EXCEPT ![p] = @ + 1] /\ UNCHANGED steady
     \/ ticks[p] > 0 /\ ticks' = [ticks EXCEPT ![p] = 0] /\ steady' = steady \ {p}
  /\ UNCHANGED <<collectorVars, who, born>>

(* Processes change as long as the collector looks. *)
Processes ==
  /\ pc # "done"
  /\ left > 0 /\ left' = left - 1
  /\ \E p \in Pids : Starts(p) \/ Ends(p) \/ Works(p)

-----------------------------------------------------------------------------

Init ==
  /\ pc = "before" /\ todo = Pids
  /\ before = [p \in {} |-> 0] /\ after = [p \in {} |-> 0]
  /\ row = NoRow /\ rows = {}
  /\ tally = [skipped |-> 0, failed |-> 0, reused |-> 0, reset |-> 0, lost |-> 0]
  /\ answer = NoAnswer
  /\ who \in [Pids -> {Nobody, 1}]
  /\ born = who
  /\ left = Changes
  /\ steady = {p \in Pids : who[p] # Nobody}
  /\ ticks = [p \in Pids |-> 0]

Next == Collector \/ Processes

Spec == Init /\ [][Next]_vars

-----------------------------------------------------------------------------
(* Type invariant.  A pass never keeps more counters than the limit. *)

Counters(c) ==
  /\ DOMAIN c \in SUBSET Pids
  /\ Cardinality(DOMAIN c) <= MaxProcesses
  /\ \A p \in DOMAIN c : c[p] \in [start: 1..Births, cpu: 0..MaxTicks]

Row == [pid: Pids \cup {0}, status: 0..Births, start: 0..Births, exe: 0..Births, fds: 0..Births]

TypeOK ==
  /\ pc \in {"before", "after", "status", "stat", "exe", "fd", "recheck", "done"}
  /\ todo \in SUBSET Pids
  /\ Counters(before) /\ Counters(after)
  /\ row \in Row /\ rows \in SUBSET Row
  /\ tally \in [skipped: Nat, failed: Nat, reused: Nat, reset: Nat, lost: Nat]
  /\ answer \in [status: {"none", "success", "partial"}, scanned: Nat, skipped: Nat,
                 failed: Nat, truncated: Nat]
  /\ who \in [Pids -> 0..Births]
  /\ ticks \in [Pids -> 0..MaxTicks]
  /\ born \in [Pids -> 0..Births]
  /\ left \in 0..Changes
  /\ steady \in SUBSET Pids

-----------------------------------------------------------------------------
(* Safety *)

(* What a row says of a process and its CPU rate are of one process: both   *)
(* counters, the name, owner, memory and start time, however its PID        *)
(* changed hands between the reads (docs/AI_TOOLKIT.md: "PID reuse,         *)
(* disappearance, and counter reset invalidate the rate").                  *)
RateOfOneProcess ==
  \A r \in rows :
    /\ before[r.pid].start = r.start
    /\ after[r.pid].start = r.start
    /\ r.status = r.start
    /\ before[r.pid].cpu <= after[r.pid].cpu

(* Every PID that was seen twice is a row or is counted, once: as reused,   *)
(* as gone back, as lost while its files were read, or as cut off; and an   *)
(* answer that lost or cut one off is not a success.                        *)
NothingLost ==
  pc = "done" =>
    /\ Cardinality(Both) =
         answer.scanned + answer.truncated + tally.reused + tally.reset + tally.lost
    /\ answer.status = "success" => tally.lost + tally.failed + answer.truncated = 0

(* Processes that lived through the whole sample, whose counters never went *)
(* back, and that are in no row.                                            *)
Missing == {p \in steady : ~\E r \in rows : r.pid = p /\ r.start = who[p]}

(* Of an answer that skipped and cut nothing no more of them are missing    *)
(* than it says have failed: a process that lives on may leave the answer   *)
(* when its files cannot be read, but not without being counted.            *)
SurvivorsReported ==
  pc = "done" /\ answer.skipped = 0 => Cardinality(Missing) <= answer.failed

(* CHANGELOG.md: "Rechecked process identity before publishing metadata":   *)
(* all of a published row is of the process whose identity it carries.      *)
RowOfOneProcess ==
  \A r \in rows : {r.status, r.exe, r.fds} \subseteq {r.start, Nobody}
=============================================================================
