--------------------------- MODULE ProcessProofs ---------------------------
(* Proofs about the two programs that walk over /proc.  ProcessSample makes *)
(* no rate of two processes: the processes a PID is given to follow each    *)
(* other, so if the first and the last thing that was read of a PID are of  *)
(* one of them, so is what was read between.  SessionX signals only whom it *)
(* may, and all whom it says.                                               *)
EXTENDS ProcessSample, SessionX, FiniteSetTheorems, TLAPS

InRow == {"stat", "exe", "fd", "recheck"}

(* A PID has its latest process or none; counters were read of earlier ones *)
(* or that one.                                                             *)
Kernel ==
  /\ born \in [Pids -> Nat] /\ who \in [Pids -> Nat] /\ ticks \in [Pids -> Nat]
  /\ \A p \in Pids : who[p] \in {Nobody, born[p]}

Read(c) ==
  /\ DOMAIN c \subseteq Pids
  /\ \A p \in DOMAIN c : c[p].start \in Nat /\ c[p].start <= born[p] /\ c[p].cpu \in Nat

(* What of a row has been read comes after the counters, in order. *)
InOrder ==
  /\ row \in [pid: Pids, status: Nat, start: Nat, exe: Nat, fds: Nat]
  /\ after[row.pid].start <= row.status /\ row.status <= born[row.pid]
  /\ pc \in InRow \ {"stat"} => row.status <= row.start

SampleInv ==
  /\ pc \in {"before", "after", "status", "done"} \cup InRow
  /\ Kernel /\ Read(before) /\ Read(after)
  /\ pc \in {"before", "after"} => rows = {}
  /\ pc \in {"status"} \cup InRow => todo \subseteq Rated
  /\ pc \in InRow => row.pid \in todo /\ InOrder
  /\ RateOfOneProcess

LEMMA SampleInit == Init => SampleInv
<1> SUFFICES ASSUME Init PROVE SampleInv
  OBVIOUS
<1>1. Kernel
  BY DEF Init, Kernel, Nobody
<1>2. Read(before) /\ Read(after)
  BY DEF Init, Read
<1>3. pc = "before" /\ rows = {}
  BY DEF Init
<1> QED BY <1>1, <1>2, <1>3 DEF SampleInv, InRow, RateOfOneProcess

-----------------------------------------------------------------------------

LEMMA VisitKeeps == ASSUME SampleInv, NEW p \in Pids, Visit(p) PROVE SampleInv'
<1>1. pc \in {"before", "after"} /\ pc' = pc /\ rows = {} /\ rows' = {} /\ Kernel' /\ UNCHANGED born
  BY DEF Visit, SampleInv, Kernel, kernelVars
<1> DEFINE new(c) == [q \in DOMAIN c \cup {p} |->
                        IF q = p THEN [start |-> who[p], cpu |-> ticks[p]] ELSE c[q]]
<1>2. ASSUME NEW c, Read(c) PROVE Read(new(c))
  BY <1>2 DEF SampleInv, Kernel, Read, Nobody
<1>3. /\ before' = before \/ before' = new(before)
      /\ after' = after \/ after' = new(after)
  BY DEF Visit, VisitInto
<1> HIDE DEF new
<1>4. Read(before)' /\ Read(after)'
  BY <1>1, <1>2, <1>3 DEF SampleInv, Read
<1> QED BY <1>1, <1>4 DEF SampleInv, InRow, RateOfOneProcess

LEMMA PassesKeep == SampleInv /\ (Sleep \/ Rates) => SampleInv'
<1> SUFFICES ASSUME SampleInv, Sleep \/ Rates PROVE SampleInv'
  OBVIOUS
<1>1. /\ pc' \in {"after", "status"} /\ rows = {} /\ rows' = {}
      /\ UNCHANGED <<before, after, kernelVars>>
      /\ pc' = "status" => todo' = Rated
  BY DEF Sleep, Rates, SampleInv
<1>2. Kernel' /\ Read(before)' /\ Read(after)' /\ Rated' = Rated
  BY <1>1 DEF SampleInv, Kernel, Read, kernelVars, Rated, Both, Reused, WentBack
<1> QED BY <1>1, <1>2 DEF SampleInv, InRow, RateOfOneProcess

(* The files of a row leave the counters and what was published alone. *)
LEMMA RowKeeps ==
  ASSUME SampleInv, UNCHANGED <<before, after, kernelVars>>, pc \in {"status"} \cup InRow,
         pc' \in {"status"} \cup InRow, todo' \subseteq todo, RateOfOneProcess',
         pc' \in InRow => row'.pid \in todo' /\ InOrder'
  PROVE  SampleInv'
<1>1. Kernel' /\ Read(before)' /\ Read(after)' /\ Rated' = Rated
  BY DEF SampleInv, Kernel, Read, kernelVars, Rated, Both, Reused, WentBack
<1> QED BY <1>1 DEF SampleInv, InRow

LEMMA ReadStatusKeeps == ASSUME SampleInv, NEW p \in Pids, ReadStatus(p) PROVE SampleInv'
<1>1. /\ pc = "status" /\ p \in todo /\ UNCHANGED <<before, after, rows, kernelVars>>
      /\ row' = [pid |-> p, status |-> who[p], start |-> Nobody, exe |-> Nobody, fds |-> Nobody]
  BY DEF ReadStatus, NoRow
<1>2. RateOfOneProcess'
  BY <1>1 DEF SampleInv, RateOfOneProcess
<1>3. CASE pc' = "status" /\ todo' = todo \ {p}
  BY <1>1, <1>2, <1>3, RowKeeps DEF InRow
<1>4. CASE pc' = "stat" /\ todo' = todo /\ who[p] # Nobody
  <2>1. who[p] = born[p] /\ born[p] \in Nat /\ p \in DOMAIN after /\ after[p].start <= born[p]
    BY <1>1, <1>4 DEF SampleInv, Kernel, Read, Rated, Both
  <2>2. InOrder'
    BY <1>1, <1>4, <2>1 DEF InOrder, InRow, kernelVars, Nobody
  <2> QED BY <1>1, <1>2, <1>4, <2>2, RowKeeps DEF InRow
<1> QED BY <1>1, <1>3, <1>4 DEF ReadStatus, RowFails

LEMMA ReadStatKeeps == ASSUME SampleInv, ReadStat PROVE SampleInv'
<1> DEFINE p == row.pid
<1>1. /\ pc = "stat" /\ p \in todo /\ p \in Rated /\ p \in Pids
      /\ UNCHANGED <<before, after, rows, kernelVars>>
      /\ row' = [row EXCEPT !.start = who[p]]
  BY DEF ReadStat, SampleInv, InRow, Rated, Both, Read
<1>2. RateOfOneProcess'
  BY <1>1 DEF SampleInv, RateOfOneProcess
<1>3. CASE pc' = "status" /\ todo' = todo \ {row'.pid}
  BY <1>1, <1>2, <1>3, RowKeeps DEF InRow
<1>4. CASE pc' = "exe" /\ todo' = todo /\ who[p] # Nobody
  <2>1. who[p] = born[p] /\ born[p] \in Nat /\ InOrder
    BY <1>1, <1>4 DEF SampleInv, Kernel, InRow
  <2>2. InOrder' /\ row'.pid = p
    BY <1>1, <1>4, <2>1 DEF InOrder, InRow, kernelVars
  <2> QED BY <1>1, <1>2, <1>4, <2>2, RowKeeps DEF InRow
<1> QED BY <1>1, <1>3, <1>4 DEF ReadStat, RowFails

LEMMA ReadRestKeeps == ASSUME SampleInv, ReadExe \/ ReadFd PROVE SampleInv'
<1>1. /\ pc \in InRow \ {"stat"} /\ pc' \in InRow \ {"stat"} /\ row.pid \in todo /\ InOrder
      /\ UNCHANGED <<todo, before, after, rows, kernelVars>>
      /\ \/ row' = [row EXCEPT !.exe = who[row.pid]]
         \/ row' = [row EXCEPT !.fds = who[row.pid]]
  BY DEF ReadExe, ReadFd, SampleInv, InRow
<1>2. who[row.pid] \in Nat
  BY <1>1 DEF SampleInv, Kernel, InOrder
<1>3. InOrder' /\ row'.pid = row.pid
  BY <1>1, <1>2 DEF InOrder, kernelVars
<1>4. RateOfOneProcess'
  BY <1>1 DEF SampleInv, RateOfOneProcess
<1> QED BY <1>1, <1>3, <1>4, RowKeeps DEF InRow

(* A row is published if the start time is that of the second pass: then    *)
(* what was read between was of that process, too.                          *)
LEMMA RecheckKeeps == ASSUME SampleInv, Recheck PROVE SampleInv'
<1> DEFINE p == row.pid
<1>1. /\ pc = "recheck" /\ p \in Rated /\ InOrder /\ pc' = "status" /\ todo' = todo \ {p}
      /\ UNCHANGED <<before, after, row, kernelVars>>
  BY DEF Recheck, SampleInv, InRow
<1>2. CASE UNCHANGED rows
  <2>1. RateOfOneProcess'
    BY <1>1, <1>2 DEF SampleInv, RateOfOneProcess
  <2> QED BY <1>1, <2>1, RowKeeps DEF InRow
<1>3. CASE row.start = after[p].start /\ rows' = rows \cup {row}
  <2>1. before[p].start = after[p].start /\ before[p].cpu <= after[p].cpu
    BY <1>1 DEF Rated, Both, Reused, WentBack, SampleInv, Read
  <2>2. after[p].start \in Nat /\ row.status = row.start
    BY <1>1, <1>3 DEF InOrder, InRow, Rated, Both, SampleInv, Read
  <2>3. RateOfOneProcess'
    BY <1>1, <1>3, <2>1, <2>2 DEF SampleInv, RateOfOneProcess
  <2> QED BY <1>1, <2>3, RowKeeps DEF InRow
<1> QED BY <1>2, <1>3 DEF Recheck

LEMMA AnswerKeeps == ASSUME SampleInv, Answer PROVE SampleInv'
<1>1. /\ rows' \subseteq rows /\ pc' = "done"
      /\ UNCHANGED <<before, after, kernelVars>>
  BY DEF Answer, kSubset
<1>2. Kernel' /\ Read(before)' /\ Read(after)'
  BY <1>1 DEF SampleInv, Kernel, Read, kernelVars
<1>3. RateOfOneProcess'
  BY <1>1 DEF SampleInv, RateOfOneProcess
<1> QED BY <1>1, <1>2, <1>3 DEF SampleInv, InRow

(* Whatever becomes of the processes, no PID is given to an earlier one. *)
LEMMA ProcessesKeep == ASSUME SampleInv, Processes PROVE SampleInv'
<1>1. UNCHANGED collectorVars
  BY DEF Processes, Starts, Ends, Works
<1>2. Kernel' /\ \A p \in Pids : born[p] <= born'[p]
  <2>1. PICK p \in Pids : Starts(p) \/ Ends(p) \/ Works(p)
    BY DEF Processes
  <2>2. CASE Starts(p)
    BY <2>2 DEF Starts, SampleInv, Kernel
  <2>3. CASE Ends(p)
    BY <2>3 DEF Ends, SampleInv, Kernel, Nobody
  <2>4. CASE Works(p)
    BY <2>4 DEF Works, SampleInv, Kernel
  <2> QED BY <2>1, <2>2, <2>3, <2>4
<1>3. Read(before)' /\ Read(after)'
  BY <1>1, <1>2 DEF collectorVars, SampleInv, Kernel, Read
<1>4. InOrder => InOrder'
  BY <1>1, <1>2 DEF collectorVars, InOrder, InRow, SampleInv, Kernel
<1>5. Rated' = Rated /\ (RateOfOneProcess => RateOfOneProcess')
  BY <1>1 DEF collectorVars, Rated, Both, Reused, WentBack, RateOfOneProcess
<1> QED BY <1>1, <1>2, <1>3, <1>4, <1>5 DEF collectorVars, SampleInv

-----------------------------------------------------------------------------

(* SampleInv is an invariant of the collector. *)
THEOREM SampleInvariance == Spec => []SampleInv
<1>1. SampleInv /\ [Next]_vars => SampleInv'
  <2> SUFFICES ASSUME SampleInv, [Next]_vars PROVE SampleInv'
    OBVIOUS
  <2>1. CASE Collector
    BY <2>1, VisitKeeps, PassesKeep, ReadStatusKeeps, ReadStatKeeps, ReadRestKeeps, RecheckKeeps,
       AnswerKeeps DEF Collector
  <2>2. CASE Processes
    BY <2>2, ProcessesKeep
  <2>3. CASE UNCHANGED vars
    BY <2>3 DEF vars, collectorVars, kernelVars, SampleInv, Kernel, Read, InOrder, Rated, Both,
       Reused, WentBack, RateOfOneProcess
  <2> QED BY <2>1, <2>2, <2>3 DEF Next
<1> QED BY SampleInit, <1>1, PTL DEF Spec

(* docs/AI_TOOLKIT.md: "PID reuse, disappearance, and counter reset         *)
(* invalidate the rate": for any number of processes, of births and of      *)
(* changes, name, owner, memory, start time and CPU rate of a row are of    *)
(* one process.                                                             *)
THEOREM AlwaysRateOfOneProcess == Spec => []RateOfOneProcess
<1>1. SampleInv => RateOfOneProcess
  BY DEF SampleInv
<1> QED BY SampleInvariance, <1>1, PTL

-----------------------------------------------------------------------------
(* Nothing is lost: what was seen twice is in a row, still to be read, or   *)
(* counted under one reason.                                                *)

Reading == {"status"} \cup InRow

CountInv ==
  /\ IsFiniteSet(rows) /\ IsFiniteSet(todo)
  /\ tally \in [skipped: Nat, failed: Nat, reused: Nat, reset: Nat, lost: Nat]
  /\ pc \in {"before", "after"} => tally.reused = 0 /\ tally.reset = 0 /\ tally.lost = 0
  /\ pc \in Reading =>
       /\ \A r \in rows : r.pid \notin todo
       /\ Cardinality(Both) =
            Cardinality(rows) + Cardinality(todo) + tally.reused + tally.reset + tally.lost
  /\ NothingLost

LEMMA CountInit == Init => CountInv
<1> SUFFICES ASSUME Init PROVE CountInv
  OBVIOUS
<1>1. IsFiniteSet(rows) /\ IsFiniteSet(todo)
  BY FS_EmptySet, SampleAssumption DEF Init
<1> QED BY <1>1 DEF Init, CountInv, NothingLost, Reading, InRow

LEMMA VisitCounts == ASSUME SampleInv, CountInv, NEW p \in Pids, Visit(p) PROVE CountInv'
<1>1. pc \in {"before", "after"} /\ pc' = pc /\ UNCHANGED rows /\ todo' \in SUBSET todo
  BY DEF Visit
<1>2. IsFiniteSet(todo')
  BY <1>1, FS_Subset DEF CountInv
<1>3. \/ UNCHANGED tally
      \/ tally' = [tally EXCEPT !.skipped = @ + 1]
      \/ tally' = [tally EXCEPT !.failed = @ + 1]
  BY DEF Visit, VisitInto, Count
<1>4. /\ tally' \in [skipped: Nat, failed: Nat, reused: Nat, reset: Nat, lost: Nat]
      /\ tally'.reused = tally.reused /\ tally'.reset = tally.reset /\ tally'.lost = tally.lost
  BY <1>3 DEF CountInv
<1> QED BY <1>1, <1>2, <1>4 DEF CountInv, NothingLost, Reading, InRow

LEMMA SleepCounts == ASSUME SampleInv, CountInv, Sleep PROVE CountInv'
BY SampleAssumption DEF Sleep, CountInv, NothingLost, Reading, InRow

(* The PIDs that were seen twice are of three kinds. *)
LEMMA RatesCount == ASSUME SampleInv, CountInv, Rates PROVE CountInv'
<1>1. /\ pc = "after" /\ pc' = "status" /\ todo' = Rated /\ rows = {} /\ rows' = {}
      /\ UNCHANGED <<before, after>>
      /\ tally' = [tally EXCEPT !.reused = @ + Cardinality(Reused),
                                !.reset = @ + Cardinality(WentBack)]
  BY DEF Rates, SampleInv
<1>2. IsFiniteSet(Both)
  BY FS_Subset, SampleAssumption DEF Both, SampleInv, Read
<1>3. /\ Reused \in SUBSET Both /\ WentBack \in SUBSET Both /\ Reused \cap WentBack = {}
      /\ (Reused \cup WentBack) \cap Both = Reused \cup WentBack
      /\ Rated = Both \ (Reused \cup WentBack)
  BY DEF Reused, WentBack, Rated
<1>4. IsFiniteSet(Reused) /\ IsFiniteSet(WentBack)
  BY <1>2, <1>3, FS_Subset
<1>5. /\ Cardinality(Reused) \in Nat /\ Cardinality(WentBack) \in Nat /\ Cardinality(Both) \in Nat
      /\ Cardinality({}) = 0
  BY <1>2, <1>4, FS_CardinalityType, FS_EmptySet
<1>6. Cardinality(Reused \cup WentBack) = Cardinality(Reused) + Cardinality(WentBack)
  <2>1. Cardinality(Reused \cup WentBack) =
          Cardinality(Reused) + Cardinality(WentBack) - Cardinality(Reused \cap WentBack)
    BY <1>4, FS_Union, Zenon
  <2>2. Cardinality(Reused \cap WentBack) = 0
    BY <1>3, <1>5, Zenon
  <2> QED BY <2>1, <2>2, <1>5
<1>7. IsFiniteSet(Rated) /\ Cardinality(Rated) = Cardinality(Both) - Cardinality(Reused \cup WentBack)
  <2>1. Both \cap (Reused \cup WentBack) = Reused \cup WentBack
    BY <1>3
  <2>2. /\ IsFiniteSet(Both \ (Reused \cup WentBack))
        /\ Cardinality(Both \ (Reused \cup WentBack)) =
             Cardinality(Both) - Cardinality(Both \cap (Reused \cup WentBack))
    BY <1>2, FS_Difference, Zenon
  <2> QED BY <1>3, <2>1, <2>2, Zenon
<1>8. Both' = Both
  BY <1>1 DEF Both
<1>9. /\ tally' \in [skipped: Nat, failed: Nat, reused: Nat, reset: Nat, lost: Nat]
      /\ tally'.reused = Cardinality(Reused) /\ tally'.reset = Cardinality(WentBack) /\ tally'.lost = 0
  <2>1. /\ tally.reused = 0 /\ tally.reset = 0 /\ tally.lost = 0
        /\ tally \in [skipped: Nat, failed: Nat, reused: Nat, reset: Nat, lost: Nat]
    BY <1>1 DEF CountInv
  <2>2. ASSUME NEW m \in Nat, NEW n \in Nat,
               tally' = [tally EXCEPT !.reused = @ + m, !.reset = @ + n]
        PROVE  /\ tally' \in [skipped: Nat, failed: Nat, reused: Nat, reset: Nat, lost: Nat]
               /\ tally'.reused = m /\ tally'.reset = n /\ tally'.lost = 0
    <3> DEFINE once == [tally EXCEPT !.reused = @ + m]
    <3>1. /\ once \in [skipped: Nat, failed: Nat, reused: Nat, reset: Nat, lost: Nat]
          /\ once.reused = m /\ once.reset = 0 /\ once.lost = 0
      BY <2>1
    <3>2. tally' = [once EXCEPT !.reset = @ + n]
      BY <2>1, <2>2
    <3> HIDE DEF once
    <3> QED BY <3>1, <3>2
  <2>3. Cardinality(Reused) \in Nat /\ Cardinality(WentBack) \in Nat
    BY <1>5
  <2>4. tally' = [tally EXCEPT !.reused = @ + Cardinality(Reused),
                               !.reset = @ + Cardinality(WentBack)]
    BY <1>1, Zenon
  <2> QED BY <2>2, <2>3, <2>4
<1>10. Cardinality(Both)' =
         Cardinality(rows') + Cardinality(todo') + tally'.reused + tally'.reset + tally'.lost
  BY <1>1, <1>5, <1>6, <1>7, <1>8, <1>9
<1> QED BY <1>1, <1>7, <1>9, <1>10 DEF CountInv, NothingLost, Reading, InRow

(* A row that is not finished changes nothing. *)
LEMMA UnfinishedCounts ==
  ASSUME SampleInv, CountInv, UNCHANGED <<before, after, rows, todo, tally>>,
         pc \in Reading, pc' \in Reading
  PROVE  CountInv'
BY DEF CountInv, NothingLost, Reading, InRow, Both

(* A row that is finished is published or counted once. *)
LEMMA FinishedCounts ==
  ASSUME SampleInv, CountInv, NEW p \in todo, UNCHANGED <<before, after>>,
         pc \in Reading, pc' = "status", todo' = todo \ {p},
         \/ rows' = rows /\ tally' = [tally EXCEPT !.lost = @ + 1]
         \/ rows' = rows /\ tally' = [tally EXCEPT !.reused = @ + 1]
         \/ rows' = rows \cup {row} /\ row.pid = p /\ tally' = tally
  PROVE  CountInv'
<1>1. /\ IsFiniteSet(todo') /\ Cardinality(todo') = Cardinality(todo) - 1
      /\ Cardinality(todo) \in Nat /\ Cardinality(rows) \in Nat
  BY FS_RemoveElement, FS_CardinalityType DEF CountInv
<1>2. tally' \in [skipped: Nat, failed: Nat, reused: Nat, reset: Nat, lost: Nat]
  BY DEF CountInv
<1>3. \A r \in rows' : r.pid \notin todo'
  BY DEF CountInv
<1>4. Both' = Both
  BY DEF Both
<1>5. IsFiniteSet(rows') /\ Cardinality(rows') \in Nat
      /\ Cardinality(rows') + tally'.reused + tally'.lost =
           Cardinality(rows) + tally.reused + tally.lost + 1
      /\ tally'.reset = tally.reset
  <2>1. CASE rows' = rows
    BY <2>1, <1>1 DEF CountInv
  <2>2. CASE rows' = rows \cup {row} /\ row.pid = p /\ tally' = tally
    <3>1. row \notin rows
      BY <2>2 DEF CountInv
    <3>2. IsFiniteSet(rows') /\ Cardinality(rows') = Cardinality(rows) + 1
      BY <2>2, <3>1, FS_AddElement DEF CountInv
    <3> QED BY <2>2, <3>2, <1>1 DEF CountInv
  <2> QED BY <2>1, <2>2
<1>6. Cardinality(Both)' =
        Cardinality(rows') + Cardinality(todo') + tally'.reused + tally'.reset + tally'.lost
  BY <1>1, <1>2, <1>4, <1>5 DEF CountInv
<1> QED BY <1>1, <1>2, <1>3, <1>5, <1>6 DEF CountInv, NothingLost, Reading, InRow

LEMMA RowsCount ==
  ASSUME SampleInv, CountInv,
         (\E p \in Pids : ReadStatus(p)) \/ ReadStat \/ ReadExe \/ ReadFd \/ Recheck
  PROVE  CountInv'
<1>1. CASE ReadExe \/ ReadFd
  BY <1>1, UnfinishedCounts DEF ReadExe, ReadFd, Reading, InRow
<1>2. ASSUME NEW p \in Pids, ReadStatus(p) PROVE CountInv'
  <2>1. p \in todo /\ row'.pid = p /\ pc \in Reading /\ UNCHANGED <<before, after, rows>>
    BY <1>2 DEF ReadStatus, Reading, NoRow
  <2>2. CASE RowFails
    BY <2>1, <2>2, FinishedCounts DEF RowFails, Count
  <2>3. CASE pc' = "stat" /\ UNCHANGED <<todo, tally>>
    BY <2>1, <2>3, UnfinishedCounts DEF Reading, InRow
  <2> QED BY <1>2, <2>2, <2>3 DEF ReadStatus
<1>3. CASE ReadStat
  <2>1. row.pid \in todo /\ row'.pid = row.pid /\ pc \in Reading /\ UNCHANGED <<before, after, rows>>
    BY <1>3 DEF ReadStat, Reading, InRow, SampleInv, InOrder
  <2>2. CASE RowFails
    BY <2>1, <2>2, FinishedCounts DEF RowFails, Count
  <2>3. CASE pc' = "exe" /\ UNCHANGED <<todo, tally>>
    BY <2>1, <2>3, UnfinishedCounts DEF Reading, InRow
  <2> QED BY <1>3, <2>2, <2>3 DEF ReadStat
<1>4. CASE Recheck
  BY <1>4, FinishedCounts DEF Recheck, Count, Reading, InRow, SampleInv
<1> QED BY <1>1, <1>2, <1>3, <1>4

(* What is cut off is counted as truncated. *)
LEMMA AnswerCounts == ASSUME SampleInv, CountInv, Answer PROVE CountInv'
<1>1. PICK kept \in kSubset(Cardinality(rows) - Excess, rows) :
        /\ rows' = kept
        /\ answer' = [status |-> IF tally.failed + tally.lost > 0 \/ Excess > 0
                                 THEN "partial" ELSE "success",
                      scanned |-> Cardinality(kept),
                      skipped |-> tally.skipped + Excess,
                      failed |-> tally.failed + tally.lost,
                      truncated |-> Excess]
  BY DEF Answer
<1>2. /\ pc = "status" /\ todo = {} /\ pc' = "done" /\ UNCHANGED <<todo, before, after, tally>>
  BY DEF Answer
<1>3. kept \in SUBSET rows /\ Cardinality(kept) = Cardinality(rows) - Excess
  BY <1>1 DEF kSubset
<1>4. IsFiniteSet(rows') /\ Cardinality(rows) \in Nat /\ Cardinality({}) = 0
  BY <1>1, <1>3, FS_Subset, FS_CardinalityType, FS_EmptySet DEF CountInv
<1>5. Excess \in Nat
  BY <1>4, SampleAssumption DEF Excess
<1>6. Cardinality(Both) = Cardinality(rows) + tally.reused + tally.reset + tally.lost
  BY <1>2, <1>4 DEF CountInv, Reading
<1>7. Both' = Both
  BY <1>2 DEF Both
<1>8. NothingLost'
  <2>1. Cardinality(Both)' =
          answer'.scanned + answer'.truncated + tally'.reused + tally'.reset + tally'.lost
    BY <1>1, <1>2, <1>3, <1>4, <1>5, <1>6, <1>7 DEF CountInv
  <2>2. answer'.status = "success" => tally'.lost + tally'.failed + answer'.truncated = 0
    BY <1>1, <1>2, <1>5 DEF CountInv
  <2> QED BY <2>1, <2>2 DEF NothingLost
<1> QED BY <1>2, <1>4, <1>8 DEF CountInv, Reading, InRow

LEMMA CountNext == SampleInv /\ CountInv /\ [Next]_vars => CountInv'
<1> SUFFICES ASSUME SampleInv, CountInv, [Next]_vars PROVE CountInv'
  OBVIOUS
<1>1. CASE Collector
  BY <1>1, VisitCounts, SleepCounts, RatesCount, RowsCount, AnswerCounts DEF Collector
<1>2. CASE UNCHANGED collectorVars
  BY <1>2 DEF collectorVars, CountInv, NothingLost, Both
<1> QED BY <1>1, <1>2 DEF Next, Processes, Starts, Ends, Works, vars

(* CountInv is an invariant of the collector. *)
THEOREM CountInvariance == Spec => []CountInv
<1>1. SampleInv /\ CountInv /\ [Next]_vars => CountInv'
  BY CountNext
<1> QED BY CountInit, SampleInvariance, <1>1, PTL DEF Spec

(* For any number of processes and any limits: the numbers of an answer add *)
(* up to the processes that were seen twice, and an answer that lost one,   *)
(* or cut one off, does not call itself a success.                          *)
THEOREM NothingEverLost == Spec => []NothingLost
<1>1. CountInv => NothingLost
  BY DEF CountInv
<1> QED BY CountInvariance, <1>1, PTL

-----------------------------------------------------------------------------
(* Survivors: what was read of a PID whose process lives on is of that      *)
(* process, and such a PID leaves todo only for a place further on, unless  *)
(* something was skipped or a read failed and was counted.                  *)

OfSurvivor(c) ==
  \A p \in steady \cap DOMAIN c : c[p].start = who[p] /\ c[p].cpu <= ticks[p]

Published(p) == \E r \in rows : r.pid = p /\ r.start = who[p]

(* No way leads from here to a row. *)
Gone(p) ==
  \/ pc = "before" /\ p \notin todo \cup DOMAIN before
  \/ pc = "after" /\ (p \notin DOMAIN before \/ p \notin todo \cup DOMAIN after)
  \/ pc \in Reading /\ p \notin todo /\ ~Published(p)

LeftOut == {p \in steady : Gone(p)}

Ahead == Cardinality(LeftOut) <= tally.failed + tally.lost

SurvivorInv ==
  /\ steady \subseteq Pids /\ \A p \in steady : who[p] # Nobody
  /\ OfSurvivor(before) /\ OfSurvivor(after)
  /\ pc = "before" => DOMAIN after = {}
  /\ pc # "before" => \A p \in steady \cap Both : before[p].cpu <= after[p].cpu
  /\ pc \in InRow \ {"stat"} /\ row.pid \in steady => row.start = who[row.pid]
  /\ tally.skipped = 0 => Ahead
  /\ SurvivorsReported

LEMMA SomeMore ==
  ASSUME NEW S \in SUBSET Pids, NEW T \in SUBSET Pids
  PROVE  /\ Cardinality(S) \in Nat /\ Cardinality(T) \in Nat
         /\ T \subseteq S => Cardinality(T) <= Cardinality(S)
         /\ \A p \in Pids : T \subseteq S \cup {p} => Cardinality(T) <= Cardinality(S) + 1
<1>1. IsFiniteSet(S) /\ IsFiniteSet(T)
  BY FS_Subset, SampleAssumption
<1>2. Cardinality(S) \in Nat /\ Cardinality(T) \in Nat
  BY <1>1, FS_CardinalityType
<1>3. ASSUME NEW p \in Pids, T \subseteq S \cup {p} PROVE Cardinality(T) <= Cardinality(S) + 1
  <2>1. /\ IsFiniteSet(S \cup {p})
        /\ Cardinality(S \cup {p}) = IF p \in S THEN Cardinality(S) ELSE Cardinality(S) + 1
    BY <1>1, FS_AddElement
  <2>2. Cardinality(T) <= Cardinality(S \cup {p})
    BY <1>3, <2>1, FS_Subset
  <2> QED BY <1>2, <2>1, <2>2
<1>4. T \subseteq S => Cardinality(T) <= Cardinality(S)
  BY <1>1, FS_Subset
<1> QED BY <1>2, <1>3, <1>4

(* One more is left out for one more that is counted. *)
LEMMA StaysAhead ==
  ASSUME CountInv, CountInv', steady \subseteq Pids, steady' \subseteq steady, Ahead,
         \/ /\ LeftOut' \subseteq LeftOut
            /\ tally.failed + tally.lost <= tally'.failed + tally'.lost
         \/ /\ \E p \in Pids : LeftOut' \subseteq LeftOut \cup {p}
            /\ tally.failed + tally.lost + 1 <= tally'.failed + tally'.lost
  PROVE  Ahead'
<1>1. LeftOut \in SUBSET Pids /\ LeftOut' \in SUBSET Pids
  BY DEF LeftOut
<1>2. /\ Cardinality(LeftOut) \in Nat /\ Cardinality(LeftOut') \in Nat
      /\ LeftOut' \subseteq LeftOut => Cardinality(LeftOut') <= Cardinality(LeftOut)
      /\ \A p \in Pids : LeftOut' \subseteq LeftOut \cup {p} =>
           Cardinality(LeftOut') <= Cardinality(LeftOut) + 1
  BY <1>1, SomeMore
<1>3. /\ tally.failed \in Nat /\ tally.lost \in Nat
      /\ tally'.failed \in Nat /\ tally'.lost \in Nat
  BY DEF CountInv
<1> QED BY <1>2, <1>3 DEF Ahead

LEMMA SurvivorInit == Init => SurvivorInv
<1> SUFFICES ASSUME Init PROVE SurvivorInv
  OBVIOUS
<1>1. /\ pc = "before" /\ todo = Pids /\ DOMAIN before = {} /\ DOMAIN after = {}
      /\ steady \subseteq Pids /\ \A p \in steady : who[p] # Nobody
      /\ tally.failed = 0 /\ tally.lost = 0
  BY DEF Init
<1>2. LeftOut = {}
  BY <1>1 DEF LeftOut, Gone, Reading, InRow
<1>3. Ahead
  BY <1>1, <1>2, FS_EmptySet DEF Ahead
<1> QED BY <1>1, <1>3 DEF SurvivorInv, OfSurvivor, InRow, SurvivorsReported

(* A pass that skips nothing keeps every survivor it visits, or counts it   *)
(* as failed.                                                               *)
LEMMA VisitSpares ==
  ASSUME SampleInv, CountInv, CountInv', SurvivorInv, NEW p \in Pids, Visit(p)
  PROVE  SurvivorInv'
<1>1. /\ pc \in {"before", "after"} /\ pc' = pc /\ todo' = todo \ {p}
      /\ UNCHANGED <<row, rows, answer, who, ticks, steady>>
  BY DEF Visit, kernelVars
<1>2. steady \subseteq Pids /\ (tally.skipped = 0 => Ahead) /\ SurvivorsReported'
  BY <1>1 DEF SurvivorInv, SurvivorsReported
<1> DEFINE new(c) == [q \in DOMAIN c \cup {p} |->
                        IF q = p THEN [start |-> who[p], cpu |-> ticks[p]] ELSE c[q]]
<1>3. CASE UNCHANGED <<before, after>> /\ (p \notin steady \/ tally'.skipped # 0)
  <2>1. /\ tally'.skipped = 0 => tally.skipped = 0
        /\ tally.failed + tally.lost <= tally'.failed + tally'.lost
    BY DEF Visit, VisitInto, Count, CountInv
  <2>2. p \notin steady => LeftOut' \subseteq LeftOut
    BY <1>1, <1>3 DEF LeftOut, Gone, Reading, InRow
  <2>3. tally'.skipped = 0 => Ahead'
    BY <1>1, <1>2, <1>3, <2>1, <2>2, StaysAhead
  <2> QED BY <1>1, <1>2, <1>3, <2>3 DEF SurvivorInv, OfSurvivor, Both, InRow
<1>4. CASE UNCHANGED <<before, after>> /\ tally' = [tally EXCEPT !.failed = @ + 1]
  <2>1. /\ tally'.skipped = 0 => tally.skipped = 0
        /\ tally.failed + tally.lost + 1 <= tally'.failed + tally'.lost
    BY <1>4 DEF CountInv
  <2>2. LeftOut' \subseteq LeftOut \cup {p}
    BY <1>1, <1>4 DEF LeftOut, Gone, Reading, InRow
  <2>3. tally'.skipped = 0 => Ahead'
    BY <1>1, <1>2, <2>1, <2>2, StaysAhead
  <2> QED BY <1>1, <1>2, <1>4, <2>3 DEF SurvivorInv, OfSurvivor, Both, InRow
<1>5. CASE pc = "before" /\ before' = new(before) /\ UNCHANGED <<after, tally>>
  <2>1. DOMAIN before' = DOMAIN before \cup {p}
    BY <1>5
  <2>2. OfSurvivor(before)'
    <3>1. ticks[p] \in Nat
      BY DEF SampleInv, Kernel
    <3> QED BY <1>1, <1>5, <3>1 DEF SurvivorInv, OfSurvivor
  <2> HIDE DEF new
  <2>3. LeftOut' \subseteq LeftOut
    BY <1>1, <1>5, <2>1 DEF LeftOut, Gone, Reading, InRow
  <2>4. tally'.skipped = 0 => Ahead'
    BY <1>1, <1>2, <1>5, <2>3, StaysAhead DEF CountInv
  <2>5. OfSurvivor(after)'
    BY <1>1, <1>5 DEF SurvivorInv, OfSurvivor
  <2> QED BY <1>1, <1>2, <1>5, <2>2, <2>4, <2>5 DEF SurvivorInv, Both, InRow
<1>6. CASE pc = "after" /\ after' = new(after) /\ UNCHANGED <<before, tally>>
  <2>1. DOMAIN after' = DOMAIN after \cup {p} /\ ticks[p] \in Nat
    BY <1>6 DEF SampleInv, Kernel
  <2>2. OfSurvivor(after)'
    BY <1>1, <1>6, <2>1 DEF SurvivorInv, OfSurvivor
  <2>3. \A q \in steady \cap Both' : before[q].cpu <= after'[q].cpu
    BY <1>1, <1>6, <2>1 DEF SurvivorInv, OfSurvivor, Both
  <2> HIDE DEF new
  <2>4. LeftOut' \subseteq LeftOut
    BY <1>1, <1>6, <2>1 DEF LeftOut, Gone, Reading, InRow
  <2>5. tally'.skipped = 0 => Ahead'
    BY <1>1, <1>2, <1>6, <2>4, StaysAhead DEF CountInv
  <2>6. OfSurvivor(before)'
    BY <1>1, <1>6 DEF SurvivorInv, OfSurvivor
  <2> QED BY <1>1, <1>2, <1>6, <2>2, <2>3, <2>5, <2>6 DEF SurvivorInv, InRow
<1>7. \/ UNCHANGED <<before, after>> /\ (p \notin steady \/ tally'.skipped # 0)
      \/ UNCHANGED <<before, after>> /\ tally' = [tally EXCEPT !.failed = @ + 1]
      \/ pc = "before" /\ before' = new(before) /\ UNCHANGED <<after, tally>>
      \/ pc = "after" /\ after' = new(after) /\ UNCHANGED <<before, tally>>
  <2>1. tally' = [tally EXCEPT !.skipped = @ + 1] => tally'.skipped # 0
    BY DEF CountInv
  <2> QED BY <1>1, <2>1 DEF Visit, VisitInto, Count
<1> QED BY <1>3, <1>4, <1>5, <1>6, <1>7

LEMMA PassesSpare ==
  ASSUME SampleInv, CountInv, CountInv', SurvivorInv, Sleep \/ Rates
  PROVE  SurvivorInv'
<1>1. /\ pc \in {"before", "after"} /\ todo = {}
      /\ UNCHANGED <<before, after, row, rows, answer, who, ticks, steady>>
  BY DEF Sleep, Rates, kernelVars
<1>2. steady \subseteq Pids /\ (tally.skipped = 0 => Ahead)
  BY DEF SurvivorInv
<1>3. CASE Sleep
  <2>1. pc = "before" /\ pc' = "after" /\ todo' = Pids /\ tally' = tally /\ DOMAIN after = {}
    BY <1>3 DEF Sleep, SurvivorInv
  <2>2. LeftOut' \subseteq LeftOut
    BY <1>1, <1>2, <2>1 DEF LeftOut, Gone, Reading, InRow
  <2>3. tally'.skipped = 0 => Ahead'
    BY <1>1, <1>2, <2>1, <2>2, StaysAhead DEF CountInv
  <2> QED BY <1>1, <2>1, <2>3 DEF SurvivorInv, OfSurvivor, InRow, SurvivorsReported, Both
<1>4. CASE Rates
  <2>1. /\ pc = "after" /\ pc' = "status" /\ todo' = Rated /\ tally'.skipped = tally.skipped
        /\ tally'.failed = tally.failed /\ tally'.lost = tally.lost
    BY <1>4 DEF Rates, CountInv
  <2>2. \A p \in steady \cap Both : p \in Rated
    <3> SUFFICES ASSUME NEW p \in steady, p \in Both PROVE p \in Rated
      OBVIOUS
    <3>1. before[p].start = after[p].start /\ before[p].cpu <= after[p].cpu
      BY <2>1 DEF SurvivorInv, OfSurvivor, Both
    <3>2. before[p].cpu \in Nat /\ after[p].cpu \in Nat
      BY DEF SampleInv, Read, Both
    <3> QED BY <3>1, <3>2 DEF Rated, Reused, WentBack
  <2>3. LeftOut' \subseteq LeftOut
    BY <1>1, <2>1, <2>2 DEF LeftOut, Gone, Reading, InRow, Both
  <2>4. tally'.skipped = 0 => Ahead'
    BY <1>1, <1>2, <2>1, <2>3, StaysAhead DEF CountInv
  <2>5. SurvivorsReported' /\ OfSurvivor(before)' /\ OfSurvivor(after)' /\ Both' = Both
    BY <1>1, <2>1 DEF SurvivorInv, OfSurvivor, SurvivorsReported, Both
  <2> QED BY <1>1, <2>1, <2>4, <2>5 DEF SurvivorInv, InRow
<1> QED BY <1>3, <1>4

(* While rows are read, todo loses a survivor only to the rows, or to the   *)
(* count of those whose files could not be read.                            *)
LEMMA RowSpares ==
  ASSUME SampleInv, CountInv, CountInv', SurvivorInv, pc \in Reading, pc' \in Reading,
         UNCHANGED <<before, after, answer, who, ticks, steady>>,
         tally'.skipped = tally.skipped,
         rows \subseteq rows',
         \/ /\ \A p \in todo \cap steady : p \in todo' \/ Published(p)'
            /\ tally'.failed = tally.failed /\ tally'.lost = tally.lost
         \/ /\ todo' = todo \ {row'.pid} /\ row'.pid \in Pids
            /\ tally'.failed = tally.failed /\ tally'.lost = tally.lost + 1,
         pc' \in InRow \ {"stat"} /\ row'.pid \in steady => row'.start = who[row'.pid]
  PROVE  SurvivorInv'
<1>1. \A p \in steady : Published(p) => Published(p)'
  BY DEF Published
<1>2. /\ \A p : Gone(p) <=> p \notin todo /\ ~Published(p)
      /\ \A p : Gone(p)' <=> p \notin todo' /\ ~Published(p)'
  BY DEF Gone, Reading, InRow
<1>3. \/ /\ LeftOut' \subseteq LeftOut
         /\ tally.failed + tally.lost <= tally'.failed + tally'.lost
      \/ /\ \E p \in Pids : LeftOut' \subseteq LeftOut \cup {p}
         /\ tally.failed + tally.lost + 1 <= tally'.failed + tally'.lost
  <2>1. CASE /\ \A p \in todo \cap steady : p \in todo' \/ Published(p)'
             /\ tally'.failed = tally.failed /\ tally'.lost = tally.lost
    BY <1>1, <1>2, <2>1 DEF LeftOut, CountInv
  <2>2. CASE /\ todo' = todo \ {row'.pid} /\ row'.pid \in Pids
             /\ tally'.failed = tally.failed /\ tally'.lost = tally.lost + 1
    <3>1. LeftOut' \subseteq LeftOut \cup {row'.pid}
      BY <1>1, <1>2, <2>2 DEF LeftOut
    <3> QED BY <2>2, <3>1 DEF CountInv
  <2> QED BY <2>1, <2>2
<1>4. tally'.skipped = 0 => Ahead'
  BY <1>3, StaysAhead DEF SurvivorInv
<1>5. SurvivorsReported' /\ OfSurvivor(before)' /\ OfSurvivor(after)' /\ Both' = Both
  BY DEF SurvivorInv, OfSurvivor, SurvivorsReported, Both, Reading, InRow
<1> QED BY <1>4, <1>5 DEF SurvivorInv, Reading, InRow

LEMMA RowsSpare ==
  ASSUME SampleInv, CountInv, CountInv', SurvivorInv,
         (\E p \in Pids : ReadStatus(p)) \/ ReadStat \/ ReadExe \/ ReadFd \/ Recheck
  PROVE  SurvivorInv'
<1>1. /\ pc \in Reading /\ pc' \in Reading
      /\ UNCHANGED <<before, after, answer, who, ticks, steady>>
      /\ tally'.skipped = tally.skipped /\ rows \subseteq rows'
  BY DEF ReadStatus, ReadStat, ReadExe, ReadFd, Recheck, RowFails, Count, CountInv, kernelVars,
     Reading, InRow
<1>2. RowFails => /\ todo' = todo \ {row'.pid} /\ pc' = "status"
                  /\ tally'.failed = tally.failed /\ tally'.lost = tally.lost + 1
  BY DEF RowFails, Count, CountInv
<1>3. ASSUME NEW p \in Pids, ReadStatus(p) PROVE SurvivorInv'
  <2>1. row'.pid = p
    BY <1>3 DEF ReadStatus, NoRow
  <2>2. CASE RowFails
    BY <1>1, <1>2, <2>1, <2>2, RowSpares DEF InRow
  <2>3. CASE pc' = "stat" /\ UNCHANGED <<todo, tally>>
    BY <1>1, <2>3, RowSpares DEF InRow
  <2> QED BY <1>3, <2>2, <2>3 DEF ReadStatus
<1>4. CASE ReadStat
  <2>1. row \in [pid: Pids, status: Nat, start: Nat, exe: Nat, fds: Nat]
    BY <1>4 DEF ReadStat, SampleInv, InRow, InOrder
  <2>2. row'.pid = row.pid /\ row'.start = who[row.pid] /\ row'.pid \in Pids
    BY <1>4, <2>1 DEF ReadStat
  <2>3. CASE RowFails
    BY <1>1, <1>2, <2>2, <2>3, RowSpares DEF InRow
  <2>4. CASE UNCHANGED <<todo, tally>>
    BY <1>1, <2>2, <2>4, RowSpares DEF InRow
  <2> QED BY <1>4, <2>3, <2>4 DEF ReadStat
<1>5. CASE ReadExe \/ ReadFd
  <2>1. row \in [pid: Pids, status: Nat, start: Nat, exe: Nat, fds: Nat] /\ pc \in InRow \ {"stat"}
    BY <1>5 DEF ReadExe, ReadFd, SampleInv, InRow, InOrder
  <2>2. row'.pid = row.pid /\ row'.start = row.start /\ todo' = todo /\ tally' = tally
    BY <1>5, <2>1 DEF ReadExe, ReadFd
  <2> QED BY <1>1, <2>1, <2>2, RowSpares DEF SurvivorInv
<1>6. CASE Recheck
  <2>1. /\ pc = "recheck" /\ pc' = "status" /\ todo' = todo \ {row.pid} /\ row.pid \in Rated
        /\ tally'.failed = tally.failed /\ tally'.lost = tally.lost
    BY <1>6 DEF Recheck, SampleInv, InRow, Count, CountInv
  <2>2. row.pid \in steady => row.start = who[row.pid] /\ after[row.pid].start = who[row.pid]
    BY <2>1 DEF SurvivorInv, InRow, OfSurvivor, Rated, Both
  <2>3. row.pid \in steady => \E r \in rows' : r.pid = row.pid /\ r.start = who'[row.pid]
    BY <1>1, <1>6, <2>2 DEF Recheck
  <2>4. \A p \in todo \cap steady : p \in todo' \/ Published(p)'
    BY <2>1, <2>3 DEF Published
  <2> QED BY <1>1, <2>1, <2>4, RowSpares DEF InRow
<1> QED BY <1>3, <1>4, <1>5, <1>6

(* An answer that skipped nothing has all the rows. *)
LEMMA AnswerSpares ==
  ASSUME SampleInv, CountInv, SurvivorInv, Answer
  PROVE  SurvivorInv'
<1>1. PICK kept \in kSubset(Cardinality(rows) - Excess, rows) :
        /\ rows' = kept /\ answer'.skipped = tally.skipped + Excess
        /\ answer'.failed = tally.failed + tally.lost
  BY DEF Answer
<1>2. /\ pc = "status" /\ todo = {} /\ pc' = "done"
      /\ UNCHANGED <<before, after, row, tally, who, ticks, steady>>
  BY DEF Answer, kernelVars
<1>3. Cardinality(rows) \in Nat /\ tally.skipped \in Nat
  BY FS_CardinalityType DEF CountInv
<1>4. Excess \in Nat
  BY <1>3, SampleAssumption DEF Excess
<1>5. answer'.skipped = 0 => tally.skipped = 0 /\ rows' = rows
  <2> SUFFICES ASSUME answer'.skipped = 0 PROVE tally.skipped = 0 /\ rows' = rows
    OBVIOUS
  <2>1. tally.skipped = 0 /\ Excess = 0
    BY <1>1, <1>3, <1>4
  <2>2. kept \in SUBSET rows /\ Cardinality(rows) = Cardinality(kept)
    BY <1>1, <1>3, <2>1 DEF kSubset
  <2>3. rows = kept
    BY <2>2, FS_Subset DEF CountInv
  <2> QED BY <1>1, <2>1, <2>3
<1>6. rows' = rows => Missing' = LeftOut
  BY <1>2 DEF Missing, LeftOut, Gone, Published, Reading
<1>7. SurvivorsReported'
  BY <1>1, <1>2, <1>5, <1>6 DEF SurvivorInv, Ahead, SurvivorsReported
<1>8. LeftOut' = {}
  BY <1>2 DEF LeftOut, Gone, Reading, InRow
<1>9. Ahead'
  BY <1>2, <1>8, FS_EmptySet DEF Ahead, CountInv
<1> QED BY <1>2, <1>7, <1>9 DEF SurvivorInv, OfSurvivor, InRow, Both

(* The process of a survivor neither ends nor loses ticks. *)
LEMMA ProcessesSpare ==
  ASSUME SampleInv, CountInv, CountInv', SurvivorInv, Processes
  PROVE  SurvivorInv'
<1>1. UNCHANGED collectorVars /\ pc # "done"
  BY DEF Processes, Starts, Ends, Works
<1>2. /\ steady' \subseteq steady
      /\ \A p \in steady' : who'[p] = who[p] /\ ticks[p] <= ticks'[p] /\ ticks'[p] \in Nat
  <2>1. PICK p \in Pids : Starts(p) \/ Ends(p) \/ Works(p)
    BY DEF Processes
  <2>2. CASE Starts(p)
    BY <2>2 DEF Starts, SurvivorInv, SampleInv, Kernel
  <2>3. CASE Ends(p)
    BY <2>3 DEF Ends, SurvivorInv, SampleInv, Kernel
  <2>4. CASE Works(p)
    BY <2>4 DEF Works, SurvivorInv, SampleInv, Kernel
  <2> QED BY <2>1, <2>2, <2>3, <2>4
<1>3. OfSurvivor(before)' /\ OfSurvivor(after)'
  <2>1. ASSUME NEW c, Read(c), OfSurvivor(c),
               NEW p \in steady', p \in DOMAIN c
        PROVE  c[p].start = who'[p] /\ c[p].cpu <= ticks'[p]
    <3>1. c[p].cpu \in Nat /\ c[p].cpu <= ticks[p] /\ ticks[p] \in Nat /\ c[p].start = who[p]
      BY <1>2, <2>1 DEF Read, OfSurvivor, SampleInv, Kernel
    <3> QED BY <1>2, <3>1
  <2> QED BY <1>1, <2>1 DEF collectorVars, OfSurvivor, SurvivorInv, SampleInv
<1>4. Ahead => Ahead'
  <2>1. LeftOut' \subseteq LeftOut
    BY <1>1, <1>2 DEF collectorVars, LeftOut, Gone, Published
  <2> QED BY <1>1, <1>2, <2>1, StaysAhead DEF collectorVars, SurvivorInv, CountInv
<1> QED BY <1>1, <1>2, <1>3, <1>4 DEF collectorVars, SurvivorInv, SurvivorsReported, Both

LEMMA SurvivorNext == SampleInv /\ CountInv /\ SurvivorInv /\ [Next]_vars => SurvivorInv'
<1> SUFFICES ASSUME SampleInv, CountInv, SurvivorInv, [Next]_vars PROVE SurvivorInv'
  OBVIOUS
<1> USE CountNext
<1>1. CASE Collector
  BY <1>1, VisitSpares, PassesSpare, RowsSpare, AnswerSpares DEF Collector
<1>2. CASE Processes
  BY <1>2, ProcessesSpare
<1>3. CASE UNCHANGED vars
  BY <1>3 DEF vars, collectorVars, kernelVars, SurvivorInv, OfSurvivor, Ahead, LeftOut, Gone,
     Published, SurvivorsReported, Missing, Both
<1> QED BY <1>1, <1>2, <1>3 DEF Next

(* For any number of processes and any limits: of the processes that lived  *)
(* through the sample no more are missing from an answer that skipped       *)
(* nothing than it counts as failed.                                        *)
THEOREM SurvivorsAlwaysReported == Spec => []SurvivorsReported
<1>1. SampleInv /\ CountInv /\ SurvivorInv /\ [Next]_vars => SurvivorInv'
  BY SurvivorNext
<1>2. SurvivorInv => SurvivorsReported
  BY DEF SurvivorInv
<1> QED BY SurvivorInit, SampleInvariance, CountInvariance, <1>1, <1>2, PTL DEF Spec

-----------------------------------------------------------------------------
(* The session tool, for any process table, users and limits *)

(* Nobody asks to terminate root beyond the first step; a process that is   *)
(* about to be signalled is not spared; and the last look at it holds until *)
(* it changes.                                                              *)
Signalling ==
  /\ mode = "list" => edition = "c"
  /\ phase \in {"walk", "next", "recheck", "kill"} => mode = "list" \/ wanted # Root
  /\ phase \in {"next", "recheck", "kill"} => mode = "confirmed"
  /\ phase \in {"recheck", "kill"} => current \in AllPids \ {1, Self}
  /\ phase = "kill" /\ ~raced => owner[current] = wanted

(* How far the walk has come: what was listed is looked at, or was passed   *)
(* over when the look failed, or is still to be looked at.                  *)
Walked ==
  /\ \A p \in stayed : owner[p] = wanted
  /\ \A p \in stayed : p <= at => p \in names \cup found \cup missed
  /\ phase = "done" /\ status = 0 /\ ~Limited /\ ~cut => at = MaxPid /\ names = {}

(* In C each process found is signalled, is about to be, or failed.         *)
CSignals ==
  edition = "c" =>
    /\ phase # "next"
    /\ mode = "confirmed" =>
         \A p \in (stayed \cap found) \ Protected :
           \/ p \in Signalled
           \/ failures > 0
           \/ phase \in {"recheck", "kill"} /\ p = current
    /\ mode # "confirmed" \/ (phase = "done" /\ status = 0) => failures = 0

(* The targets Python is through with. *)
Passed == {p \in Targets : p < current \/ (p = current /\ phase \in {"next", "done"})}

(* Python signals those of its targets that stay what they were. *)
PySignals ==
  edition = "py" =>
    /\ phase \in {"start", "walk"} => sent = {} /\ current = 0
    /\ phase \in {"next", "recheck", "kill"} => at = MaxPid /\ names = {}
    /\ phase \in {"recheck", "kill"} => current \in Targets
    /\ Signalled \subseteq Targets
    /\ phase \in {"next", "recheck", "kill"} \/ (phase = "done" /\ status = 0) =>
         Passed \cap stayed \subseteq Signalled
    /\ phase = "done" /\ status = 0 =>
         /\ claimed = Cardinality(Targets)
         /\ mode = "confirmed" => \A p \in Targets : p <= current

(* As long as nothing has changed, all that was found is as it was. *)
Untouched == pending = MaxChanges => stayed = {p \in AllPids : owner[p] = wanted} /\ found \subseteq stayed

Covered == Walked /\ CSignals /\ PySignals /\ Untouched

SessionInv == SessionTypeOK /\ SignalsOnlyOwned /\ Signalling

-----------------------------------------------------------------------------

LEMMA PidsFinite == \A S \in SUBSET AllPids : IsFiniteSet(S) /\ Cardinality(S) \in Nat
<1> TAKE S \in SUBSET AllPids
<1>1. IsFiniteSet(AllPids)
  BY FS_Interval, SessionAssumption DEF AllPids
<1> QED
  BY <1>1, FS_Subset, FS_CardinalityType

(* Nothing has been sent at the start. *)
LEMMA SessionInitInv == SessionInit => SessionInv
<1> SUFFICES ASSUME SessionInit PROVE SessionInv
  OBVIOUS
<1> USE SessionAssumption DEF SessionInit
<1>1. /\ pending \in 0..MaxChanges /\ at \in 0..MaxPid /\ seen \in 0..MaxSeen /\ current \in 0..MaxPid
      /\ failures \in Nat /\ claimed \in Nat /\ status \in 0..2
  OBVIOUS
<1>2. /\ names \subseteq AllPids /\ found \subseteq AllPids /\ stayed \subseteq AllPids
      /\ sent \subseteq [pid : AllPids, owner : Users, raced : BOOLEAN]
  OBVIOUS
<1>3. SessionTypeOK
  BY <1>1, <1>2 DEF SessionTypeOK
<1>4. SignalsOnlyOwned /\ Signalling
  BY DEF SignalsOnlyOwned, Signalling
<1> QED
  BY <1>3, <1>4 DEF SessionInv

(* Each step keeps the invariant: what is sent goes to the process that was *)
(* seen to be the user's, unless Change came in between.                    *)
LEMMA SessionNextInv == SessionInv /\ [SessionNext]_sessionVars => SessionInv'
<1> SUFFICES ASSUME SessionInv, [SessionNext]_sessionVars PROVE SessionInv'
  OBVIOUS
<1> USE SessionAssumption DEF SessionInv, SessionTypeOK, SignalsOnlyOwned, Signalling
<1> USE DEF argVars, worldVars, walkVars
<1>1. CASE Start
  BY <1>1 DEF Start, Done
<1>2. CASE Fill
  <2>1. PICK n \in at + 1..MaxPid :
          at' = n /\ names' = names \cup {p \in at + 1..n : owner[p] # None}
    BY <1>2 DEF Fill
  <2>2. n \in 0..MaxPid /\ at + 1..n \subseteq AllPids
    BY DEF AllPids
  <2>3. at' \in 0..MaxPid /\ names' \subseteq AllPids
    BY <2>1, <2>2
  <2>4. SessionTypeOK'
    BY <1>2, <2>3 DEF Fill
  <2> QED
    BY <1>2, <2>4 DEF Fill
<1>3. CASE Look
  <2>1. /\ seen' \in 0..MaxSeen
        /\ UNCHANGED <<argVars, worldVars, at, failures, claimed, sent, status>> /\ raced' = FALSE
    BY <1>3 DEF Look, MayLook
  <2>2. PICK p \in names :
          /\ names' = names \ {p}
          /\ found' = IF owner[p] = wanted THEN found \cup {p} ELSE found
          /\ IF edition = "c" /\ mode = "confirmed" /\ owner[p] = wanted /\ p \notin Protected
               THEN phase' = "recheck" /\ current' = p
               ELSE UNCHANGED <<phase, current>>
    BY <1>3 DEF Look
  <2>3. p \in AllPids /\ p \in 0..MaxPid
    BY DEF AllPids
  <2>4. phase = "walk"
    BY <1>3 DEF Look
  <2>5. SessionTypeOK'
    BY <2>1, <2>2, <2>3, <2>4
  <2>6. Signalling'
    BY <2>1, <2>2, <2>3, <2>4 DEF Protected
  <2> QED
    BY <2>1, <2>5, <2>6
<1>4. CASE WalkEnd
  BY <1>4 DEF WalkEnd, Done
<1>5. CASE Report
  <2>1. Cardinality(Targets) \in Nat
    BY PidsFinite DEF Targets, Kept
  <2> QED
    BY <1>5, <2>1 DEF Report, Done
<1>6. CASE NextTarget
  <2>1. Cardinality(Targets) \in Nat /\ Targets \subseteq AllPids \ {1, Self}
    BY PidsFinite DEF Targets, Kept, Protected
  <2> QED
    BY <1>6, <2>1 DEF NextTarget, Least, Done, AllPids
<1>7. CASE LookAgain
  <2>1. SessionTypeOK'
    <3>1. failures' \in Nat /\ phase' \in {"walk", "next", "kill"}
      BY <1>7 DEF LookAgain, GoOn
    <3> QED
      BY <1>7, <3>1 DEF LookAgain
  <2>2. Signalling'
    BY <1>7 DEF LookAgain, GoOn
  <2> QED
    BY <1>7, <2>1, <2>2 DEF LookAgain
<1>8. CASE KillSends
  BY <1>8 DEF KillSends, GoOn
<1>9. CASE KillFails
  BY <1>9 DEF KillFails, GoOn, Done
<1>10. CASE Change
  <2>1. PICK p \in AllPids \ {1, Self, Parent}, u \in Users \cup {None} :
          /\ owner' = [owner EXCEPT ![p] = u]
          /\ stayed' = stayed \ {p}
          /\ raced' = (raced \/ p = current)
    BY <1>10 DEF Change
  <2>2. SessionTypeOK'
    BY <1>10, <2>1 DEF Change
  <2>3. Signalling'
    BY <1>10, <2>1 DEF Change
  <2> QED
    BY <1>10, <2>2, <2>3 DEF Change
<1>11. CASE UNCHANGED sessionVars
  BY <1>11 DEF sessionVars
<1>12. CASE ListFails \/ ReaddirFails
  <2>1. pending' \in 0..MaxChanges /\ cut' \in BOOLEAN /\ status' \in 0..2 /\ phase' = "done"
    <3>1. pending' \in 0..MaxChanges
      BY <1>12 DEF ListFails, ReaddirFails, Failure
    <3>2. CASE ListFails
      BY <1>12, <3>1, <3>2 DEF ListFails, Done
    <3>3. CASE ReaddirFails
      BY <1>12, <3>1, <3>3 DEF ReaddirFails, Done
    <3> QED
      BY <1>12, <3>2, <3>3
  <2>2. UNCHANGED <<argVars, owner, stayed, missed, raced, walkVars, current, failures, claimed, sent>>
    BY <1>12 DEF ListFails, ReaddirFails
  <2> QED
    BY <2>1, <2>2
<1>13. CASE LookFails
  <2>1. PICK p \in names : names' = names \ {p} /\ missed' = missed \cup {p}
    BY <1>13 DEF LookFails
  <2>2. /\ seen' \in 0..MaxSeen /\ pending' \in 0..MaxChanges /\ phase = "walk" /\ raced' = FALSE
        /\ UNCHANGED <<argVars, owner, stayed, cut, phase, at, found, current, failures, claimed, sent, status>>
    BY <1>13 DEF LookFails, MayLook, Failure
  <2> QED
    BY <2>1, <2>2
<1>14. CASE LookAgainFails
  <2>1. /\ failures' \in Nat /\ phase' \in {"walk", "next", "done"} /\ status' \in 0..2
        /\ phase' = "next" => edition = "py"
        /\ phase = "recheck" /\ pending' \in 0..MaxChanges /\ raced' = FALSE
        /\ UNCHANGED <<argVars, owner, stayed, missed, cut, walkVars, current, claimed, sent>>
    BY <1>14 DEF LookAgainFails, Failure, GoOn, Done
  <2> QED
    BY <2>1
<1> QED
  BY <1>1, <1>2, <1>3, <1>4, <1>5, <1>6, <1>7, <1>8, <1>9, <1>10, <1>11, <1>12, <1>13, <1>14
     DEF SessionNext

-----------------------------------------------------------------------------

LEMMA TargetsFinite ==
  SessionInv => Targets \subseteq AllPids /\ IsFiniteSet(Targets) /\ Cardinality(Targets) \in Nat
<1>1. SessionInv => Targets \subseteq AllPids
  BY DEF SessionInv, SessionTypeOK, Targets, Kept
<1> QED
  BY <1>1, PidsFinite

(* Below the limit Python keeps all it found. *)
LEMMA AllKept == SessionInv /\ edition = "py" /\ ~Limited => Kept = found
<1> SUFFICES ASSUME SessionInv, edition = "py", ~Limited,
                    NEW p \in found
             PROVE  Cardinality({q \in found : q < p}) < MaxTargets
  BY DEF Kept
<1> DEFINE S == {q \in found : q < p}
<1>1. found \subseteq AllPids /\ MaxTargets \in Nat
  BY SessionAssumption DEF SessionInv, SessionTypeOK
<1>2. IsFiniteSet(found) /\ Cardinality(found) \in Nat /\ Cardinality(found) <= MaxTargets
  BY <1>1, PidsFinite DEF Limited
<1>3. IsFiniteSet(found \ {p}) /\ Cardinality(found \ {p}) = Cardinality(found) - 1
  BY <1>2, FS_RemoveElement
<1>4. S \subseteq found \ {p} /\ S \in SUBSET AllPids
  <2>1. found \subseteq Nat
    BY <1>1 DEF AllPids
  <2>2. \A q \in found : q < p => q # p
    BY <2>1
  <2> QED
    BY <1>1, <2>2
<1>5. Cardinality(S) <= Cardinality(found \ {p}) /\ Cardinality(S) \in Nat
  BY <1>3, <1>4, FS_Subset, PidsFinite
<1> QED
  BY <1>1, <1>2, <1>3, <1>5

LEMMA InitCovered == SessionInit => Covered
<1> SUFFICES ASSUME SessionInit PROVE Covered
  OBVIOUS
<1> USE SessionAssumption DEF SessionInit
<1>1. Walked /\ Untouched
  BY DEF Walked, Untouched, AllPids
<1>2. CSignals /\ PySignals
  BY DEF CSignals, PySignals, Signalled
<1> QED
  BY <1>1, <1>2 DEF Covered

LEMMA NextCovered == SessionInv /\ SessionInv' /\ Covered /\ [SessionNext]_sessionVars => Covered'
<1> SUFFICES ASSUME SessionInv, SessionInv', Covered, [SessionNext]_sessionVars PROVE Covered'
  OBVIOUS
<1> USE SessionAssumption
<1> USE DEF argVars, worldVars, walkVars, SessionInv, SessionTypeOK, Signalling, Covered
<1>1. CASE Start
  <2>1. Walked' /\ CSignals' /\ Untouched'
    BY <1>1 DEF Start, Done, Walked, CSignals, Untouched, Signalled, Protected, Limited
  <2>2. PySignals'
    BY <1>1 DEF Start, Done, PySignals, Passed, Targets, Kept, Protected, Signalled
  <2> QED
    BY <2>1, <2>2
<1>2. CASE Fill
  <2>1. CSignals' /\ PySignals' /\ Untouched'
    BY <1>2 DEF Fill, CSignals, PySignals, Passed, Targets, Kept, Protected, Signalled, Untouched
  <2>2. PICK n \in at + 1..MaxPid :
          at' = n /\ names' = names \cup {p \in at + 1..n : owner[p] # None}
    BY <1>2 DEF Fill
  <2>3. ASSUME NEW p \in stayed', p <= at' PROVE p \in names' \cup found' \cup missed'
    BY <1>2, <2>2, <2>3 DEF Fill, Walked, AllPids
  <2>4. Walked'
    BY <1>2, <2>3 DEF Fill, Walked
  <2> QED
    BY <2>1, <2>4
<1>3. CASE Look
  <2>1. /\ phase = "walk"
        /\ UNCHANGED <<argVars, worldVars, at, failures, claimed, sent, status>>
    BY <1>3 DEF Look
  <2>2. PICK p \in names :
          /\ names' = names \ {p}
          /\ found' = IF owner[p] = wanted THEN found \cup {p} ELSE found
          /\ IF edition = "c" /\ mode = "confirmed" /\ owner[p] = wanted /\ p \notin Protected
               THEN phase' = "recheck" /\ current' = p
               ELSE UNCHANGED <<phase, current>>
    BY <1>3 DEF Look
  <2>3. Walked' /\ Untouched'
    BY <2>1, <2>2 DEF Walked, Untouched
  <2>4. CSignals'
    BY <2>1, <2>2 DEF CSignals, Signalled, Protected
  <2>5. PySignals'
    BY <2>1, <2>2 DEF PySignals, Signalled
  <2> QED
    BY <2>3, <2>4, <2>5
<1>4. CASE WalkEnd
  <2>1. Walked' /\ Untouched'
    BY <1>4 DEF WalkEnd, Done, Walked, Untouched, Limited, MayLook
  <2>2. CSignals' /\ PySignals'
    BY <1>4 DEF WalkEnd, Done, CSignals, PySignals, Signalled, Protected
  <2> QED
    BY <2>1, <2>2
<1>5. CASE Report
  <2>1. Walked' /\ Untouched' /\ CSignals'
    BY <1>5 DEF Report, Done, Walked, Untouched, CSignals
  <2>2. Targets' = Targets /\ Signalled' = Signalled
    BY <1>5 DEF Report, Targets, Kept, Protected, Signalled
  <2>4. current' = 0 /\ \A p \in Targets : p > 0
    BY <1>5, TargetsFinite DEF Report, PySignals, AllPids
  <2>5. Passed' = {}
    BY <2>2, <2>4, TargetsFinite DEF Passed, AllPids
  <2>3. PySignals'
    BY <1>5, <2>2, <2>4, <2>5 DEF Report, Done, PySignals
  <2> QED
    BY <2>1, <2>3
<1>6. CASE NextTarget
  <2>1. edition = "py" /\ phase = "next"
    BY <1>6 DEF NextTarget, CSignals
  <2>2. Walked' /\ Untouched' /\ CSignals'
    BY <1>6, <2>1 DEF NextTarget, Done, Walked, Untouched, CSignals, PySignals
  <2>3. Targets' = Targets /\ Signalled' = Signalled
    BY <1>6 DEF NextTarget, Targets, Kept, Protected, Signalled
  <2>4. Passed' \subseteq Passed
    BY <1>6, <2>1, <2>3, TargetsFinite DEF NextTarget, Least, Done, Passed, AllPids
  <2>5. PySignals'
    BY <1>6, <2>1, <2>3, <2>4, TargetsFinite DEF NextTarget, Least, Done, PySignals, AllPids
  <2> QED
    BY <2>2, <2>5
<1>7. CASE LookAgain
  <2>1. Walked' /\ Untouched'
    BY <1>7 DEF LookAgain, GoOn, Walked, Untouched
  <2>2. CSignals'
    BY <1>7 DEF LookAgain, GoOn, CSignals, Walked, Signalled, Protected
  <2>3. Targets' = Targets /\ Signalled' = Signalled
    BY <1>7 DEF LookAgain, Targets, Kept, Protected, Signalled
  <2>4. edition = "py" => Passed' \cap stayed \subseteq Passed
    BY <1>7, <2>3, TargetsFinite DEF LookAgain, GoOn, Passed, Walked, AllPids
  <2>5. PySignals'
    BY <1>7, <2>3, <2>4 DEF LookAgain, GoOn, PySignals
  <2> QED
    BY <2>1, <2>2, <2>5
<1>8. CASE KillSends
  <2>1. Walked' /\ Untouched'
    BY <1>8 DEF KillSends, GoOn, Walked, Untouched
  <2>2. Targets' = Targets /\ Signalled' = Signalled \cup {current}
    <3>1. Targets' = Targets
      BY <1>8 DEF KillSends, Targets, Kept, Protected
    <3>2. PICK s : s.pid = current /\ sent' = sent \cup {s}
      BY <1>8 DEF KillSends
    <3> QED
      BY <3>1, <3>2 DEF Signalled
  <2>3. CSignals'
    BY <1>8, <2>2 DEF KillSends, GoOn, CSignals, Protected
  <2>4. edition = "py" => Passed' \subseteq Passed \cup {current}
    BY <1>8, <2>2, TargetsFinite DEF KillSends, GoOn, Passed, AllPids
  <2>5. PySignals'
    BY <1>8, <2>2, <2>4 DEF KillSends, GoOn, PySignals
  <2> QED
    BY <2>1, <2>3, <2>5
<1>9. CASE KillFails
  <2>1. Walked' /\ Untouched'
    BY <1>9 DEF KillFails, GoOn, Done, Walked, Untouched
  <2>2. Targets' = Targets /\ Signalled' = Signalled
    BY <1>9 DEF KillFails, Targets, Kept, Protected, Signalled
  <2>3. CSignals'
    BY <1>9, <2>2 DEF KillFails, GoOn, Done, CSignals, Protected
  <2>4. edition = "py" /\ phase' # "done" => Passed' \cap stayed \subseteq Passed
    BY <1>9, <2>2, TargetsFinite DEF KillFails, GoOn, Done, Passed, Walked, AllPids, None
  <2>5. PySignals'
    BY <1>9, <2>2, <2>4 DEF KillFails, GoOn, Done, PySignals
  <2> QED
    BY <2>1, <2>3, <2>5
<1>10. CASE Change
  <2>1. pending' # MaxChanges /\ stayed' \subseteq stayed
    BY <1>10 DEF Change
  <2>2. Walked'
    BY <1>10 DEF Change, Walked, Limited
  <2>3. CSignals'
    BY <1>10, <2>1 DEF Change, CSignals, Signalled, Protected
  <2>4. Targets' = Targets /\ Signalled' = Signalled /\ Passed' = Passed
    BY <1>10 DEF Change, Targets, Kept, Protected, Signalled, Passed
  <2>5. PySignals'
    BY <1>10, <2>1, <2>4 DEF Change, PySignals
  <2> QED
    BY <2>1, <2>2, <2>3, <2>5 DEF Untouched
<1>11. CASE UNCHANGED sessionVars
  BY <1>11 DEF sessionVars, Walked, CSignals, PySignals, Untouched, Passed, Targets, Kept, Protected,
               Signalled, Limited
<1>12. CASE ListFails \/ ReaddirFails
  <2>1. /\ pending' # MaxChanges /\ phase' = "done" /\ phase = "walk"
        /\ status' = 0 => edition = "c" /\ cut' /\ failures' = failures /\ (failures = 0 \/ mode = "list")
        /\ UNCHANGED <<argVars, owner, stayed, missed, raced, walkVars, current, failures, claimed, sent>>
    BY <1>12 DEF ListFails, ReaddirFails, Failure, Done
  <2>2. Walked' /\ Untouched'
    BY <2>1 DEF Walked, Untouched
  <2>3. CSignals'
    BY <2>1 DEF CSignals, Signalled, Protected
  <2>4. PySignals'
    BY <2>1 DEF PySignals, Targets, Kept, Protected, Signalled
  <2> QED
    BY <2>2, <2>3, <2>4
<1>13. CASE LookFails
  <2>1. PICK p \in names : names' = names \ {p} /\ missed' = missed \cup {p}
    BY <1>13 DEF LookFails
  <2>2. /\ phase = "walk" /\ pending' # MaxChanges
        /\ UNCHANGED <<argVars, owner, stayed, cut, phase, at, found, current, failures, claimed, sent, status>>
    BY <1>13 DEF LookFails, Failure
  <2>3. Walked' /\ Untouched'
    BY <2>1, <2>2 DEF Walked, Untouched
  <2>4. CSignals'
    BY <2>2 DEF CSignals, Signalled, Protected
  <2>5. PySignals'
    BY <2>2 DEF PySignals, Signalled
  <2> QED
    BY <2>3, <2>4, <2>5
<1>14. CASE LookAgainFails
  <2>1. /\ phase = "recheck" /\ pending' # MaxChanges /\ phase' # "kill" /\ phase' # "recheck"
        /\ edition = "c" => phase' = "walk" /\ failures' = failures + 1
        /\ edition = "py" => phase' = "done" /\ status' = 2
        /\ UNCHANGED <<argVars, owner, stayed, missed, cut, walkVars, current, claimed, sent>>
    BY <1>14 DEF LookAgainFails, Failure, GoOn, Done
  <2>2. Walked' /\ Untouched'
    BY <2>1 DEF Walked, Untouched
  <2>3. CSignals'
    BY <2>1 DEF CSignals, Signalled, Protected
  <2>4. PySignals'
    BY <2>1 DEF PySignals, Targets, Kept, Protected, Signalled
  <2> QED
    BY <2>2, <2>3, <2>4
<1> QED
  BY <1>1, <1>2, <1>3, <1>4, <1>5, <1>6, <1>7, <1>8, <1>9, <1>10, <1>11, <1>12, <1>13, <1>14
     DEF SessionNext

LEMMA CoveredTruthful == SessionInv /\ Covered => StatusTruthful
<1> SUFFICES ASSUME SessionInv, Covered, phase = "done", status = 0, ~Limited, ~cut
             PROVE  /\ stayed \subseteq found \cup missed
                    /\ mode = "confirmed" => stayed \ (Protected \cup missed) \subseteq Signalled
                    /\ mode = "dry" => sent = {}
                    /\ edition = "py" =>
                         /\ stayed \ (Protected \cup missed) \subseteq Targets
                         /\ mode = "dry" => claimed = Cardinality(Targets)
                         /\ mode = "confirmed" => Cardinality(Signalled) <= claimed
                         /\ mode = "confirmed" /\ pending = MaxChanges => Cardinality(Signalled) = claimed
  BY DEF StatusTruthful
<1> USE DEF SessionInv, SessionTypeOK, Covered
<1>1. stayed \subseteq found \cup missed
  BY DEF Walked, AllPids
<1>2. mode = "dry" => sent = {}
  BY DEF SignalsOnlyOwned
<1>3. CASE edition = "c"
  BY <1>1, <1>2, <1>3 DEF CSignals
<1>4. CASE edition = "py"
  <2>1. Targets = found \ Protected /\ claimed = Cardinality(Targets)
    BY <1>4, AllKept DEF Targets, PySignals
  <2>2. mode = "confirmed" => Targets \cap stayed \subseteq Signalled
    BY <1>4, TargetsFinite DEF PySignals, Passed, AllPids
  <2>3. Signalled \subseteq Targets
    BY <1>4 DEF PySignals
  <2>4. Cardinality(Signalled) <= claimed
    BY <2>1, <2>3, TargetsFinite, FS_Subset
  <2>5. mode = "confirmed" /\ pending = MaxChanges => Signalled = Targets
    BY <2>1, <2>2, <2>3 DEF Untouched
  <2> QED
    BY <1>1, <1>2, <1>4, <2>1, <2>2, <2>4, <2>5
<1> QED
  BY <1>3, <1>4

-----------------------------------------------------------------------------

(* The invariant holds in every run. *)
THEOREM SessionInvariance == SessionSpec => []SessionInv
BY SessionInitInv, SessionNextInv, PTL DEF SessionSpec

(* For any process table: the walk looks at no more processes than its      *)
(* limit, and every variable keeps its type (c/sessionx.c 57).              *)
THEOREM SessionTypeCorrect == SessionSpec => []SessionTypeOK
BY SessionInvariance, PTL DEF SessionInv

(* For any process table and any changes of it: no signal goes to root's    *)
(* processes on request, to PID 1, to the tool itself, or to a process of   *)
(* another user that had the PID when its owner was looked at last.         *)
THEOREM SignalsAlwaysOnlyOwned == SessionSpec => []SignalsOnlyOwned
BY SessionInvariance, PTL DEF SessionInv

(* For any process table, any changes of it and any failures: a status of 0 *)
(* below the limits, of a listing that was not cut short unnoticed, means   *)
(* that each process that stayed the user's was seen, or passed over when   *)
(* the first look at it failed, and in the one case signalled if that was   *)
(* asked for and it is not spared.                                          *)
THEOREM StatusAlwaysTruthful == SessionSpec => []StatusTruthful
<1>1. SessionInit => SessionInv /\ Covered
  BY SessionInitInv, InitCovered
<1>2. SessionInv /\ Covered /\ [SessionNext]_sessionVars => (SessionInv /\ Covered)'
  BY SessionNextInv, NextCovered
<1>3. SessionInv /\ Covered => StatusTruthful
  BY CoveredTruthful
<1> QED
  BY <1>1, <1>2, <1>3, PTL DEF SessionSpec
=============================================================================
