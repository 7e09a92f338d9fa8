-------------------------- MODULE TraceflowProofs --------------------------
(* Proofs about Traceflow: for any tasks and any size of the table, the     *)
(* tracer's toggle is right, it leaves nobody behind whom it knew of, and   *)
(* it ends with the status of the command.                                  *)
EXTENDS Traceflow, FiniteSetTheorems, TLAPS

Lives == {"unborn", "running", "stopped", "zombie", "reaped"}

IsTable(t) == DOMAIN t \subseteq Pids /\ \A p \in DOMAIN t : t[p] \in Entry

Typed ==
  /\ IsTable(table) /\ pc \in {"wait", "returned"}
  /\ life \in [Pids -> Lives] /\ stop \in [Pids -> Kinds]
  /\ child \in [Pids -> Pids \cup {None}] /\ inside \in [Pids -> BOOLEAN]
  /\ \A p \in Pids : stop[p] # "none" <=> life[p] = "stopped"

(* A task that is not born has left no trace; the creator at its fork event *)
(* has a child that is.                                                     *)
Unborn ==
  /\ \A p \in Pids : life[p] = "unborn" => p \notin DOMAIN table /\ ~inside[p]
  /\ \A p \in Pids : stop[p] = "fork" => child[p] \in Pids /\ life[child[p]] # "unborn"

(* Who is alive without an entry has not made a system call yet. *)
Outside ==
  \A p \in Pids : Alive(p) /\ p \notin DOMAIN table => stop[p] \in {"initial", "exit"} /\ ~inside[p]

(* At a system-call stop the toggle is one behind, else it is right. *)
Phases ==
  \A p \in DOMAIN table : Alive(p) =>
    /\ stop[p] = "syscall" => (table[p].entering = "no" <=> ~inside[p])
    /\ stop[p] # "syscall" => (table[p].entering = "no" <=> inside[p])

(* Who is alive without an entry is about to be reported by its creator, or *)
(* has been killed or not listed.                                           *)
Followed ==
  \A p \in Pids : Alive(p) /\ p \notin DOMAIN table =>
    \/ p \in doomed \cup unlisted
    \/ \E q \in Pids : stop[q] = "fork" /\ child[q] = p

(* Until the tracer returns, Root has its entry or has given its status. *)
RootKnown ==
  /\ life[Root] # "unborn"
  /\ pc = "wait" /\ life[Root] # "reaped" => Root \in DOMAIN table
  /\ pc = "wait" /\ life[Root] = "reaped" => result = ending

TraceInv ==
  Typed /\ Unborn /\ Outside /\ Phases /\ Followed /\ RootKnown /\ RootStatus /\ NoneEscapes

-----------------------------------------------------------------------------
(* The table *)

(* What add_process may do: nothing, or an entry for p about to enter.      *)
LEMMA AddFacts ==
  ASSUME NEW t, IsTable(t), NEW p \in Pids, NEW q \in Pids
  PROVE  /\ IsTable(AddProcess(t, p, q))
         /\ DOMAIN t \subseteq DOMAIN AddProcess(t, p, q)
         /\ DOMAIN AddProcess(t, p, q) \subseteq DOMAIN t \cup {p}
         /\ \A r \in DOMAIN t : AddProcess(t, p, q)[r] = t[r]
         /\ p \notin DOMAIN t /\ p \in DOMAIN AddProcess(t, p, q) =>
              AddProcess(t, p, q)[p].entering = "yes"
<1> DEFINE new == [parent |-> q, depth |-> IF q \in DOMAIN t THEN t[q].depth + 1 ELSE 0,
                   entering |-> "yes"]
           more == [r \in DOMAIN t \cup {p} |-> IF r \in DOMAIN t THEN t[r] ELSE new]
<1>1. CASE AddProcess(t, p, q) = t
  BY <1>1
<1>2. CASE p \notin DOMAIN t /\ AddProcess(t, p, q) = more
  <2>1. new \in Entry /\ new.entering = "yes"
    BY DEF Entry, IsTable
  <2> HIDE DEF new
  <2> QED BY <1>2, <2>1 DEF IsTable
<1> QED BY <1>1, <1>2 DEF AddProcess

(* The table after a report of p. *)
LEMMA SeenFacts ==
  ASSUME Typed, NEW p \in Pids
  PROVE  /\ IsTable(Seen(p))
         /\ DOMAIN table \subseteq DOMAIN Seen(p)
         /\ DOMAIN Seen(p) \subseteq DOMAIN table \cup {p}
         /\ \A r \in DOMAIN table : Seen(p)[r] = table[r]
         /\ p \notin DOMAIN table /\ p \in DOMAIN Seen(p) => Seen(p)[p].entering = "yes"
BY AddFacts, TraceAssumption DEF Seen, Typed

-----------------------------------------------------------------------------

LEMMA TraceInit == Init => TraceInv
<1> SUFFICES ASSUME Init PROVE TraceInv
  OBVIOUS
<1> USE TraceAssumption
<1>1. DOMAIN table = {Root} /\ table[Root] = [parent |-> None, depth |-> 0, entering |-> "yes"]
  BY DEF Init
<1>2. IsTable(table)
  BY <1>1 DEF IsTable, Entry
<1>3. Typed
  BY <1>2 DEF Init, Typed, Lives, Kinds
<1>4. Unborn /\ Outside /\ Followed /\ RootKnown
  BY <1>1 DEF Init, Unborn, Outside, Followed, RootKnown, Alive
<1>5. Phases
  BY <1>1 DEF Init, Phases, Alive
<1> QED BY <1>3, <1>4, <1>5 DEF Init, TraceInv, RootStatus, NoneEscapes

(* While the tracer waits nothing is claimed of its end. *)
LEMMA Waiting == pc = "wait" => RootStatus /\ NoneEscapes
BY DEF RootStatus, NoneEscapes

-----------------------------------------------------------------------------
(* The tracer's steps *)

LEMMA ZombieKeeps == ASSUME TraceInv, NEW p \in Pids, OnZombie(p) PROVE TraceInv'
<1> USE DEF TraceInv, OnZombie, Reports, RemoveProcess
<1>1. /\ DOMAIN table' = DOMAIN table \ {p} /\ \A r \in DOMAIN table' : table'[r] = table[r]
      /\ life[p] = "zombie" /\ stop[p] = "none"
  BY DEF Typed
<1>2. Typed'
  BY <1>1 DEF Typed, IsTable, Lives
<1>3. Unborn' /\ Outside'
  BY <1>1 DEF Typed, Unborn, Outside, Alive
<1>4. Phases'
  BY <1>1 DEF Typed, IsTable, Phases, Alive
<1>5. Followed'
  BY <1>1 DEF Typed, Followed, Alive
<1>6. RootKnown'
  BY <1>1, TraceAssumption DEF Typed, RootKnown
<1> QED BY <1>2, <1>3, <1>4, <1>5, <1>6, Waiting DEF RootStatus, NoneEscapes

(* A task is let go from a stop that is none of a fork. *)
LEMMA GoesOn ==
  ASSUME TraceInv, NEW p \in Pids, Tracked(p), Resume(p), stop[p] # "fork",
         IsTable(table'), DOMAIN table' = DOMAIN Seen(p),
         \A r \in DOMAIN table' \ {p} : table'[r] = table[r],
         life'[p] = "running" => (table'[p].entering = "no" <=> inside[p]),
         UNCHANGED <<pc, result, fault, child, inside, ending, doomed, unlisted>>
  PROVE  TraceInv'
<1> USE DEF TraceInv, Tracked, Reports
<1>0. p \in DOMAIN Seen(p) /\ life[p] = "stopped" /\ pc = "wait" /\ pc' = "wait"
  OBVIOUS
<1>1. DOMAIN table \subseteq DOMAIN table' /\ DOMAIN table' = DOMAIN table \cup {p}
  <2>1. DOMAIN table \subseteq DOMAIN Seen(p) /\ DOMAIN Seen(p) \subseteq DOMAIN table \cup {p}
    BY SeenFacts
  <2> QED BY <1>0, <2>1
<1>2. /\ life' = [life EXCEPT ![p] = life'[p]] /\ life'[p] \in {"running", "zombie"}
      /\ stop' = [stop EXCEPT ![p] = "none"]
  BY <1>0 DEF Resume, Typed
<1>3. Typed'
  BY <1>0, <1>1, <1>2 DEF Typed, Lives, Kinds
<1>4. Unborn'
  BY <1>0, <1>1, <1>2 DEF Typed, Unborn
<1>5. Outside'
  BY <1>0, <1>1, <1>2 DEF Typed, Outside, Alive
<1>6. Phases'
  BY <1>0, <1>1, <1>2 DEF Typed, IsTable, Phases, Alive
<1>7. Followed'
  BY <1>0, <1>1, <1>2 DEF Typed, Followed, Alive
<1>8. RootKnown'
  BY <1>0, <1>1, <1>2, TraceAssumption DEF Typed, RootKnown
<1> QED BY <1>0, <1>1, <1>3, <1>4, <1>5, <1>6, <1>7, <1>8, Waiting DEF RootStatus, NoneEscapes

LEMMA SyscallKeeps == ASSUME TraceInv, NEW p \in Pids, OnSyscall(p) PROVE TraceInv'
<1> USE DEF TraceInv, OnSyscall, Tracked, Reports
<1>1. p \in DOMAIN table
  BY DEF Outside, Alive
<1>2. /\ DOMAIN table' = DOMAIN Seen(p) /\ \A r \in DOMAIN table' \ {p} : table'[r] = table[r]
      /\ table'[p] = [table[p] EXCEPT !.entering = IF @ = "yes" THEN "no" ELSE "yes"]
  BY <1>1, SeenFacts
<1>3. table[p] \in Entry
  BY <1>1 DEF Typed, IsTable
<1>4. table'[p] \in Entry /\ (table'[p].entering = "no" <=> table[p].entering # "no")
  BY <1>2, <1>3 DEF Entry
<1>5. IsTable(table')
  BY <1>1, <1>2, <1>4, SeenFacts DEF Typed, IsTable
<1>6. life'[p] = "running" => (table'[p].entering = "no" <=> inside[p])
  BY <1>1, <1>4 DEF Typed, Phases, Alive
<1> QED BY <1>2, <1>5, <1>6, GoesOn

LEMMA OtherKeeps == ASSUME TraceInv, NEW p \in Pids, OnOther(p) PROVE TraceInv'
<1> USE DEF TraceInv, OnOther, Tracked, Reports
<1>1. IsTable(table') /\ \A r \in DOMAIN table' \ {p} : table'[r] = table[r]
  BY SeenFacts
<1>2. CASE p \in DOMAIN table
  BY <1>1, <1>2, SeenFacts, GoesOn DEF Phases, Alive
<1>3. CASE p \notin DOMAIN table
  BY <1>1, <1>3, SeenFacts, GoesOn DEF Outside, Alive
<1> QED BY <1>2, <1>3

LEMMA ForkKeeps == ASSUME TraceInv, NEW p \in Pids, OnFork(p) PROVE TraceInv'
<1> DEFINE c == child[p]
<1>1. /\ p \in DOMAIN table /\ c \in Pids /\ life[c] # "unborn" /\ inside[p] \in BOOLEAN
      /\ life[p] = "stopped" /\ stop[p] = "fork" /\ pc = "wait" /\ pc' = "wait"
  BY DEF TraceInv, OnFork, Tracked, Reports, Outside, Unborn, Alive, Typed
<1>2. Seen(p) = table
  BY <1>1 DEF Seen, AddProcess
<1>3. /\ IsTable(table') /\ DOMAIN table \subseteq DOMAIN table'
      /\ DOMAIN table' \subseteq DOMAIN table \cup {c}
      /\ \A r \in DOMAIN table : table'[r] = table[r]
      /\ c \notin DOMAIN table /\ c \in DOMAIN table' => table'[c].entering = "yes"
  BY <1>1, <1>2, AddFacts DEF OnFork, TraceInv, Typed
<1>4. /\ life' = [life EXCEPT ![p] = "running"] /\ stop' = [stop EXCEPT ![p] = "none"]
      /\ UNCHANGED <<result, fault, child, inside, ending, doomed>>
      /\ unlisted' = unlisted \cup ({c} \ DOMAIN table')
  BY <1>1 DEF OnFork, Resume
<1> HIDE DEF c
<1>5. Typed'
  BY <1>1, <1>3, <1>4 DEF TraceInv, Typed, Lives, Kinds
<1>6. Unborn'
  BY <1>1, <1>3, <1>4 DEF TraceInv, Typed, Unborn
<1>7. Outside'
  BY <1>1, <1>3, <1>4 DEF TraceInv, Typed, Outside, Alive
<1>8. Phases'
  <2> SUFFICES ASSUME NEW r \in DOMAIN table', Alive(r)'
               PROVE  /\ stop'[r] = "syscall" => (table'[r].entering = "no" <=> ~inside'[r])
                      /\ stop'[r] # "syscall" => (table'[r].entering = "no" <=> inside'[r])
    BY DEF Phases
  <2>1. CASE r \in DOMAIN table
    BY <1>1, <1>3, <1>4, <2>1 DEF TraceInv, Typed, IsTable, Phases, Alive
  <2>2. CASE r \notin DOMAIN table
    <3>1. r = c /\ r # p /\ table'[r].entering = "yes" /\ life[r] = life'[r] /\ stop[r] = stop'[r]
      BY <1>1, <1>3, <1>4, <2>2 DEF TraceInv, Typed
    <3>2. stop[r] \in {"initial", "exit"} /\ ~inside[r]
      BY <1>1, <2>2, <3>1 DEF TraceInv, Outside, Alive
    <3> QED BY <1>4, <3>1, <3>2
  <2> QED BY <2>1, <2>2
<1>9. Followed'
  <2> SUFFICES ASSUME NEW r \in Pids, Alive(r)', r \notin DOMAIN table'
               PROVE  \/ r \in doomed' \cup unlisted'
                      \/ \E q \in Pids : stop'[q] = "fork" /\ child'[q] = r
    BY DEF Followed
  <2>1. r # p /\ Alive(r) /\ r \notin DOMAIN table
    BY <1>1, <1>3, <1>4 DEF TraceInv, Typed, Alive
  <2>2. CASE r \in doomed \cup unlisted
    BY <1>4, <2>2
  <2>3. CASE \E q \in Pids : stop[q] = "fork" /\ child[q] = r
    <3>1. PICK q \in Pids : stop[q] = "fork" /\ child[q] = r
      BY <2>3
    <3>2. CASE q = p
      BY <1>4, <3>1, <3>2 DEF c
    <3>3. CASE q # p
      BY <1>1, <1>4, <3>1, <3>3 DEF TraceInv, Typed
    <3> QED BY <3>2, <3>3
  <2> QED BY <2>1, <2>2, <2>3 DEF TraceInv, Followed
<1>10. RootKnown'
  BY <1>1, <1>3, <1>4, TraceAssumption DEF TraceInv, Typed, RootKnown
<1> QED BY <1>1, <1>5, <1>6, <1>7, <1>8, <1>9, <1>10 DEF TraceInv, RootStatus, NoneEscapes

LEMMA FullKeeps == ASSUME TraceInv, NEW p \in Pids, OnFull(p) PROVE TraceInv'
<1> USE DEF TraceInv
<1>1. /\ p \notin DOMAIN table /\ life[p] = "stopped" /\ pc = "wait" /\ pc' = "wait"
      /\ stop[p] \in {"initial", "exit"} /\ ~inside[p]
  <2>1. p \notin DOMAIN Seen(p) /\ DOMAIN table \subseteq DOMAIN Seen(p)
    BY SeenFacts DEF OnFull
  <2>2. life[p] = "stopped" /\ pc = "wait" /\ pc' = "wait"
    BY DEF OnFull, Reports, tracerVars
  <2> QED BY <2>1, <2>2 DEF Outside, Alive
<1>2. /\ doomed' = doomed \cup {p}
      /\ \/ life' = [life EXCEPT ![p] = "zombie"] /\ stop' = [stop EXCEPT ![p] = "none"]
         \/ UNCHANGED life /\ stop' = [stop EXCEPT ![p] = "exit"]
      /\ UNCHANGED <<table, result, fault, child, inside, ending, unlisted>>
  BY DEF OnFull, tracerVars
<1>3. Typed'
  BY <1>1, <1>2 DEF Typed, Lives, Kinds
<1>4. Unborn' /\ Outside'
  BY <1>1, <1>2 DEF Typed, Unborn, Outside, Alive
<1>5. Phases'
  BY <1>1, <1>2 DEF Typed, IsTable, Phases, Alive
<1>6. Followed'
  BY <1>1, <1>2 DEF Typed, Followed, Alive
<1>7. RootKnown'
  BY <1>1, <1>2, TraceAssumption DEF Typed, RootKnown
<1> QED BY <1>1, <1>3, <1>4, <1>5, <1>6, <1>7 DEF RootStatus, NoneEscapes

(* The tracer returns, after a failure or because all it knew of is over. *)
LEMMA ReturnKeeps ==
  ASSUME TraceInv, NoChildren \/ NoEntries \/ TraceFails
  PROVE  TraceInv'
<1> USE DEF TraceInv
<1>1. pc = "wait" /\ pc' = "returned" /\ UNCHANGED <<table, taskVars>>
  BY DEF NoChildren, NoEntries, TraceFails, TracerReturns
<1>2. Typed' /\ Unborn' /\ Outside' /\ Phases' /\ Followed' /\ RootKnown'
  BY <1>1 DEF taskVars, Typed, Unborn, Outside, Phases, Followed, RootKnown, Alive
<1>3. CASE TraceFails
  BY <1>2, <1>3 DEF TraceFails, RootStatus, NoneEscapes
<1>4. CASE NoChildren
  <2>1. \A p \in Pids : life[p] \in {"unborn", "reaped"}
    BY <1>4 DEF NoChildren
  <2>2. RootStatus'
    BY <1>1, <1>4, <2>1, TraceAssumption
       DEF NoChildren, TracerReturns, taskVars, RootStatus, RootKnown
  <2> QED BY <1>1, <1>2, <2>1, <2>2 DEF taskVars, NoneEscapes, Alive
<1>5. CASE NoEntries
  <2>1. DOMAIN table = {}
    BY <1>5 DEF NoEntries
  <2>2. RootStatus'
    BY <1>1, <1>5, <2>1, TraceAssumption
       DEF NoEntries, TracerReturns, taskVars, RootStatus, RootKnown
  <2>3. \A q \in Pids : stop[q] # "fork"
    BY <2>1 DEF Typed, Outside, Alive
  <2> QED BY <1>1, <1>2, <2>1, <2>2, <2>3 DEF taskVars, NoneEscapes, Followed, Alive
<1> QED BY <1>3, <1>4, <1>5

-----------------------------------------------------------------------------
(* The steps of the tasks *)

LEMMA StopKeeps ==
  ASSUME TraceInv, NEW p \in Pids,
         SyscallStop(p) \/ ExecStop(p) \/ SignalStop(p) \/ ExitStop(p)
  PROVE  TraceInv'
<1> USE DEF TraceInv
<1> DEFINE kind == stop'[p]
<1>1. /\ pc = "wait" /\ pc' = "wait" /\ life[p] = "running" /\ stop[p] = "none"
      /\ life' = [life EXCEPT ![p] = "stopped"] /\ stop' = [stop EXCEPT ![p] = kind]
      /\ kind \in {"syscall", "exec", "signal", "exit"}
      /\ inside' = IF kind = "syscall" THEN [inside EXCEPT ![p] = ~@] ELSE inside
      /\ UNCHANGED <<table, result, fault, child, ending, doomed, unlisted>>
  BY DEF SyscallStop, ExecStop, SignalStop, ExitStop, StopFor, tracerVars, Typed
<1>2. p \in DOMAIN table
  BY <1>1 DEF Outside, Alive
<1> HIDE DEF kind
<1>3. Typed'
  BY <1>1 DEF Typed, Lives, Kinds
<1>4. Unborn' /\ Outside'
  BY <1>1, <1>2 DEF Typed, Unborn, Outside, Alive
<1>5. Phases'
  BY <1>1 DEF Typed, IsTable, Phases, Alive
<1>6. Followed'
  BY <1>1, <1>2 DEF Typed, Followed, Alive
<1>7. RootKnown'
  BY <1>1, TraceAssumption DEF Typed, RootKnown
<1> QED BY <1>1, <1>3, <1>4, <1>5, <1>6, <1>7 DEF RootStatus, NoneEscapes

LEMMA CloneKeeps == ASSUME TraceInv, NEW p \in Pids, NEW c \in Pids, Clone(p, c) PROVE TraceInv'
<1> USE DEF TraceInv
<1>1. /\ pc = "wait" /\ pc' = "wait" /\ life[p] = "running" /\ stop[p] = "none" /\ inside[p]
      /\ life[c] = "unborn" /\ c # p /\ stop[c] = "none"
      /\ life' = [life EXCEPT ![p] = "stopped", ![c] = "stopped"]
      /\ stop' = [stop EXCEPT ![p] = "fork", ![c] = "initial"]
      /\ child' = [child EXCEPT ![p] = c]
      /\ UNCHANGED <<table, result, fault, inside, ending, doomed, unlisted>>
  BY DEF Clone, tracerVars, Typed
<1>2. p \in DOMAIN table /\ c \notin DOMAIN table /\ ~inside[c]
  BY <1>1 DEF Outside, Unborn, Alive
<1>3. Typed'
  BY <1>1 DEF Typed, Lives, Kinds
<1>4. Unborn'
  BY <1>1, <1>2 DEF Typed, Unborn
<1>5. Outside'
  BY <1>1, <1>2 DEF Typed, Outside, Alive
<1>6. Phases'
  BY <1>1, <1>2 DEF Typed, IsTable, Phases, Alive
<1>7. Followed'
  BY <1>1, <1>2 DEF Typed, Followed, Alive
<1>8. RootKnown'
  BY <1>1, TraceAssumption DEF Typed, RootKnown
<1> QED BY <1>1, <1>3, <1>4, <1>5, <1>6, <1>7, <1>8 DEF RootStatus, NoneEscapes

LEMMA KilledKeeps == ASSUME TraceInv, NEW p \in Pids, Killed(p) PROVE TraceInv'
<1> USE DEF TraceInv
<1>1. /\ pc = "wait" /\ pc' = "wait" /\ Alive(p)
      /\ life' = [life EXCEPT ![p] = "zombie"] /\ stop' = [stop EXCEPT ![p] = "none"]
      /\ unlisted \subseteq unlisted'
      /\ stop[p] = "fork" /\ child[p] \notin DOMAIN table => child[p] \in unlisted'
      /\ UNCHANGED <<table, result, fault, child, inside, ending, doomed>>
  BY DEF Killed, tracerVars
<1>2. Typed'
  BY <1>1 DEF Typed, Lives, Kinds
<1>3. Unborn' /\ Outside'
  BY <1>1 DEF Typed, Unborn, Outside, Alive
<1>4. Phases'
  BY <1>1 DEF Typed, IsTable, Phases, Alive
<1>5. Followed'
  BY <1>1 DEF Typed, Followed, Alive
<1>6. RootKnown'
  BY <1>1, TraceAssumption DEF Typed, RootKnown, Alive
<1> QED BY <1>1, <1>2, <1>3, <1>4, <1>5, <1>6 DEF RootStatus, NoneEscapes

-----------------------------------------------------------------------------

LEMMA TraceNext == TraceInv /\ [Next]_vars => TraceInv'
<1> SUFFICES ASSUME TraceInv, [Next]_vars PROVE TraceInv'
  OBVIOUS
<1>1. CASE Tracer
  BY <1>1, ZombieKeeps, SyscallKeeps, ForkKeeps, OtherKeeps, FullKeeps, ReturnKeeps DEF Tracer
<1>2. CASE TraceFails
  BY <1>2, ReturnKeeps
<1>3. CASE Tasks
  BY <1>3, StopKeeps, CloneKeeps, KilledKeeps DEF Tasks
<1>4. CASE UNCHANGED vars
  BY <1>4 DEF vars, tracerVars, taskVars, TraceInv, Typed, Unborn, Outside, Phases, Followed,
     RootKnown, RootStatus, NoneEscapes, Alive
<1> QED BY <1>1, <1>2, <1>3, <1>4 DEF Next

(* TraceInv is an invariant of the tracer. *)
THEOREM TraceInvariance == Spec => []TraceInv
<1>1. TraceInv /\ [Next]_vars => TraceInv'
  BY TraceNext
<1> QED BY TraceInit, <1>1, PTL DEF Spec

(* c/traceflow.c:90, the toggle between the entry of a system call and its  *)
(* exit: whatever forks, execs and signals come between, and in whatever    *)
(* order the tasks report, it is right whenever a task runs.                *)
THEOREM AlwaysPhaseAgrees == Spec => []PhaseAgrees
<1>1. TraceInv => PhaseAgrees
  BY DEF TraceInv, Typed, IsTable, Phases, PhaseAgrees, Alive
<1> QED BY TraceInvariance, <1>1, PTL

(* c/traceflow.c:122: a trace that did not fail ends with the status of the *)
(* command itself.                                                          *)
THEOREM AlwaysRootStatus == Spec => []RootStatus
<1>1. TraceInv => RootStatus
  BY DEF TraceInv
<1> QED BY TraceInvariance, <1>1, PTL

(* c/traceflow.c:95: when the table is empty or nobody is left to wait for, *)
(* nobody is alive but those who were killed or could not be listed.        *)
THEOREM AlwaysNoneEscapes == Spec => []NoneEscapes
<1>1. TraceInv => NoneEscapes
  BY DEF TraceInv
<1> QED BY TraceInvariance, <1>1, PTL

-----------------------------------------------------------------------------
(* The size of the table *)

TableBounded == IsFiniteSet(DOMAIN table) /\ Cardinality(DOMAIN table) <= MaxTraced

LEMMA AddBounded ==
  ASSUME NEW t, NEW p, NEW q, IsFiniteSet(DOMAIN t), Cardinality(DOMAIN t) <= MaxTraced
  PROVE  /\ IsFiniteSet(DOMAIN AddProcess(t, p, q))
         /\ Cardinality(DOMAIN AddProcess(t, p, q)) <= MaxTraced
<1>1. CASE AddProcess(t, p, q) = t
  BY <1>1
<1>2. CASE /\ p \notin DOMAIN t /\ ~(Cardinality(DOMAIN t) >= MaxTraced)
           /\ DOMAIN AddProcess(t, p, q) = DOMAIN t \cup {p}
  <2>1. IsFiniteSet(DOMAIN t \cup {p}) /\ Cardinality(DOMAIN t \cup {p}) = Cardinality(DOMAIN t) + 1
    BY <1>2, FS_AddElement
  <2> QED BY <1>2, <2>1, FS_CardinalityType, TraceAssumption
<1> QED BY <1>1, <1>2 DEF AddProcess

(* processes[] has room for MAX_TRACED entries, and no entry is written     *)
(* beyond it.                                                               *)
THEOREM TableNeverOverflows == Spec => []TableBounded
<1>1. Init => TableBounded
  <2> SUFFICES ASSUME Init PROVE TableBounded
    OBVIOUS
  <2>1. DOMAIN table = {Root}
    BY DEF Init
  <2>2. IsFiniteSet({Root}) /\ Cardinality({Root}) = 1
    BY FS_Singleton, Zenon
  <2> QED BY <2>1, <2>2, TraceAssumption DEF TableBounded
<1>2. TableBounded /\ [Next]_vars => TableBounded'
  <2> SUFFICES ASSUME TableBounded, [Next]_vars PROVE TableBounded'
    OBVIOUS
  <2>1. ASSUME NEW p \in Pids
        PROVE  IsFiniteSet(DOMAIN Seen(p)) /\ Cardinality(DOMAIN Seen(p)) <= MaxTraced
    BY AddBounded DEF TableBounded, Seen
  <2>2. ASSUME NEW p \in Pids, OnZombie(p) PROVE TableBounded'
    <3>1. DOMAIN table' = DOMAIN table \ {p}
      BY <2>2 DEF OnZombie, RemoveProcess
    <3>2. /\ IsFiniteSet(DOMAIN table \ {p})
          /\ Cardinality(DOMAIN table \ {p}) =
               IF p \in DOMAIN table THEN Cardinality(DOMAIN table) - 1 ELSE Cardinality(DOMAIN table)
      BY FS_RemoveElement, Zenon DEF TableBounded
    <3>3. Cardinality(DOMAIN table) \in Nat
      BY FS_CardinalityType DEF TableBounded
    <3> QED BY <3>1, <3>2, <3>3, TraceAssumption DEF TableBounded
  <2>3. ASSUME NEW p \in Pids, OnSyscall(p) \/ OnOther(p) PROVE TableBounded'
    <3>1. DOMAIN table' = DOMAIN Seen(p)
      BY <2>3 DEF OnSyscall, OnOther
    <3> QED BY <2>1, <3>1 DEF TableBounded
  <2>4. ASSUME NEW p \in Pids, OnFork(p) PROVE TableBounded'
    BY <2>1, <2>4, AddBounded DEF OnFork, TableBounded
  <2>5. CASE UNCHANGED table
    BY <2>5 DEF TableBounded
  <2> QED BY <2>2, <2>3, <2>4, <2>5 DEF Next, Tracer, Tasks, OnFull, NoChildren, NoEntries, TraceFails,
       TracerReturns, SyscallStop, ExecStop, SignalStop, ExitStop, StopFor, Clone, Killed, vars,
       tracerVars
<1> QED BY <1>1, <1>2, PTL DEF Spec
=============================================================================
