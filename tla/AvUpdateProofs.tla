--------------------------- MODULE AvUpdateProofs ---------------------------
(***************************************************************************)
(* Proofs about AvUpdate for every set of updaters, names and databases.   *)
(***************************************************************************)
EXTENDS AvUpdate, TLAPS

-----------------------------------------------------------------------------
(* Facts about files and about the handlers' common parts *)

(* An entry that is no regular file is well formed, and keeps its kind. *)
LEMMA SpecialFits ==
  ASSUME NEW k \in Kinds \ {"regular"}
  PROVE  WellFormed(Special(k)) /\ Special(k).kind = k
  BY DEF WellFormed, Special, Entry, Kinds

(* A path that names nothing is well formed. *)
LEMMA AbsentFits == WellFormed(Absent) /\ Absent.kind = "absent"
  BY SpecialFits DEF Absent, Kinds

(* A file that holds a prefix of a database is well formed. *)
LEMMA RegularFits ==
  ASSUME NEW c \in Contents \cup {None}, NEW n \in Nat, NEW o \in {"cache", "disk"}
  PROVE  WellFormed(Regular(c, n, o))
  BY UpdateAssumption DEF WellFormed, Regular, Entry, Kinds

(* A file that holds all of a database, on disk, is well formed. *)
LEMMA WholeFits ==
  ASSUME NEW c \in Contents
  PROVE  WellFormed(Whole(c))
  BY UpdateAssumption DEF Whole, WellFormed, Regular, Entry, Kinds

(* What a power loss leaves of an entry is well formed. *)
LEMMA SurvivorsFit ==
  ASSUME NEW f, WellFormed(f), NEW e \in Survivors(f)
  PROVE  WellFormed(e)
  BY UpdateAssumption DEF Survivors, WellFormed, Regular, Special, Entry, Kinds

(* Where each step of either program leads. *)
LEMMA AfterSteps ==
  ASSUME NEW u
  PROVE  /\ After(u, "fetch") = "verify"
         /\ After(u, "verify") \in {"inspect", "parse"}
         /\ After(u, "inspect") \in {"create", "fetch"}
         /\ After(u, "write") = "sync"
         /\ After(u, "sync") = "close"
         /\ After(u, "close") \in {"validate", "rename"}
         /\ u \in Python => /\ After(u, "verify") = "parse"
                            /\ After(u, "inspect") = "fetch"
                            /\ After(u, "close") = "rename"
         /\ u \notin Python => /\ After(u, "verify") = "inspect"
                               /\ After(u, "inspect") = "create"
                               /\ After(u, "close") = "validate"
  BY DEF After, CAfter, PyAfter

(* A step that holds a temporary file finds a regular file of that name. *)
LEMMA Holds ==
  ASSUME TypeOK, NEW u \in Updaters, pc[u] \in TempSteps
  PROVE  /\ temp[u] \in Temps
         /\ temp[u] \in Paths
         /\ got[u] \in Contents
         /\ want[u] \in Contents
         /\ Size[got[u]] \in Nat
         /\ WellFormed(fs[temp[u]])
         /\ fs[temp[u]].len \in Nat
  BY UpdateAssumption DEF TypeOK, ProcessesOK, DiskOK, Paths, TempSteps, Entry

(* Returning keeps the types of the updaters' variables. *)
LEMMA ReturnOK ==
  ASSUME TypeOK, NEW u \in Updaters, NEW v \in Verdicts, Return(u, v)
  PROVE  ProcessesOK'
  BY UpdateAssumption DEF TypeOK, ProcessesOK, Return, GoTo, Steps, TempSteps

(* A step that changes nothing keeps every type. *)
LEMMA StutterOK ==
  /\ ProcessesOK /\ UNCHANGED procVars => ProcessesOK'
  /\ DiskOK /\ UNCHANGED diskVars => DiskOK'
  /\ PublicOK /\ UNCHANGED publicVars => PublicOK'
  BY DEF ProcessesOK, DiskOK, PublicOK, procVars, diskVars, publicVars, WellFormed

-----------------------------------------------------------------------------
(* Type correctness *)

(* The initial state has its type. *)
LEMMA TypeInit == Init => TypeOK
<1> SUFFICES ASSUME Init PROVE TypeOK
  OBVIOUS
<1>1. PICK e \in {Absent, Whole(Original)} :
        fs = [p \in Paths |-> IF p = Dest THEN e ELSE Absent]
  BY DEF Init
<1>2. WellFormed(e)
  BY <1>1, AbsentFits, WholeFits, UpdateAssumption
<1>3. \A p \in Paths : WellFormed(fs[p])
  BY <1>1, <1>2, AbsentFits
<1>4. DiskOK
  BY <1>1, <1>3 DEF Init, DiskOK, WellFormed, Paths
<1>5. ProcessesOK
  BY UpdateAssumption DEF Init, ProcessesOK, NoReport, Verdicts, Steps, EarlySteps, TempSteps
<1>6. PublicOK
  BY UpdateAssumption DEF Init, PublicOK
<1> QED
  BY <1>4, <1>5, <1>6 DEF TypeOK

(* Unlinking or abandoning a temporary file keeps the types of the disk. *)
LEMMA DiscardOK ==
  ASSUME TypeOK, NEW u \in Updaters, pc[u] \in TempSteps, Discard(u)
  PROVE  ProcessesOK' /\ DiskOK'
<1>1. ProcessesOK'
  BY ReturnOK DEF Discard, Unlink, Abandon, Verdicts
<1>2. DiskOK'
  BY Holds, AbsentFits DEF TypeOK, DiskOK, Discard, Unlink, Abandon, WellFormed
<1> QED
  BY <1>1, <1>2

(* Every step keeps the type invariant. *)
LEMMA TypeNext == TypeOK /\ [Next]_vars => TypeOK'
<1> SUFFICES ASSUME TypeOK, [Next]_vars PROVE TypeOK'
  OBVIOUS
<1> USE StutterOK DEF TypeOK
<1>1. ASSUME NEW u \in Updaters, NEW m \in {"update", "check"}, Start(u, m)
      PROVE  TypeOK'
  BY <1>1 DEF Start, GoTo, ProcessesOK, NoReport, Verdicts, Steps, EarlySteps, TempSteps
<1>2. ASSUME NEW u \in Updaters, FetchManifest(u) PROVE TypeOK'
  BY <1>2, UpdateAssumption
     DEF FetchManifest, GoTo, ProcessesOK, PublicOK, Steps, EarlySteps, TempSteps
<1>3. ASSUME NEW u \in Updaters, IsCurrent(u) PROVE TypeOK'
  BY <1>3, ReturnOK DEF IsCurrent, Verdicts
<1>4. ASSUME NEW u \in Updaters, IsOutdated(u) PROVE TypeOK'
  <2>1. CASE mode[u] = "check" /\ Return(u, "available")
    BY <1>4, <2>1, ReturnOK DEF IsOutdated, Verdicts
  <2>2. CASE mode[u] = "update" /\ GoTo(u, "inspect") /\ UNCHANGED <<mode, want, got, temp, report>>
    BY <1>4, <2>2 DEF IsOutdated, GoTo, ProcessesOK, Steps, EarlySteps, TempSteps
  <2> QED
    BY <1>4, <2>1, <2>2 DEF IsOutdated
<1>5. ASSUME NEW u \in Updaters, FetchDatabase(u) PROVE TypeOK'
  BY <1>5, AfterSteps
     DEF FetchDatabase, GoTo, ProcessesOK, PublicOK, Steps, EarlySteps, TempSteps
<1>6. ASSUME NEW u \in Updaters, VerifyHash(u) PROVE TypeOK'
  <2>1. CASE got[u] = want[u] /\ GoTo(u, After(u, "verify")) /\ UNCHANGED <<mode, want, got, temp, report>>
    BY <1>6, <2>1, AfterSteps DEF VerifyHash, GoTo, ProcessesOK, Steps, EarlySteps, TempSteps
  <2>2. CASE Return(u, "failed")
    BY <1>6, <2>2, ReturnOK DEF VerifyHash, Verdicts
  <2> QED
    BY <1>6, <2>1, <2>2 DEF VerifyHash
<1>7. ASSUME NEW u \in Updaters, ParseDownload(u) PROVE TypeOK'
  <2>1. CASE GoTo(u, "create") /\ UNCHANGED <<mode, want, got, temp, report>>
    BY <1>7, <2>1 DEF ParseDownload, GoTo, ProcessesOK, Steps, EarlySteps, TempSteps
  <2>2. CASE Return(u, "failed")
    BY <1>7, <2>2, ReturnOK DEF ParseDownload, Verdicts
  <2> QED
    BY <1>7, <2>1, <2>2 DEF ParseDownload
<1>8. ASSUME NEW u \in Updaters, Inspect(u) PROVE TypeOK'
  <2>1. CASE GoTo(u, After(u, "inspect")) /\ UNCHANGED <<mode, want, got, temp, report>>
    BY <1>8, <2>1, AfterSteps DEF Inspect, GoTo, ProcessesOK, Steps, EarlySteps, TempSteps
  <2>2. CASE Return(u, "failed")
    BY <1>8, <2>2, ReturnOK DEF Inspect, Verdicts
  <2> QED
    BY <1>8, <2>1, <2>2 DEF Inspect
<1>9. ASSUME NEW u \in Updaters, CreateTemp(u) PROVE TypeOK'
  <2>1. got[u] \in Contents
    BY <1>9 DEF CreateTemp, ProcessesOK
  <2>2. DiskOK'
    BY <1>9, <2>1, RegularFits DEF CreateTemp, DiskOK, WellFormed, Paths
  <2>3. ProcessesOK'
    BY <1>9, UpdateAssumption DEF CreateTemp, GoTo, ProcessesOK, Steps, EarlySteps, TempSteps
  <2> QED
    BY <1>9, <2>2, <2>3 DEF CreateTemp
<1>10. ASSUME NEW u \in Updaters, Write(u) PROVE TypeOK'
  <2>1. pc[u] \in TempSteps
    BY <1>10 DEF Write, TempSteps
  <2>2. ProcessesOK'
    <3>1. CASE UNCHANGED pc
      BY <1>10, <3>1 DEF Write, ProcessesOK
    <3>2. CASE GoTo(u, After(u, "write"))
      BY <1>10, <3>2, AfterSteps DEF Write, GoTo, ProcessesOK, Steps, EarlySteps, TempSteps
    <3> QED
      BY <1>10, <3>1, <3>2 DEF Write
  <2>3. CASE UNCHANGED fs
    BY <1>10, <2>2, <2>3 DEF Write, diskVars
  <2>4. CASE \E n \in (fs[temp[u]].len + 1)..Size[got[u]] :
               fs' = [fs EXCEPT ![temp[u]] = Regular(got[u], n, "cache")]
    BY <1>10, <2>1, <2>2, <2>4, Holds, RegularFits DEF Write, DiskOK, WellFormed
  <2> QED
    BY <1>10, <2>3, <2>4 DEF Write
<1>11. ASSUME NEW u \in Updaters, Sync(u) PROVE TypeOK'
  <2>1. pc[u] \in TempSteps
    BY <1>11 DEF Sync, TempSteps
  <2>2. ProcessesOK'
    BY <1>11, AfterSteps DEF Sync, GoTo, ProcessesOK, Steps, EarlySteps, TempSteps
  <2>3. WellFormed(Regular(fs[temp[u]].db, fs[temp[u]].len, "disk"))
    BY <2>1, Holds, RegularFits DEF WellFormed, Entry
  <2> QED
    BY <1>11, <2>1, <2>2, <2>3, Holds DEF Sync, DiskOK, WellFormed
<1>12. ASSUME NEW u \in Updaters, CloseTemp(u) PROVE TypeOK'
  BY <1>12, AfterSteps DEF CloseTemp, GoTo, ProcessesOK, Steps, EarlySteps, TempSteps
<1>13. ASSUME NEW u \in Updaters, Validate(u) PROVE TypeOK'
  <2>1. CASE GoTo(u, "rename") /\ UNCHANGED <<mode, want, got, temp, report, diskVars>>
    BY <1>13, <2>1 DEF Validate, GoTo, ProcessesOK, Steps, EarlySteps, TempSteps
  <2>2. CASE Discard(u)
    BY <1>13, <2>2, DiscardOK DEF Validate, TempSteps
  <2> QED
    BY <1>13, <2>1, <2>2 DEF Validate
<1>14. ASSUME NEW u \in Updaters, Rename(u) PROVE TypeOK'
  <2>1. pc[u] \in TempSteps
    BY <1>14 DEF Rename, TempSteps
  <2>2. ProcessesOK'
    BY <1>14, ReturnOK DEF Rename, Verdicts
  <2>3. DiskOK'
    BY <1>14, <2>1, Holds, AbsentFits DEF Rename, DiskOK, WellFormed, Paths
  <2> QED
    BY <1>14, <2>2, <2>3 DEF Rename
<1>15. ASSUME NEW u \in Updaters, FailEarly(u) PROVE TypeOK'
  BY <1>15, ReturnOK DEF FailEarly, Verdicts
<1>16. ASSUME NEW u \in Updaters, FailLate(u) PROVE TypeOK'
  BY <1>16, DiscardOK DEF FailLate
<1>16a. ASSUME NEW u \in Updaters, CloseFails(u) PROVE TypeOK'
  BY <1>16a, DiscardOK DEF CloseFails, Discard, TempSteps
<1>17. ASSUME NEW u \in Updaters, Crash(u) PROVE TypeOK'
  <2>1. ProcessesOK'
    BY <1>17, ReturnOK DEF Crash, Verdicts
  <2>2. DiskOK' /\ PublicOK'
    BY <1>17, UpdateAssumption DEF Crash, Happens, DiskOK, PublicOK, ProcessesOK, WellFormed
  <2> QED
    BY <2>1, <2>2
<1>18. CASE PowerLoss
  <2>1. ProcessesOK' /\ PublicOK'
    BY <1>18, UpdateAssumption
       DEF PowerLoss, Happens, ProcessesOK, PublicOK, NoReport, Verdicts, Steps, EarlySteps, TempSteps
  <2>2. PICK f \in past : \E e \in Survivors(f), kept \in SUBSET Temps :
          /\ fs' = [p \in Paths |-> IF p = Dest THEN e ELSE
                                    IF p \in kept THEN fs[p] ELSE Absent]
          /\ past' = {e}
          /\ abandoned' = {t \in kept : fs[t].kind # "absent"}
    BY <1>18 DEF PowerLoss
  <2>3. \A e \in Survivors(f) : WellFormed(e)
    BY <2>2, SurvivorsFit DEF DiskOK
  <2>4. DiskOK'
    BY <2>2, <2>3, AbsentFits DEF DiskOK, WellFormed, Paths
  <2> QED
    BY <2>1, <2>4
<1>19. ASSUME NEW k \in Kinds \ {"regular"}, Outside(k) PROVE TypeOK'
  <2>1. DiskOK'
    BY <1>19, SpecialFits DEF Outside, DiskOK, WellFormed, Paths
  <2>2. PublicOK'
    BY <1>19, UpdateAssumption DEF Outside, Happens, PublicOK
  <2> QED
    BY <1>19, <2>1, <2>2 DEF Outside
<1>20. ASSUME NEW t \in Temps, CleanTemp(t) PROVE TypeOK'
  <2>1. DiskOK'
    BY <1>20, AbsentFits DEF CleanTemp, DiskOK, WellFormed, Paths
  <2> QED
    BY <1>20, <2>1 DEF CleanTemp
<1>21. ASSUME NEW c \in Published, PublishManifest(c) PROVE TypeOK'
  <2>1. PublicOK'
    BY <1>21, UpdateAssumption DEF PublishManifest, Happens, PublicOK
  <2> QED
    BY <1>21, <2>1 DEF PublishManifest
<1>22. ASSUME NEW c \in Published, PublishDatabase(c) PROVE TypeOK'
  <2>1. PublicOK'
    BY <1>22, UpdateAssumption DEF PublishDatabase, Happens, PublicOK
  <2> QED
    BY <1>22, <2>1 DEF PublishDatabase
<1>23. CASE UNCHANGED vars
  BY <1>23 DEF vars
<1> QED
  BY <1>1, <1>2, <1>3, <1>4, <1>5, <1>6, <1>7, <1>8, <1>9, <1>10, <1>11, <1>12, <1>13,
     <1>14, <1>15, <1>16, <1>16a, <1>17, <1>18, <1>19, <1>20, <1>21, <1>22, <1>23
     DEF Next, Program, Environment

(* The updaters' state keeps its type, and a running step holds what it     *)
(* uses (TypeOK).                                                           *)
THEOREM TypeCorrect == Spec => []TypeOK
  BY TypeInit, TypeNext, PTL DEF Spec

-----------------------------------------------------------------------------
(* The inductive invariant *)

(* What an updater has established when it reaches a step: the digest comes *)
(* from a manifest, the download matched it, Python parsed the bytes, and   *)
(* C's validator read the same bytes back.                                  *)
Established(u) ==
  /\ want[u] # None => want[u] \in approved
  /\ \/ pc[u] \in {"parse", "create"} \cup TempSteps
     \/ pc[u] = "inspect" /\ u \notin Python
     => got[u] = want[u]
  /\ u \in Python /\ pc[u] \in {"create"} \cup TempSteps
     => <<got[u], Size[got[u]]>> \in AcceptedPy
  /\ pc[u] = "rename" => <<got[u], Size[got[u]]>> \in AcceptedC \cup AcceptedPy

(* What its temporary file holds: it is its own, a prefix of the download   *)
(* while it is written, all of it then, and on disk once synced.            *)
Written(u) ==
  pc[u] \in TempSteps =>
    /\ fs[temp[u]].kind = "regular"
    /\ fs[temp[u]].db = got[u]
    /\ temp[u] \notin abandoned
    /\ pc[u] # "write" => fs[temp[u]].len = Size[got[u]]
    /\ pc[u] \in {"close", "validate", "rename"} => fs[temp[u]].on = "disk"

PastSound == fs[Dest] \in past /\ \A f \in past : Sound(f)

AbandonedPresent == \A t \in abandoned : fs[t].kind # "absent"

Inv ==
  /\ TypeOK
  /\ \A u \in Updaters : Established(u) /\ Written(u)
  /\ PastSound
  /\ TempsAccounted
  /\ AbandonedPresent
  /\ ReportTruthful

(* The inductive invariant holds at the start. *)
LEMMA InvInit == Init => Inv
<1> SUFFICES ASSUME Init PROVE Inv
  OBVIOUS
<1>1. TypeOK
  BY TypeInit
<1>2. PICK e \in {Absent, Whole(Original)} :
        fs = [p \in Paths |-> IF p = Dest THEN e ELSE Absent]
  BY DEF Init
<1>3. fs[Dest] = e /\ Sound(e)
  BY <1>2, UpdateAssumption DEF Init, Sound, Absent, Special, Whole, Regular, Paths
<1>4. PastSound
  BY <1>3 DEF Init, PastSound
<1>5. TempsAccounted
  BY <1>2, AbsentFits, UpdateAssumption DEF Init, TempsAccounted, Paths
<1> QED
  BY <1>1, <1>4, <1>5
     DEF Init, Inv, Established, Written, AbandonedPresent, ReportTruthful, NoReport, TempSteps

(* A step of u that leaves the disk and the publisher alone, and in which u *)
(* neither takes nor drops a temporary file, needs a proof for u only.      *)
LEMMA QuietStep ==
  ASSUME Inv, NEW u \in Updaters,
         UNCHANGED <<diskVars, approved, temp>>,
         \A v \in Updaters \ {u} : /\ pc'[v] = pc[v] /\ want'[v] = want[v]
                                   /\ got'[v] = got[v] /\ report'[v] = report[v],
         pc[u] \in TempSteps <=> pc'[u] \in TempSteps,
         TypeOK', Established(u)', Written(u)',
         report'[u].what \in {"updated", "current"} => Whole(report'[u].db) \in past
  PROVE  Inv'
<1>1. \A v \in Updaters : Established(v)' /\ Written(v)'
  <2> TAKE v \in Updaters
  <2>1. CASE v = u
    BY <2>1
  <2>2. CASE v # u
    BY <2>2 DEF Inv, Established, Written, diskVars
  <2> QED
    BY <2>1, <2>2
<1>2. PastSound' /\ AbandonedPresent'
  BY DEF Inv, PastSound, AbandonedPresent, Sound, diskVars
<1>3. TempsAccounted'
  BY DEF Inv, TempsAccounted, diskVars
<1>4. ReportTruthful'
  BY DEF Inv, ReportTruthful, diskVars
<1> QED
  BY <1>1, <1>2, <1>3, <1>4 DEF Inv

(* A return without a temporary file, with a true report. *)
LEMMA QuietReturn ==
  ASSUME Inv, TypeOK', NEW u \in Updaters, NEW v \in Verdicts, Return(u, v),
         pc[u] \notin TempSteps, UNCHANGED <<diskVars, approved>>,
         v \in {"updated", "current"} => Whole(want[u]) \in past
  PROVE  Inv'
<1>1. temp' = temp
  BY DEF Return, Inv, TypeOK, ProcessesOK
<1>2. \A w \in Updaters \ {u} : /\ pc'[w] = pc[w] /\ want'[w] = want[w]
                                /\ got'[w] = got[w] /\ report'[w] = report[w]
  BY DEF Return, GoTo, Inv, TypeOK, ProcessesOK
<1>3. pc'[u] = "idle" /\ want'[u] = None /\ report'[u] = [what |-> v, db |-> want[u]]
  BY DEF Return, GoTo, Inv, TypeOK, ProcessesOK
<1>4. Established(u)' /\ Written(u)'
  BY <1>3 DEF Established, Written, TempSteps
<1> QED
  BY <1>1, <1>2, <1>3, <1>4, QuietStep DEF TempSteps

(* A step from one step to the next, nothing else changing. *)
LEMMA QuietMove ==
  ASSUME Inv, TypeOK', NEW u \in Updaters, NEW step \in Steps, GoTo(u, step),
         UNCHANGED <<want, got, temp, report, diskVars, approved>>,
         pc[u] \in TempSteps <=> step \in TempSteps,
         Established(u)', Written(u)'
  PROVE  Inv' /\ pc'[u] = step
<1>1. /\ pc'[u] = step
      /\ \A v \in Updaters \ {u} : pc'[v] = pc[v]
  BY DEF GoTo, Inv, TypeOK, ProcessesOK
<1> QED
  BY <1>1, QuietStep DEF Inv, ReportTruthful

(* Giving up a temporary file: it is unlinked, or it is abandoned. *)
LEMMA DiscardInv ==
  ASSUME Inv, TypeOK', NEW u \in Updaters, pc[u] \in TempSteps, Discard(u),
         UNCHANGED approved
  PROVE  Inv'
<1> DEFINE t == temp[u]
<1>1. /\ t \in Temps /\ t # Dest
      /\ \A v \in Updaters : temp[v] = t => v = u
      /\ t \notin abandoned /\ fs[t].kind = "regular"
  BY Holds, UpdateAssumption DEF Inv, TempsAccounted, Written
<1>2. /\ pc'[u] = "idle" /\ want'[u] = None /\ temp'[u] = None
      /\ report'[u].what = "failed"
      /\ \A v \in Updaters \ {u} : /\ pc'[v] = pc[v] /\ want'[v] = want[v] /\ temp'[v] = temp[v]
                                   /\ got'[v] = got[v] /\ report'[v] = report[v]
  BY DEF Discard, Unlink, Abandon, Return, GoTo, Inv, TypeOK, ProcessesOK
<1>3. /\ \A p \in Paths \ {t} : fs'[p] = fs[p]
      /\ abandoned \subseteq abandoned'
      /\ \/ fs'[t].kind = "absent" /\ abandoned' = abandoned
         \/ fs' = fs /\ abandoned' = abandoned \cup {t}
  BY <1>1, AbsentFits DEF Discard, Unlink, Abandon, Inv, TypeOK, DiskOK, Paths
<1>4. \A v \in Updaters : Established(v)' /\ Written(v)'
  <2> TAKE v \in Updaters
  <2>1. CASE v = u
    BY <1>2, <2>1 DEF Established, Written, TempSteps
  <2>2. CASE v # u
    <3>1. pc[v] \in TempSteps => temp[v] \in Temps /\ temp[v] \in Paths \ {t}
      BY <2>2, <1>1, Holds DEF Inv
    <3> QED
      BY <1>2, <1>3, <2>2, <3>1, <1>1 DEF Inv, Established, Written
  <2> QED
    BY <2>1, <2>2
<1>5. PastSound'
  BY <1>1, <1>3 DEF Discard, Unlink, Abandon, Inv, PastSound, Sound, Paths
<1>6. AbandonedPresent'
  BY <1>1, <1>3 DEF Inv, AbandonedPresent, TypeOK, DiskOK, Paths
<1>7. TempsAccounted'
  BY <1>1, <1>2, <1>3 DEF Inv, TempsAccounted, Paths, TempSteps
<1>8. ReportTruthful'
  BY <1>2 DEF Discard, Unlink, Abandon, Inv, ReportTruthful
<1> QED
  BY <1>4, <1>5, <1>6, <1>7, <1>8 DEF Inv

(* Every step of an updater's program keeps the inductive invariant. *)
LEMMA InvProgram == ASSUME Inv, TypeOK', NEW u \in Updaters, Program(u) PROVE Inv'
<1> USE DEF Inv
<1>1. CASE FetchManifest(u)
  <2>1. PICK step \in {"current", "fetch"} : GoTo(u, step)
    BY <1>1 DEF FetchManifest
  <2>2. /\ pc'[u] \in {"current", "fetch"} /\ want'[u] = manifest
        /\ \A v \in Updaters \ {u} : pc'[v] = pc[v] /\ want'[v] = want[v]
    BY <1>1, <2>1 DEF FetchManifest, GoTo, TypeOK, ProcessesOK
  <2>3. Established(u)' /\ Written(u)'
    BY <1>1, <2>2 DEF FetchManifest, Established, Written, TempSteps, TypeOK, PublicOK, publicVars
  <2> QED
    BY <1>1, <2>2, <2>3, QuietStep DEF FetchManifest, TempSteps, publicVars, ReportTruthful
<1>2. CASE IsCurrent(u)
  <2>1. fs[Dest] = Whole(want[u])
    BY <1>2 DEF IsCurrent, PastSound, Sound, Whole, Regular, TypeOK, DiskOK, Paths, Entry
  <2> QED
    BY <1>2, <2>1, QuietReturn DEF IsCurrent, Verdicts, TempSteps, publicVars, PastSound
<1>3. CASE IsOutdated(u)
  <2>1. CASE Return(u, "available")
    BY <1>3, <2>1, QuietReturn DEF IsOutdated, Verdicts, TempSteps, publicVars
  <2>2. CASE mode[u] = "update" /\ GoTo(u, "inspect") /\ UNCHANGED <<mode, want, got, temp, report>>
    <3>1. u \in Python /\ pc'[u] = "inspect"
      BY <1>3, <2>2 DEF IsOutdated, GoTo, TypeOK, ProcessesOK
    <3>2. Established(u)' /\ Written(u)'
      BY <1>3, <2>2, <3>1 DEF IsOutdated, Established, Written, TempSteps, publicVars
    <3> QED
      BY <1>3, <2>2, <3>2, QuietMove DEF IsOutdated, Steps, EarlySteps, TempSteps, publicVars
  <2> QED
    BY <1>3, <2>1, <2>2 DEF IsOutdated
<1>4. CASE FetchDatabase(u)
  <2>1. /\ pc'[u] = "verify" /\ want'[u] = want[u]
        /\ \A v \in Updaters \ {u} : pc'[v] = pc[v] /\ got'[v] = got[v]
    BY <1>4, AfterSteps DEF FetchDatabase, GoTo, TypeOK, ProcessesOK
  <2>2. Established(u)' /\ Written(u)'
    BY <1>4, <2>1 DEF FetchDatabase, Established, Written, TempSteps, publicVars
  <2> QED
    BY <1>4, <2>1, <2>2, QuietStep DEF FetchDatabase, TempSteps, publicVars, ReportTruthful
<1>5. CASE VerifyHash(u)
  <2>1. CASE got[u] = want[u] /\ GoTo(u, After(u, "verify")) /\ UNCHANGED <<mode, want, got, temp, report>>
    <3>1. pc'[u] = After(u, "verify") /\ After(u, "verify") \in {"inspect", "parse"}
      BY <2>1, AfterSteps DEF GoTo, TypeOK, ProcessesOK
    <3>2. Established(u)' /\ Written(u)'
      BY <1>5, <2>1, <3>1 DEF VerifyHash, Established, Written, TempSteps, publicVars
    <3> QED
      BY <1>5, <2>1, <3>1, <3>2, QuietMove DEF VerifyHash, Steps, EarlySteps, TempSteps, publicVars
  <2>2. CASE Return(u, "failed")
    BY <1>5, <2>2, QuietReturn DEF VerifyHash, Verdicts, TempSteps, publicVars
  <2> QED
    BY <1>5, <2>1, <2>2 DEF VerifyHash
<1>6. CASE ParseDownload(u)
  <2>1. CASE /\ <<got[u], Size[got[u]]>> \in Accepted(u)
             /\ GoTo(u, "create") /\ UNCHANGED <<mode, want, got, temp, report>>
    <3>1. pc'[u] = "create"
      BY <2>1 DEF GoTo, TypeOK, ProcessesOK
    <3>2. Established(u)' /\ Written(u)'
      BY <1>6, <2>1, <3>1 DEF ParseDownload, Accepted, Established, Written, TempSteps, publicVars
    <3> QED
      BY <1>6, <2>1, <3>2, QuietMove DEF ParseDownload, Steps, EarlySteps, TempSteps, publicVars
  <2>2. CASE Return(u, "failed")
    BY <1>6, <2>2, QuietReturn DEF ParseDownload, Verdicts, TempSteps, publicVars
  <2> QED
    BY <1>6, <2>1, <2>2 DEF ParseDownload
<1>7. CASE Inspect(u)
  <2>1. CASE GoTo(u, After(u, "inspect")) /\ UNCHANGED <<mode, want, got, temp, report>>
    <3>1. /\ pc'[u] = After(u, "inspect") /\ After(u, "inspect") \in {"create", "fetch"}
          /\ u \in Python => pc'[u] = "fetch"
      BY <2>1, AfterSteps DEF GoTo, TypeOK, ProcessesOK
    <3>2. Established(u)' /\ Written(u)'
      BY <1>7, <2>1, <3>1 DEF Inspect, Established, Written, TempSteps, publicVars
    <3> QED
      BY <1>7, <2>1, <3>1, <3>2, QuietMove DEF Inspect, Steps, EarlySteps, TempSteps, publicVars
  <2>2. CASE Return(u, "failed")
    BY <1>7, <2>2, QuietReturn DEF Inspect, Verdicts, TempSteps, publicVars
  <2> QED
    BY <1>7, <2>1, <2>2 DEF Inspect
<1>8. CASE CreateTemp(u)
  <2>1. PICK t \in Temps : /\ fs[t].kind = "absent"
                           /\ fs' = [fs EXCEPT ![t] = Regular(got[u], 0, "cache")]
                           /\ temp' = [temp EXCEPT ![u] = t]
    BY <1>8 DEF CreateTemp
  <2>2. /\ pc[u] = "create" /\ pc'[u] = "write" /\ temp'[u] = t /\ t # Dest
        /\ \A v \in Updaters \ {u} : pc'[v] = pc[v] /\ temp'[v] = temp[v]
        /\ fs'[t] = Regular(got[u], 0, "cache")
        /\ \A p \in Paths \ {t} : fs'[p] = fs[p]
        /\ UNCHANGED <<want, got, report, past, abandoned, approved>>
    BY <1>8, <2>1, UpdateAssumption
       DEF CreateTemp, GoTo, TypeOK, ProcessesOK, DiskOK, Paths, publicVars
  <2>3. \A v \in Updaters : temp[v] # t
    <3> SUFFICES ASSUME NEW v \in Updaters, temp[v] = t PROVE FALSE
      OBVIOUS
    <3>1. pc[v] \in TempSteps
      BY UpdateAssumption DEF TypeOK, ProcessesOK
    <3> QED
      BY <2>1, <3>1 DEF Written
  <2>4. \A v \in Updaters : Established(v)' /\ Written(v)'
    <3> TAKE v \in Updaters
    <3>1. CASE v = u
      BY <2>1, <2>2, <3>1 DEF Established, Written, Regular, AbandonedPresent, TempSteps
    <3>2. CASE v # u
      <4>1. pc[v] \in TempSteps => temp[v] \in Paths \ {t}
        BY <2>3, Holds
      <4> QED
        BY <2>2, <3>2, <4>1 DEF Established, Written
    <3> QED
      BY <3>1, <3>2
  <2>5. PastSound' /\ AbandonedPresent' /\ ReportTruthful'
    BY <2>1, <2>2 DEF PastSound, AbandonedPresent, ReportTruthful, Sound, Regular, Paths, TypeOK, DiskOK
  <2>6. TempsAccounted'
    BY <2>2, <2>3 DEF TempsAccounted, Regular, Paths, TempSteps
  <2> QED
    BY <2>4, <2>5, <2>6
<1>9. CASE Write(u) \/ Sync(u)
  <2> DEFINE t == temp[u]
  <2>1. /\ pc[u] \in {"write", "sync"} /\ t \in Temps /\ t \in Paths /\ t # Dest
        /\ \A v \in Updaters : temp[v] = t => v = u
        /\ t \notin abandoned
        /\ fs[t].kind = "regular" /\ fs[t].db = got[u]
        /\ pc[u] = "sync" => fs[t].len = Size[got[u]]
    BY <1>9, Holds, UpdateAssumption DEF Write, Sync, TempsAccounted, Written, TempSteps
  <2>2. /\ \A v \in Updaters \ {u} : pc'[v] = pc[v]
        /\ \A p \in Paths \ {t} : fs'[p] = fs[p]
        /\ fs'[t].kind = "regular" /\ fs'[t].db = got[u]
        /\ pc'[u] \in {"write", "sync", "close"}
        /\ pc'[u] # "write" => fs'[t].len = Size[got[u]]
        /\ pc'[u] = "close" => fs'[t].on = "disk"
        /\ UNCHANGED <<want, got, temp, report, past, abandoned, approved>>
    <3>1. CASE Write(u)
      BY <2>1, <3>1, AfterSteps DEF Write, Regular, GoTo, TypeOK, ProcessesOK, DiskOK, publicVars
    <3>2. CASE Sync(u)
      BY <2>1, <3>2, AfterSteps DEF Sync, Regular, GoTo, TypeOK, ProcessesOK, DiskOK, publicVars
    <3> QED
      BY <1>9, <3>1, <3>2
  <2>3. \A v \in Updaters : Established(v)' /\ Written(v)'
    <3> TAKE v \in Updaters
    <3>1. CASE v = u
      BY <2>1, <2>2, <3>1 DEF Established, Written, TempSteps
    <3>2. CASE v # u
      <4>1. pc[v] \in TempSteps => temp[v] \in Paths \ {t}
        BY <2>1, <3>2, Holds
      <4> QED
        BY <2>2, <3>2, <4>1 DEF Established, Written
    <3> QED
      BY <3>1, <3>2
  <2>4. PastSound' /\ AbandonedPresent' /\ ReportTruthful'
    BY <2>1, <2>2 DEF PastSound, AbandonedPresent, ReportTruthful, Sound, Paths, TypeOK, DiskOK
  <2>5. TempsAccounted'
    BY <2>1, <2>2 DEF TempsAccounted, Paths, TempSteps
  <2> QED
    BY <2>3, <2>4, <2>5
<1>10. CASE CloseTemp(u)
  <2>1. pc'[u] = After(u, "close") /\ After(u, "close") \in {"validate", "rename"}
    BY <1>10, AfterSteps DEF CloseTemp, GoTo, TypeOK, ProcessesOK
  <2>2. Established(u)' /\ Written(u)'
    BY <1>10, <2>1, AfterSteps DEF CloseTemp, Established, Written, TempSteps, publicVars, diskVars
  <2> QED
    BY <1>10, <2>1, <2>2, QuietMove DEF CloseTemp, Steps, TempSteps, publicVars
<1>11. CASE Validate(u)
  <2>1. CASE /\ <<fs[temp[u]].db, fs[temp[u]].len>> \in Accepted(u)
             /\ GoTo(u, "rename")
             /\ UNCHANGED <<mode, want, got, temp, report, diskVars>>
    <3>1. pc[u] = "validate" /\ pc'[u] = "rename"
      BY <1>11, <2>1 DEF Validate, GoTo, TypeOK, ProcessesOK
    <3>2. Established(u)' /\ Written(u)'
      BY <1>11, <2>1, <3>1
         DEF Validate, Established, Written, Accepted, TempSteps, publicVars, diskVars
    <3> QED
      BY <1>11, <2>1, <3>1, <3>2, QuietMove DEF Validate, Steps, TempSteps, publicVars
  <2>2. CASE Discard(u)
    BY <1>11, <2>2, DiscardInv DEF Validate, TempSteps, publicVars
  <2> QED
    BY <1>11, <2>1, <2>2 DEF Validate
<1>12. CASE Rename(u)
  <2> DEFINE t == temp[u]
  <2>1. /\ pc[u] = "rename" /\ t \in Temps /\ t \in Paths /\ t # Dest
        /\ \A v \in Updaters : temp[v] = t => v = u
        /\ t \notin abandoned
        /\ got[u] = want[u] /\ want[u] \in approved
        /\ fs[t] = Whole(want[u])
        /\ <<want[u], Size[want[u]]>> \in AcceptedC \cup AcceptedPy
    <3>1. pc[u] = "rename" /\ pc[u] \in TempSteps
      BY <1>12 DEF Rename, TempSteps
    <3>2. /\ t \in Temps /\ t \in Paths /\ t # Dest /\ want[u] \in Contents
          /\ WellFormed(fs[t])
      BY <3>1, Holds, UpdateAssumption
    <3>3. /\ \A v \in Updaters : temp[v] = t => v = u
          /\ t \notin abandoned
      BY <3>1, <3>2, UpdateAssumption DEF TempsAccounted, Written
    <3>4. /\ got[u] = want[u] /\ want[u] \in approved
          /\ <<want[u], Size[want[u]]>> \in AcceptedC \cup AcceptedPy
      BY <3>1, <3>2, UpdateAssumption DEF Established
    <3>5. fs[t] = Whole(want[u])
      BY <3>1, <3>2, <3>4 DEF Written, WellFormed, Entry, Whole, Regular
    <3> QED
      BY <3>1, <3>2, <3>3, <3>4, <3>5
  <2>2. /\ pc'[u] = "idle" /\ want'[u] = None /\ temp'[u] = None
        /\ report'[u].db = want[u]
        /\ \A v \in Updaters \ {u} : /\ pc'[v] = pc[v] /\ want'[v] = want[v] /\ temp'[v] = temp[v]
                                     /\ got'[v] = got[v] /\ report'[v] = report[v]
        /\ \A p \in Paths \ {t, Dest} : fs'[p] = fs[p]
        /\ fs'[Dest] = fs[t] /\ fs'[t].kind = "absent"
        /\ past' = past \cup {fs[t]}
        /\ UNCHANGED <<abandoned, approved>>
    BY <1>12, <2>1, AbsentFits
       DEF Rename, Return, GoTo, TypeOK, ProcessesOK, DiskOK, Paths, publicVars
  <2>3. \A v \in Updaters : Established(v)' /\ Written(v)'
    <3> TAKE v \in Updaters
    <3>1. CASE v = u
      BY <2>2, <3>1 DEF Established, Written, TempSteps
    <3>2. CASE v # u
      <4>1. pc[v] \in TempSteps => temp[v] \in Paths \ {t, Dest}
        BY <2>1, <3>2, Holds, UpdateAssumption
      <4> QED
        BY <2>2, <3>2, <4>1 DEF Established, Written
    <3> QED
      BY <3>1, <3>2
  <2>4. Sound(fs[t])
    BY <2>1 DEF Sound, Whole, Regular
  <2>5. PastSound' /\ ReportTruthful'
    BY <2>1, <2>2, <2>4 DEF PastSound, ReportTruthful, Sound
  <2>6. TempsAccounted'
    BY <2>1, <2>2, UpdateAssumption DEF TempsAccounted, Paths, TempSteps
  <2>7. AbandonedPresent'
    BY <2>1, <2>2, UpdateAssumption DEF AbandonedPresent, TypeOK, DiskOK, Paths
  <2> QED
    BY <2>3, <2>5, <2>6, <2>7
<1>13. CASE FailEarly(u)
  BY <1>13, QuietReturn DEF FailEarly, Verdicts, TempSteps, publicVars
<1>14. CASE FailLate(u)
  BY <1>14, DiscardInv DEF FailLate, publicVars
<1>15. CASE CloseFails(u)
  BY <1>15, DiscardInv DEF CloseFails, Discard, TempSteps, publicVars
<1> QED
  BY <1>1, <1>2, <1>3, <1>4, <1>5, <1>6, <1>7, <1>8, <1>9, <1>10, <1>11, <1>12, <1>13, <1>14, <1>15
     DEF Program

(* Crashes, power losses, publications and changes by others keep the       *)
(* inductive invariant.                                                     *)
LEMMA InvEnvironment == ASSUME Inv, TypeOK', Environment PROVE Inv'
<1> USE DEF Inv
<1>1. ASSUME NEW u \in Updaters, Crash(u) PROVE Inv'
  <2>1. /\ pc'[u] = "idle" /\ want'[u] = None /\ temp'[u] = None
        /\ report'[u].what = "failed"
        /\ \A v \in Updaters \ {u} : /\ pc'[v] = pc[v] /\ want'[v] = want[v] /\ temp'[v] = temp[v]
                                     /\ got'[v] = got[v] /\ report'[v] = report[v]
        /\ UNCHANGED <<fs, past, approved>>
        /\ abandoned' = abandoned \cup ({temp[u]} \ {None})
    BY <1>1 DEF Crash, Return, GoTo, TypeOK, ProcessesOK
  <2>2. temp[u] # None => /\ pc[u] \in TempSteps
                          /\ fs[temp[u]].kind = "regular"
    BY DEF TypeOK, ProcessesOK, Written
  <2>3. \A v \in Updaters : Established(v)' /\ Written(v)'
    <3> TAKE v \in Updaters
    <3>1. CASE v = u
      BY <2>1, <3>1 DEF Established, Written, TempSteps
    <3>2. CASE v # u
      <4>1. pc[v] \in TempSteps => temp[v] # None /\ temp[v] \notin ({temp[u]} \ {None})
        BY <3>2, Holds, UpdateAssumption DEF TempsAccounted
      <4> QED
        BY <2>1, <3>2, <4>1 DEF Established, Written
    <3> QED
      BY <3>1, <3>2
  <2>4. PastSound' /\ AbandonedPresent' /\ ReportTruthful'
    BY <2>1, <2>2 DEF PastSound, AbandonedPresent, ReportTruthful, Sound
  <2>5. TempsAccounted'
    BY <2>1, <2>2, UpdateAssumption DEF TempsAccounted, TempSteps
  <2> QED
    BY <2>3, <2>4, <2>5
<1>2. CASE PowerLoss
  <2>0. PICK f \in past : \E e \in Survivors(f), kept \in SUBSET Temps :
          /\ fs' = [p \in Paths |-> IF p = Dest THEN e ELSE
                                    IF p \in kept THEN fs[p] ELSE Absent]
          /\ past' = {e}
          /\ abandoned' = {t \in kept : fs[t].kind # "absent"}
    BY <1>2 DEF PowerLoss
  <2>1. PICK e \in Survivors(f), kept \in SUBSET Temps :
          /\ fs' = [p \in Paths |-> IF p = Dest THEN e ELSE
                                    IF p \in kept THEN fs[p] ELSE Absent]
          /\ past' = {e}
          /\ abandoned' = {t \in kept : fs[t].kind # "absent"}
    BY <2>0
  <2>2. e = f
    <3>1. f.on = "disk"
      <4>1. CASE f.kind = "regular"
        BY <2>0, <4>1 DEF PastSound, Sound
      <4>2. CASE f.kind # "regular"
        <5>1. f = Special(f.kind)
          BY <2>0, <4>2 DEF TypeOK, DiskOK, WellFormed
        <5>2. Special(f.kind).on = "disk"
          BY DEF Special
        <5> QED
          BY <5>1, <5>2
      <4> QED
        BY <4>1, <4>2
    <3> QED
      BY <2>1, <3>1 DEF Survivors
  <2>3. PastSound'
    BY <1>2, <2>0, <2>1, <2>2 DEF PowerLoss, PastSound, Sound, Paths
  <2>4. AbandonedPresent'
    BY <2>1, UpdateAssumption DEF AbandonedPresent, Paths
  <2>5. TempsAccounted'
    BY <1>2, <2>1, AbsentFits, UpdateAssumption DEF PowerLoss, TempsAccounted, Paths
  <2>6. ReportTruthful' /\ \A v \in Updaters : Established(v)' /\ Written(v)'
    BY <1>2 DEF PowerLoss, ReportTruthful, NoReport, Established, Written, TempSteps
  <2> QED
    BY <2>3, <2>4, <2>5, <2>6
<1>3. ASSUME NEW k \in Kinds \ {"regular"}, Outside(k) PROVE Inv'
  <2>1. /\ fs'[Dest] = Special(k) /\ past' = past \cup {Special(k)}
        /\ \A p \in Temps : fs'[p] = fs[p] /\ p # Dest
        /\ UNCHANGED <<procVars, abandoned, approved>>
    BY <1>3, UpdateAssumption DEF Outside, TypeOK, DiskOK, Paths
  <2>2. \A v \in Updaters : Established(v)' /\ Written(v)'
    BY <2>1, Holds DEF Established, Written, procVars
  <2>3. PastSound' /\ ReportTruthful'
    BY <2>1, SpecialFits DEF PastSound, ReportTruthful, Sound, procVars
  <2>4. AbandonedPresent' /\ TempsAccounted'
    BY <2>1 DEF AbandonedPresent, TempsAccounted, procVars, TypeOK, DiskOK
  <2> QED
    BY <2>2, <2>3, <2>4
<1>4. ASSUME NEW t \in Temps, CleanTemp(t) PROVE Inv'
  <2>1. /\ t \in abandoned /\ t # Dest /\ fs'[t].kind = "absent"
        /\ \A p \in Paths \ {t} : fs'[p] = fs[p]
        /\ abandoned' = abandoned \ {t}
        /\ UNCHANGED <<procVars, past, approved>>
    BY <1>4, AbsentFits, UpdateAssumption DEF CleanTemp, TypeOK, DiskOK, Paths, publicVars
  <2>2. \A v \in Updaters : Established(v)' /\ Written(v)'
    <3> TAKE v \in Updaters
    <3>1. pc[v] \in TempSteps => temp[v] \in Paths \ {t}
      BY <2>1, Holds DEF Written
    <3> QED
      BY <2>1, <3>1 DEF Established, Written, procVars
  <2>3. PastSound' /\ ReportTruthful'
    BY <2>1 DEF PastSound, ReportTruthful, Sound, procVars, Paths
  <2>4. AbandonedPresent' /\ TempsAccounted'
    BY <2>1 DEF AbandonedPresent, TempsAccounted, procVars, TypeOK, DiskOK, Paths
  <2> QED
    BY <2>2, <2>3, <2>4
<1>5. ASSUME NEW c \in Published, PublishManifest(c) \/ PublishDatabase(c) PROVE Inv'
  <2>1. UNCHANGED <<procVars, diskVars>> /\ approved \subseteq approved'
    BY <1>5 DEF PublishManifest, PublishDatabase
  <2> QED
    BY <2>1 DEF Established, Written, PastSound, Sound, AbandonedPresent, TempsAccounted,
                ReportTruthful, procVars, diskVars
<1> QED
  BY <1>1, <1>2, <1>3, <1>4, <1>5 DEF Environment

(* Every step keeps the inductive invariant. *)
LEMMA InvNext == Inv /\ [Next]_vars => Inv'
<1> SUFFICES ASSUME Inv, [Next]_vars PROVE Inv'
  OBVIOUS
<1>1. TypeOK'
  BY TypeNext DEF Inv
<1>2. ASSUME NEW u \in Updaters, NEW m \in {"update", "check"}, Start(u, m) PROVE Inv'
  <2>1. /\ pc[u] = "idle" /\ pc'[u] = "manifest" /\ report'[u] = NoReport
        /\ \A v \in Updaters \ {u} : pc'[v] = pc[v] /\ report'[v] = report[v]
    BY <1>2 DEF Start, GoTo, Inv, TypeOK, ProcessesOK
  <2>2. Established(u)' /\ Written(u)'
    BY <1>2, <2>1 DEF Start, Inv, Established, Written, TempSteps, publicVars
  <2> QED
    BY <1>1, <1>2, <2>1, <2>2, QuietStep DEF Start, TempSteps, publicVars, NoReport
<1>3. CASE UNCHANGED vars
  BY <1>1, <1>3 DEF vars, Inv, Established, Written, PastSound, Sound, AbandonedPresent,
                    TempsAccounted, ReportTruthful, procVars, diskVars, publicVars
<1> QED
  BY <1>1, <1>2, <1>3, InvProgram, InvEnvironment DEF Next

(* Inv is an invariant of the updaters: the other safety theorems are parts *)
(* of it.                                                                   *)
THEOREM Invariance == Spec => []Inv
  BY InvInit, InvNext, PTL DEF Spec

(* Whatever happens, the destination holds a whole, durable database that a *)
(* manifest named and a parser accepted, or no regular file (AvUpdate's     *)
(* DestinationSound).                                                       *)
THEOREM DestinationAlwaysSound == Spec => []DestinationSound
<1>1. Inv => DestinationSound
  BY DEF Inv, PastSound, DestinationSound
<1> QED
  BY <1>1, Invariance, PTL

(* Only a killed run, a failed unlink or, in Python, a failed close leaves  *)
(* a temporary file behind, and two updaters never share one                *)
(* (TempsAccounted).                                                        *)
THEOREM TempsAlwaysAccounted == Spec => []TempsAccounted
<1>1. Inv => TempsAccounted
  BY DEF Inv
<1> QED
  BY <1>1, Invariance, PTL

(* "updated" and "current" are printed only of a database that was whole at *)
(* the destination (ReportTruthful).                                        *)
THEOREM ReportsAlwaysTruthful == Spec => []ReportTruthful
<1>1. Inv => ReportTruthful
  BY DEF Inv
<1> QED
  BY <1>1, Invariance, PTL

-----------------------------------------------------------------------------
(* The refinement *)

(* Every step of a program but its rename stutters for AtomicInstall. *)
LEMMA StutterProgram ==
  ASSUME Inv, NEW u \in Updaters, Program(u), ~Rename(u)
  PROVE  fs'[Dest] = fs[Dest] /\ past' = past /\ approved' = approved
<1> USE DEF Inv, TypeOK
<1>1. ASSUME pc[u] \in TempSteps, Discard(u) PROVE fs'[Dest] = fs[Dest] /\ past' = past
  BY <1>1, Holds, UpdateAssumption DEF Discard, Unlink, Abandon, DiskOK, Paths
<1>2. CASE CreateTemp(u)
  BY <1>2, UpdateAssumption DEF CreateTemp, DiskOK, Paths, publicVars
<1>3. CASE Write(u) \/ Sync(u)
  <2>1. temp[u] # Dest /\ temp[u] \in Paths
    BY <1>3, Holds, UpdateAssumption DEF Write, Sync, TempSteps
  <2>2. CASE Write(u)
    BY <2>1, <2>2 DEF Write, DiskOK, Paths, publicVars
  <2>3. CASE Sync(u)
    BY <2>1, <2>3 DEF Sync, DiskOK, Paths, publicVars
  <2> QED
    BY <1>3, <2>2, <2>3
<1>4. CASE Validate(u)
  BY <1>1, <1>4 DEF Validate, TempSteps, diskVars, publicVars
<1>5. CASE FailLate(u)
  BY <1>1, <1>5 DEF FailLate, publicVars
<1>7. CASE CloseFails(u)
  BY <1>7 DEF CloseFails, Abandon, publicVars
<1>6. CASE \/ FetchManifest(u) \/ IsCurrent(u) \/ IsOutdated(u) \/ FetchDatabase(u)
           \/ VerifyHash(u) \/ ParseDownload(u) \/ Inspect(u) \/ CloseTemp(u) \/ FailEarly(u)
  BY <1>6 DEF FetchManifest, IsCurrent, IsOutdated, FetchDatabase, VerifyHash, ParseDownload,
              Inspect, CloseTemp, FailEarly, diskVars, publicVars
<1> QED
  BY <1>2, <1>3, <1>4, <1>5, <1>6, <1>7 DEF Program

(* A rename is AtomicInstall's atomic installation. *)
LEMMA RenameInstalls ==
  ASSUME Inv, NEW u \in Updaters, Rename(u)
  PROVE  Abstract!Install(want[u]) /\ want[u] \in Contents
<1> USE DEF Inv, TypeOK
<1>1. /\ pc[u] = "rename" /\ pc[u] \in TempSteps
      /\ temp[u] \in Temps /\ temp[u] # Dest /\ want[u] \in Contents
      /\ WellFormed(fs[temp[u]]) /\ Size[want[u]] \in Nat
  BY Holds, UpdateAssumption DEF Rename, TempSteps
<1>2. /\ got[u] = want[u] /\ want[u] \in approved
      /\ <<want[u], Size[want[u]]>> \in AcceptedC \cup AcceptedPy
  BY <1>1, UpdateAssumption DEF Established
<1>3. /\ fs[temp[u]].kind = "regular" /\ fs[temp[u]].db = want[u]
      /\ fs[temp[u]].len = Size[want[u]] /\ fs[temp[u]].on = "disk"
  BY <1>1, <1>2 DEF Written
<1>4. Shown(fs[temp[u]]) = want[u]
  BY <1>3 DEF Shown
<1>5. fs'[Dest] = fs[temp[u]] /\ past' = past \cup {fs[temp[u]]} /\ approved' = approved
  BY <1>1 DEF Rename, DiskOK, Paths, publicVars
<1> QED
  BY <1>1, <1>2, <1>4, <1>5 DEF Abstract!Install

(* Every step of the updaters maps to a step of AtomicInstall or to a       *)
(* stutter.                                                                 *)
LEMMA StepRefines == Inv /\ [Next]_vars => [Abstract!Next]_(Abstract!vars)
<1> SUFFICES ASSUME Inv, [Next]_vars PROVE [Abstract!Next]_(Abstract!vars)
  OBVIOUS
<1> USE DEF Inv, TypeOK
<1>1. ASSUME fs'[Dest] = fs[Dest], past' = past, approved' = approved
      PROVE  UNCHANGED Abstract!vars
  BY <1>1 DEF Abstract!vars, Shown
<1>2. ASSUME NEW u \in Updaters, NEW m \in {"update", "check"}, Start(u, m)
      PROVE  UNCHANGED Abstract!vars
  BY <1>1, <1>2 DEF Start, diskVars, publicVars
<1>3. ASSUME NEW u \in Updaters, Program(u) PROVE [Abstract!Next]_(Abstract!vars)
  BY <1>1, <1>3, StutterProgram, RenameInstalls DEF Abstract!Next
<1>4. ASSUME NEW u \in Updaters, Crash(u) PROVE UNCHANGED Abstract!vars
  BY <1>1, <1>4 DEF Crash
<1>5. CASE PowerLoss
  <2>1. PICK f \in past : \E e \in Survivors(f) : fs'[Dest] = e /\ past' = {e}
    BY <1>5 DEF PowerLoss, Paths
  <2>2. f.on = "disk"
    <3>1. CASE f.kind = "regular"
      BY <2>1, <3>1 DEF PastSound, Sound
    <3>2. CASE f.kind # "regular"
      <4>1. f = Special(f.kind)
        BY <2>1, <3>2 DEF DiskOK, WellFormed
      <4>2. Special(f.kind).on = "disk"
        BY DEF Special
      <4> QED
        BY <4>1, <4>2
    <3> QED
      BY <3>1, <3>2
  <2>3. fs'[Dest] = f /\ past' = {f}
    BY <2>1, <2>2 DEF Survivors
  <2>4. Abstract!PowerLoss
    <3>1. Shown(f) \in {Shown(g) : g \in past}
      BY <2>1
    <3>2. {Shown(g) : g \in {f}} = {Shown(f)}
      OBVIOUS
    <3>3. Shown(fs'[Dest]) = Shown(f) /\ past' = {f} /\ approved' = approved
      BY <1>5, <2>3 DEF PowerLoss
    <3> QED
      BY <3>1, <3>2, <3>3 DEF Abstract!PowerLoss, Shown
  <2> QED
    BY <2>4 DEF Abstract!Next
<1>6. ASSUME NEW k \in Kinds \ {"regular"}, Outside(k) PROVE Abstract!Replace(k)
  <2>1. fs'[Dest] = Special(k) /\ past' = past \cup {Special(k)} /\ approved' = approved
    BY <1>6 DEF Outside, DiskOK, Paths
  <2>2. Shown(Special(k)) = k
    BY SpecialFits DEF Shown
  <2> QED
    BY <2>1, <2>2 DEF Abstract!Replace
<1>7. ASSUME NEW t \in Temps, CleanTemp(t) PROVE UNCHANGED Abstract!vars
  BY <1>1, <1>7, UpdateAssumption DEF CleanTemp, DiskOK, Paths, publicVars
<1>8. ASSUME NEW c \in Published, PublishManifest(c) PROVE Abstract!Approve(c)
  BY <1>8 DEF PublishManifest, diskVars, Abstract!Approve, Shown
<1>9. ASSUME NEW c \in Published, PublishDatabase(c) PROVE UNCHANGED Abstract!vars
  BY <1>1, <1>9 DEF PublishDatabase, diskVars
<1>10. CASE UNCHANGED vars
  BY <1>1, <1>10 DEF vars, diskVars, publicVars
<1> QED
  BY <1>2, <1>3, <1>4, <1>5, <1>6, <1>7, <1>8, <1>9, <1>10, UpdateAssumption
     DEF Next, Environment, Abstract!Next

(* The initial states map to initial states of AtomicInstall. *)
LEMMA InitRefines == Init => Abstract!Init
<1> SUFFICES ASSUME Init PROVE Abstract!Init
  OBVIOUS
<1>1. PICK e \in {Absent, Whole(Original)} :
        fs = [p \in Paths |-> IF p = Dest THEN e ELSE Absent]
  BY DEF Init
<1>2. fs[Dest] = e /\ past = {e}
  BY <1>1 DEF Init, Paths
<1>3. Shown(e) \in Contents \cup (Kinds \ {"regular"})
  <2>1. CASE e = Absent
    BY <2>1, AbsentFits DEF Shown, Kinds
  <2>2. CASE e = Whole(Original)
    BY <2>2, UpdateAssumption DEF Shown, Whole, Regular
  <2> QED
    BY <2>1, <2>2
<1>4. approved \in SUBSET Contents
  BY UpdateAssumption DEF Init
<1> QED
  BY <1>2, <1>3, <1>4 DEF Abstract!Init

(* The updaters implement the atomic replacement of the destination         *)
(* (InstallsAtomically, that is AtomicInstall!Spec under the mapping Shown).*)
THEOREM Refinement == Spec => InstallsAtomically
<1>1. Spec => []Inv
  BY Invariance
<1> QED
  BY <1>1, InitRefines, StepRefines, PTL DEF Spec, InstallsAtomically, Abstract!Spec
=============================================================================
