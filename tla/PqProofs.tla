------------------------------ MODULE PqProofs ------------------------------
(* Proofs about PqRun, for any budget, output and capacity of the pipe; and *)
(* about PqKey: a run of OpenSSL keeps what is proved of it in the programs *)
(* that make several, and the two files of a key are whole.                 *)
EXTENDS PqKey, TLAPS

(***************************************************************************)
(* PqRun                                                                   *)
(***************************************************************************)

(* The child has not been reaped. *)
Unreaped == child \in {"forked", "running", "zombie"}

(* Before the fork there is nothing. *)
AtStart ==
  pc = "start" => /\ child = "none" /\ status = "none" /\ desc = "none"
                  /\ writers = {} /\ pipe = 0 /\ written = 0 /\ length = 0
                  /\ ~eof /\ ~done /\ ~cut /\ result = "none" /\ owner = "free"

(* Until it gives up or collects the child, the runner holds it; what was   *)
(* written is in the pipe or in the output.                                 *)
InLoop ==
  pc \in {"parent", "check", "io", "collect"} =>
    /\ Unreaped /\ ~done /\ ~cut /\ result = "none"
    /\ length + pipe = written

(* Nobody is left to write when the end of file has been read. *)
AtEof ==
  /\ eof => writers = {} /\ pipe = 0
  /\ pc = "collect" => eof

(* A PID is reserved by a child that is not reaped, and by its group. *)
Reserved ==
  /\ Unreaped => owner = "child"
  /\ desc = "running" /\ grouped => owner = "child"

(* How far the child's end has been taken note of. *)
ChildEnds ==
  /\ child \in {"none", "forked", "running"} => status = "none"
  /\ child \in {"zombie", "reaped"} => status # "none"
  /\ status = "killed" => cut
  /\ done => child = "reaped"
  /\ child = "none" => desc = "none"
  /\ child = "none" => pc \in {"start", "returned"} /\ ~cut
  /\ child = "reaped" => done

(* The runner gives up for a reason; C has not collected the child then.    *)
GivingUp ==
  /\ pc \in {"kill", "wait"} =>
       /\ fault \/ expired \/ written > Budget \/ status = "bad"
       /\ child # "none" /\ result = "none"
       /\ runner = "c" => ~done
  /\ pc = "kill" => ~cut
  /\ pc = "wait" => cut
  /\ cut => /\ child \in {"zombie", "reaped"}
            /\ ~(desc = "running" /\ grouped)

Inv ==
  /\ TypeOK /\ AtStart /\ InLoop /\ AtEof /\ Reserved /\ ChildEnds /\ GivingUp
  /\ NeverSignalsStranger /\ SuccessIsComplete /\ FailureHasCause /\ NothingLeftBehind

-----------------------------------------------------------------------------

(* At the start nothing has been written, and no process is there. *)
LEMMA InitInv == Init => Inv
<1> USE DEF Init
<1>1. ASSUME Init PROVE TypeOK
  <2>1. length \in 0..Budget /\ pipe \in 0..PipeCap /\ written \in 0..MaxOutput
    BY <1>1, PqAssumption
  <2>2. runner \in Runners /\ writers \in SUBSET {"parent", "child", "desc"}
    BY <1>1
  <2> QED
    BY <1>1, <2>1, <2>2 DEF TypeOK
<1>2. Init => AtStart /\ InLoop /\ AtEof
  BY DEF AtStart, InLoop, AtEof
<1>3. Init => Reserved /\ ChildEnds /\ GivingUp
  BY DEF Reserved, ChildEnds, GivingUp, Unreaped
<1>4. Init => NeverSignalsStranger /\ SuccessIsComplete /\ FailureHasCause /\ NothingLeftBehind
  BY DEF NeverSignalsStranger, SuccessIsComplete, FailureHasCause, NothingLeftBehind
<1> QED
  BY <1>1, <1>2, <1>3, <1>4 DEF Inv

(* The runner's own steps. *)
LEMMA RunnerStepInv == ASSUME Inv, RunnerStep PROVE Inv'
<1> USE PqAssumption
    DEF Inv, TypeOK, AtStart, InLoop, AtEof, Reserved, ChildEnds, GivingUp, Unreaped,
        NeverSignalsStranger, SuccessIsComplete, FailureHasCause, NothingLeftBehind,
        runnerVars, childVars, kernelVars
<1>1. CASE Fork
  BY <1>1 DEF Fork
<1>2. CASE CloseWriteEnd
  BY <1>2 DEF CloseWriteEnd
<1>3. CASE Check
  BY <1>3 DEF Check, RunnerGoes
<1>4. CASE Read
  BY <1>4 DEF Read
<1>5. CASE ReadEof
  BY <1>5 DEF ReadEof
<1>6. CASE NothingToRead
  <2>1. CASE runner = "c" /\ RunnerGoes("check")
    BY <1>6, <2>1 DEF NothingToRead, RunnerGoes
  <2>2. CASE expired /\ RunnerGoes("kill")
    BY <1>6, <2>2 DEF NothingToRead, RunnerGoes
  <2> QED
    BY <1>6, <2>1, <2>2 DEF NothingToRead
<1>7. CASE NotExited
  <2>1. CASE runner = "c" /\ RunnerGoes("check")
    BY <1>7, <2>1 DEF NotExited, RunnerGoes
  <2>2. CASE expired /\ RunnerGoes("kill")
    BY <1>7, <2>2 DEF NotExited, RunnerGoes
  <2> QED
    BY <1>7, <2>1, <2>2 DEF NotExited
<1>8. CASE Collect
  BY <1>8 DEF Collect, Reap
<1>9. CASE Kill
  <2>1. TypeOK'
    BY <1>9 DEF Kill
  <2>2. AtStart' /\ InLoop' /\ AtEof' /\ GivingUp'
    BY <1>9 DEF Kill
  <2>3. Reserved'
    BY <1>9 DEF Kill
  <2>4. ChildEnds'
    BY <1>9 DEF Kill
  <2>5. NeverSignalsStranger' /\ SuccessIsComplete' /\ FailureHasCause' /\ NothingLeftBehind'
    BY <1>9 DEF Kill
  <2> QED
    BY ONLY <2>1, <2>2, <2>3, <2>4, <2>5 DEF Inv
<1>10. CASE WaitChild
  BY <1>10 DEF WaitChild, Reap
<1> QED
  BY <1>1, <1>2, <1>3, <1>4, <1>5, <1>6, <1>7, <1>8, <1>9, <1>10 DEF RunnerStep

(* A call of the runner fails. *)
LEMMA RunnerFailsInv == ASSUME Inv, RunnerFails PROVE Inv'
<1> USE PqAssumption
    DEF Inv, TypeOK, AtStart, InLoop, AtEof, Reserved, ChildEnds, GivingUp, Unreaped,
        NeverSignalsStranger, SuccessIsComplete, FailureHasCause, NothingLeftBehind,
        runnerVars, childVars, kernelVars
<1>1. CASE ForkFails
  BY <1>1 DEF ForkFails
<1>2. CASE IOFails
  BY <1>2 DEF IOFails
<1> QED
  BY <1>1, <1>2 DEF RunnerFails

(* The child, its descendant, the kernel and the clock. *)
LEMMA OutsideInv == ASSUME Inv, Outside PROVE Inv'
<1> USE PqAssumption
    DEF Inv, TypeOK, AtStart, InLoop, AtEof, Reserved, ChildEnds, GivingUp, Unreaped,
        NeverSignalsStranger, SuccessIsComplete, FailureHasCause, NothingLeftBehind,
        runnerVars, childVars, kernelVars
<1>1. CASE Exec
  <2>1. CASE child' = "running" /\ UNCHANGED <<status, writers>>
    BY <1>1, <2>1 DEF Exec
  <2>2. CASE child' = "zombie" /\ status' = "bad" /\ writers' = writers \ {"child"}
    BY <1>1, <2>2 DEF Exec
  <2> QED
    BY <1>1, <2>1, <2>2 DEF Exec
<1>2. CASE ChildForks
  <2>1. TypeOK' /\ AtStart' /\ InLoop' /\ AtEof'
    BY <1>2 DEF ChildForks
  <2>2. Reserved' /\ ChildEnds' /\ GivingUp'
    BY <1>2 DEF ChildForks
  <2>3. NeverSignalsStranger' /\ SuccessIsComplete' /\ FailureHasCause' /\ NothingLeftBehind'
    BY <1>2 DEF ChildForks
  <2> QED
    BY ONLY <2>1, <2>2, <2>3 DEF Inv
<1>3. CASE ChildExits
  BY <1>3 DEF ChildExits
<1>4. CASE DescExits
  BY <1>4 DEF DescExits
<1>5. CASE ReusePid
  BY <1>5 DEF ReusePid
<1>6. CASE Tick
  BY <1>6 DEF Tick
<1>7. ASSUME NEW p \in {"child", "desc"}, WriteOutput(p) PROVE Inv'
  BY <1>7 DEF WriteOutput, Alive
<1>8. ASSUME NEW p \in {"child", "desc"}, CloseOutput(p) PROVE Inv'
  BY <1>8 DEF CloseOutput, Alive
<1> QED
  BY <1>1, <1>2, <1>3, <1>4, <1>5, <1>6, <1>7, <1>8 DEF Outside

(* Inv is an invariant of the runner, in C and in Python. *)
THEOREM RunnerInvariance == Spec => []Inv
<1>1. Inv /\ UNCHANGED vars => Inv'
  BY DEF vars, runnerVars, childVars, kernelVars, Inv, TypeOK, AtStart, InLoop, AtEof, Reserved,
         ChildEnds, GivingUp, Unreaped, NeverSignalsStranger, SuccessIsComplete, FailureHasCause,
         NothingLeftBehind
<1>2. Inv /\ [Next]_vars => Inv'
  BY <1>1, RunnerStepInv, RunnerFailsInv, OutsideInv DEF Next
<1> QED
  BY <1>2, InitInv, PTL DEF Spec

(* The C program never signals a process that is not its own. *)
THEOREM StrangersSafe == Spec => []NeverSignalsStranger
  BY RunnerInvariance, PTL DEF Inv

(* Success means all of the output, and an exit status 0. *)
THEOREM SuccessAlwaysComplete == Spec => []SuccessIsComplete
  BY RunnerInvariance, PTL DEF Inv

(* A failure has one of the causes that the program may fail for. *)
THEOREM FailureAlwaysCaused == Spec => []FailureHasCause
  BY RunnerInvariance, PTL DEF Inv

(* The runner returns with its child reaped, and its group dead if it gave  *)
(* the child up.                                                            *)
THEOREM NothingEverLeftBehind == Spec => []NothingLeftBehind
  BY RunnerInvariance, PTL DEF Inv

(***************************************************************************)
(* PqKey                                                                   *)
(***************************************************************************)

KeyVars == <<vars, keyVars>>

KeyTypeOK ==
  /\ stage \in {"mkdir", "gen", "create private", "write private", "reopen", "pub",
                "create public", "write public", "list", "done"}
  /\ files \in [Names -> Holds] /\ keyFd \in Holds
  /\ exit \in {"none", "ok", "failed"}
  /\ planted \in SUBSET Names

(* What is saved is the output of a run that succeeded. *)
Saved == stage \in {"create private", "write private", "create public", "write public"} =>
           result = "ok"

(* A part of a file is only there while it is written, or has failed to be. *)
Parts ==
  /\ files["private.pem"] = "part" => exit = "failed" \/ stage = "write private"
  /\ files["public.pem"] = "part" => exit = "failed" \/ stage = "write public"
  /\ keyFd # "part"
  /\ exit # "none" => stage = "done"

(* What is there if nobody else has touched the directory. *)
Undisturbed ==
  changes = Changes =>
    /\ stage \in {"mkdir", "gen", "create private"} => files["private.pem"] = "absent"
    /\ stage = "write private" => files["private.pem"] = "part"
    /\ stage \in {"reopen", "pub", "create public", "write public"} => files["private.pem"] = "whole"
    /\ stage \in {"pub", "create public", "write public"} => keyFd = "whole"
    /\ stage = "write public" => files["public.pem"] = "part"
    /\ exit = "ok" /\ listed = 0 => \A n \in Names : files[n] = "whole"

Lists == /\ stage = "list" => exit = "none"
         /\ changes \in Nat /\ changes <= Changes /\ listed \in Nat

KeyInv == /\ Inv /\ KeyTypeOK /\ Saved /\ Parts /\ Undisturbed /\ Lists /\ NeverOverwrites

-----------------------------------------------------------------------------

(* Both programs begin in KeyInv. *)
LEMMA KeyInitInv == KeyInit => KeyInv
<1> SUFFICES ASSUME KeyInit PROVE KeyInv
  OBVIOUS
<1>1. Inv
  BY InitInv DEF KeyInit
<1>2. files["private.pem"] = "absent" /\ files["public.pem"] = "absent"
  BY DEF KeyInit, Names
<1>3. KeyTypeOK
  BY DEF KeyInit, KeyTypeOK, Names, Holds
<1>4. Saved /\ Parts /\ Undisturbed
  BY <1>2 DEF KeyInit, Saved, Parts, Undisturbed
<1>5. Lists /\ NeverOverwrites
  BY KeyAssumption DEF KeyInit, Lists, NeverOverwrites
<1> QED
  BY <1>1, <1>3, <1>4, <1>5 DEF KeyInv

(* A program that starts another run is where PqRun begins. *)
LEMMA StartsRunInv == ASSUME Inv, NEW s, StartsRun(s) PROVE Inv'
<1> USE DEF StartsRun
<1>1. TypeOK'
  <2>1. length' \in 0..Budget /\ pipe' \in 0..PipeCap /\ written' \in 0..MaxOutput
    BY PqAssumption
  <2>2. runner' \in Runners /\ writers' \in SUBSET {"parent", "child", "desc"}
    BY DEF Inv, TypeOK
  <2> QED
    BY <2>1, <2>2 DEF TypeOK
<1>2. AtStart' /\ InLoop' /\ AtEof'
  BY DEF AtStart, InLoop, AtEof
<1>3. Reserved' /\ ChildEnds' /\ GivingUp'
  BY DEF Reserved, ChildEnds, GivingUp, Unreaped
<1>4. NeverSignalsStranger' /\ SuccessIsComplete' /\ FailureHasCause' /\ NothingLeftBehind'
  BY DEF NeverSignalsStranger, SuccessIsComplete, FailureHasCause, NothingLeftBehind
<1> QED
  BY <1>1, <1>2, <1>3, <1>4 DEF Inv

(* A step that leaves the run alone keeps the runner's invariant. *)
LEMMA StutterInv == Inv /\ UNCHANGED vars => Inv'
  BY DEF vars, runnerVars, childVars, kernelVars, Inv, TypeOK, AtStart, InLoop, AtEof, Reserved,
         ChildEnds, GivingUp, Unreaped, NeverSignalsStranger, SuccessIsComplete, FailureHasCause,
         NothingLeftBehind

(* Whatever the program does, each of its runs keeps the runner's invariant. *)
LEMMA RunKeepsInv == ASSUME Inv, [KeyNext]_KeyVars PROVE Inv'
<1>1. CASE KeyStep
  <2>1. CASE UNCHANGED vars
    BY <2>1, StutterInv
  <2>2. CASE StartsRun("pub") \/ StartsRun("list")
    BY <2>2, StartsRunInv
  <2> QED
    BY <1>1, <2>1, <2>2 DEF KeyStep, MakeDir, RunReturns, Create, WriteFile, Reopen, ListReturns
<1>2. CASE Others
  BY <1>2, StutterInv DEF Others
<1>3. CASE Running
  BY <1>3, RunnerStepInv DEF Running
<1>4. CASE RunnerFails
  BY <1>4, RunnerFailsInv
<1>5. CASE Outside
  BY <1>5, OutsideInv
<1>6. CASE UNCHANGED KeyVars
  BY <1>6, StutterInv DEF KeyVars
<1> QED
  BY <1>1, <1>2, <1>3, <1>4, <1>5, <1>6 DEF KeyNext

(* A step of a run, of its child or of the kernel changes no file, and the  *)
(* result of a run that is over stays.                                      *)
LEMMA RunKeepsFiles ==
  ASSUME KeyInv, UNCHANGED keyVars, (InRun /\ (RunnerStep \/ RunnerFails)) \/ Outside \/ UNCHANGED vars
  PROVE  KeyTypeOK' /\ Saved' /\ Parts' /\ Undisturbed' /\ Lists' /\ NeverOverwrites'
<1>1. ~InRun => UNCHANGED result
  BY DEF Outside, Exec, ChildForks, WriteOutput, CloseOutput, ChildExits, DescExits, ReusePid, Tick,
         runnerVars, vars
<1>2. Saved'
  BY <1>1 DEF KeyInv, Saved, keyVars, InRun
<1> QED
  BY <1>2 DEF KeyInv, KeyTypeOK, Parts, Undisturbed, Lists, NeverOverwrites, keyVars

-----------------------------------------------------------------------------
(* The steps of the programs *)

(* What a run's processes have written is a number. *)
LEMMA InvWritten == Inv => written \in Nat
<1>1. Inv => written \in 0..MaxOutput
  BY DEF Inv, TypeOK
<1> QED
  BY <1>1, PqAssumption

(* The programs' own steps keep KeyInv. *)
LEMMA KeyStepInv ==
  ASSUME KeyInv, KeyStep
  PROVE  KeyTypeOK' /\ Saved' /\ Parts' /\ Undisturbed' /\ Lists' /\ NeverOverwrites'
<1> USE KeyAssumption
    DEF KeyInv, KeyTypeOK, Saved, Parts, Undisturbed, Lists, NeverOverwrites, Names, Holds, Ends,
        vars, runnerVars, childVars, kernelVars
<1>1. CASE MakeDir
  BY <1>1 DEF MakeDir
<1>2. CASE RunReturns
  <2>1. CASE Ends("failed")
    BY <1>2, <2>1 DEF RunReturns
  <2>2. CASE stage = "gen" /\ result = "ok" /\ stage' = "create private" /\ UNCHANGED exit
    BY <1>2, <2>2 DEF RunReturns
  <2>3. CASE stage = "pub" /\ result = "ok" /\ stage' = "create public" /\ UNCHANGED exit
    BY <1>2, <2>3 DEF RunReturns
  <2>4. stage \in {"gen", "pub"} /\ (~Ends("failed") => result = "ok" /\ UNCHANGED exit)
    BY <1>2 DEF RunReturns
  <2>5. ~Ends("failed") =>
          stage' = [gen |-> "create private", pub |-> "create public"][stage]
    BY <1>2 DEF RunReturns
  <2>6. [gen |-> "create private", pub |-> "create public"]["gen"] = "create private"
    OBVIOUS
  <2>7. [gen |-> "create private", pub |-> "create public"]["pub"] = "create public"
    OBVIOUS
  <2>8. CASE ~Ends("failed") /\ stage = "gen"
    BY <2>2, <2>4, <2>5, <2>6, <2>8
  <2>9. CASE ~Ends("failed") /\ stage = "pub"
    BY <2>3, <2>4, <2>5, <2>7, <2>9
  <2> QED
    BY ONLY <2>1, <2>4, <2>8, <2>9
<1>3. CASE Create
  <2>1. CASE Ends("failed")
    <3>1. stage \in DOMAIN Saving /\ UNCHANGED <<vars, keyFd, listed, changes, planted>>
      BY <1>3 DEF Create
    <3>2. Saving[stage] # "done" /\ stage # "list" /\ stage' = "done" /\ exit' = "failed"
      BY <2>1, <3>1 DEF Saving
    <3>3. UNCHANGED files
      BY <1>3, <3>2 DEF Create
    <3> QED
      BY <3>1, <3>2, <3>3
  <2>2. CASE stage = "create private" /\ ~Ends("failed")
    <3>1. stage' = "write private" /\ NameOf = "private.pem"
      BY <1>3, <2>2 DEF Create, Saving, NameOf
    <3> QED
      BY <1>3, <2>2, <3>1 DEF Create
  <2>3. CASE stage = "create public" /\ ~Ends("failed")
    <3>1. stage' = "write public" /\ NameOf = "public.pem"
      BY <1>3, <2>3 DEF Create, Saving, NameOf
    <3> QED
      BY <1>3, <2>3, <3>1 DEF Create
  <2> QED
    BY <1>3, <2>1, <2>2, <2>3 DEF Create, Saving
<1>4. CASE WriteFile
  <2>1. result = "ok" /\ SuccessIsComplete
    BY <1>4 DEF WriteFile, Inv
  <2>2. length = written /\ status = "ok"
    BY <2>1 DEF SuccessIsComplete
  <2>3. written \in Nat
    BY InvWritten
  <2>4. ~(length < written)
    BY ONLY <2>2, <2>3
  <2>5. Printed = IF stage = "write private" THEN "whole" ELSE keyFd
    BY <2>2, <2>4 DEF Printed
  <2> QED
    BY <1>4, <2>5 DEF WriteFile, NameOf
<1>5. CASE Reopen
  BY <1>5 DEF Reopen, StartsRun
<1>6. CASE ListReturns
  <2>1. listed' \in Nat
    BY <1>6 DEF ListReturns
  <2>2. CASE Ends("failed")
    BY <1>6, <2>1, <2>2 DEF ListReturns
  <2>3. CASE result = "ok" /\ listed' = 3 /\ Ends("ok")
    BY <1>6, <2>1, <2>3 DEF ListReturns
  <2>4. CASE StartsRun("list") /\ UNCHANGED exit
    BY <1>6, <2>1, <2>4 DEF ListReturns, StartsRun
  <2> QED
    BY <1>6, <2>2, <2>3, <2>4 DEF ListReturns
<1> QED
  BY <1>1, <1>2, <1>3, <1>4, <1>5, <1>6 DEF KeyStep

(* Others, who put their files there or remove some. *)
LEMMA OthersInv ==
  ASSUME KeyInv, Others
  PROVE  KeyTypeOK' /\ Saved' /\ Parts' /\ Undisturbed' /\ Lists' /\ NeverOverwrites'
<1>1. changes' \in Nat /\ changes' < Changes
  BY KeyAssumption DEF Others, KeyInv, Lists
<1>2. PICK n \in Names, put \in {"absent", "other"} :
        /\ files' = [files EXCEPT ![n] = put]
        /\ planted' = IF put = "other" THEN planted \cup {n} ELSE planted \ {n}
  BY DEF Others
<1>3. KeyTypeOK' /\ NeverOverwrites'
  BY <1>2 DEF Others, KeyInv, KeyTypeOK, NeverOverwrites, Names, Holds
<1>4. Parts'
  BY <1>2 DEF Others, KeyInv, KeyTypeOK, Parts, Names
<1>5. Undisturbed'
  <2>1. changes' # Changes
    BY ONLY <1>1, KeyAssumption
  <2> QED
    BY ONLY <2>1 DEF Undisturbed
<1>6. Lists'
  BY <1>1, KeyAssumption DEF Others, KeyInv, Lists
<1>7. Saved'
  BY DEF Others, KeyInv, Saved, vars, runnerVars
<1> QED
  BY <1>3, <1>4, <1>5, <1>6, <1>7

(* KeyInv is an invariant of pqkey and pqcheck. *)
THEOREM KeyInvariance == KeySpec => []KeyInv
<1>1. ASSUME KeyInv, [KeyNext]_KeyVars PROVE KeyInv'
  <2>1. Inv'
    BY <1>1, RunKeepsInv DEF KeyInv
  <2>2. KeyTypeOK' /\ Saved' /\ Parts' /\ Undisturbed' /\ Lists' /\ NeverOverwrites'
    BY <1>1, KeyStepInv, OthersInv, RunKeepsFiles DEF KeyNext, Running, KeyVars
  <2> QED
    BY <2>1, <2>2 DEF KeyInv
<1> QED
  BY <1>1, KeyInitInv, PTL DEF KeySpec, KeyVars

(* No process of another is signalled by the C programs that run OpenSSL,   *)
(* in whichever run.                                                        *)
THEOREM KeyStrangersSafe == KeySpec => []NeverSignalsStranger
  BY KeyInvariance, PTL DEF KeyInv, Inv

(* No run is taken for a success that has not returned all its output. *)
THEOREM KeyRunsComplete == KeySpec => []SuccessIsComplete
  BY KeyInvariance, PTL DEF KeyInv, Inv

(* A run that fails has failed for one of the reasons the programs give. *)
THEOREM KeyFailuresHaveCause == KeySpec => []FailureHasCause
  BY KeyInvariance, PTL DEF KeyInv, Inv

(* No run that is over leaves its child, or the group of one it gave up. *)
THEOREM KeyRunsLeaveNothing == KeySpec => []NothingLeftBehind
  BY KeyInvariance, PTL DEF KeyInv, Inv

(* No file of another process is written over, whenever it is put there. *)
THEOREM NeverAnyOverwritten == KeySpec => []NeverOverwrites
  BY KeyInvariance, PTL DEF KeyInv

(* A key pair that pqkey calls created is whole, unless others changed it,  *)
(* and no part of one is left by anything but a failure.                    *)
THEOREM KeyPairAlwaysWhole == KeySpec => []KeyPairWhole
<1>1. KeyInv => KeyPairWhole
  BY DEF KeyInv, Parts, Undisturbed, KeyPairWhole
<1> QED
  BY <1>1, KeyInvariance, PTL
=============================================================================
