------------------------------- MODULE PqKey -------------------------------
(***************************************************************************)
(* The programs on top of the OpenSSL runner: pqkey (c/pqkey.c, pqkey.py), *)
(* which generates a key, saves it in a directory it has just made, reads  *)
(* it back by its name for a second run and saves what that run prints;    *)
(* and pqcheck (c/pqcheck.c, pqcheck.py), which runs three listings.  The  *)
(* directory is for its owner only, but the owner's other processes may    *)
(* put files there, or remove them.  A process of one run that is still    *)
(* alive has no part in the next.                                          *)
(***************************************************************************)
EXTENDS PqRun

CONSTANTS Changes  \* bound on what others do in the directory

ASSUME KeyAssumption == Changes \in Nat

VARIABLES stage,    \* what the program is at
          files,    \* what the names in the directory hold
          keyFd,    \* what the reopened private.pem holds
          listed,   \* listings pqcheck has printed
          exit,     \* "none", "ok" or "failed"
          changes,  \* changes others may still make
          planted   \* names that hold what others put there

keyVars == <<stage, files, keyFd, listed, exit, changes, planted>>

Names == {"private.pem", "public.pem"}

(* A file is "whole" when it holds all of a successful run's output: the    *)
(* key, or the public half of that key.  "other" is a file of somebody      *)
(* else, or the public half of a key of somebody else.                      *)
Holds == {"absent", "part", "whole", "other"}

Ends(how) == stage' = "done" /\ exit' = how

(* The next run begins like the first one, as PqRun's Init has it. *)
StartsRun(s) ==
  /\ stage' = s
  /\ pc' = "start" /\ expired' = FALSE /\ eof' = FALSE /\ done' = FALSE /\ length' = 0
  /\ result' = "none" /\ fault' = FALSE /\ cut' = FALSE
  /\ child' = "none" /\ status' = "none" /\ desc' = "none" /\ grouped' = FALSE
  /\ writers' = {} /\ pipe' = 0 /\ written' = 0
  /\ owner' = "free" /\ stricken' = FALSE
  /\ UNCHANGED runner

-----------------------------------------------------------------------------
(* main of pqkey *)

(* mkdir, and the directory opened must be the owner's alone. *)
MakeDir ==
  /\ stage = "mkdir"
  /\ \/ stage' = "gen" /\ UNCHANGED exit
     \/ Ends("failed")
  /\ UNCHANGED <<vars, files, keyFd, listed, changes, planted>>

(* Mutant of RunReturns: the status of the run is not looked at. *)
RunReturnsAnyhow ==
  /\ stage \in {"gen", "pub"} /\ pc = "returned"
  /\ \/ length > 0 /\ stage' = [gen |-> "create private", pub |-> "create public"][stage] /\ UNCHANGED exit
     \/ length = 0 /\ Ends("failed")
  /\ UNCHANGED <<vars, files, keyFd, listed, changes, planted>>

(* A run that failed, or printed nothing, ends the program. *)
RunReturns ==
  /\ stage \in {"gen", "pub"} /\ pc = "returned"
  /\ \/ /\ result = "ok" /\ length > 0
        /\ stage' = [gen |-> "create private", pub |-> "create public"][stage] /\ UNCHANGED exit
     \/ (result # "ok" \/ length = 0) /\ Ends("failed")
  /\ UNCHANGED <<vars, files, keyFd, listed, changes, planted>>

NameOf == IF stage \in {"create private", "write private"} THEN "private.pem" ELSE "public.pem"
Saving == [s \in {"create private", "create public"} |->
             IF s = "create private" THEN "write private" ELSE "write public"]

(* Mutant of Create: a file that is there is opened for writing. *)
CreateOver ==
  /\ stage \in DOMAIN Saving
  /\ files' = [files EXCEPT ![NameOf] = "part"] /\ stage' = Saving[stage]
  /\ UNCHANGED <<vars, exit, keyFd, listed, changes, planted>>

(* save: openat with O_EXCL *)
Create ==
  /\ stage \in DOMAIN Saving
  /\ \/ /\ files[NameOf] = "absent"
        /\ files' = [files EXCEPT ![NameOf] = "part"] /\ stage' = Saving[stage] /\ UNCHANGED exit
     \/ Ends("failed") /\ UNCHANGED files
  /\ UNCHANGED <<vars, keyFd, listed, changes, planted>>

Printed == IF length < written \/ status # "ok" THEN "part"
           ELSE IF stage = "write private" THEN "whole" ELSE keyFd

(* save: write, fsync and close, on a file that may have lost its name *)
WriteFile ==
  /\ stage \in {"write private", "write public"}
  /\ \/ /\ files' = IF files[NameOf] = "part" THEN [files EXCEPT ![NameOf] = Printed] ELSE files
        /\ \/ stage = "write private" /\ stage' = "reopen" /\ UNCHANGED exit
           \/ stage = "write public" /\ Ends("ok")
           \/ Ends("failed")
     \/ UNCHANGED files /\ Ends("failed")
  /\ UNCHANGED <<vars, keyFd, listed, changes, planted>>

(* openat of private.pem: a bounded regular file, whoever put it there *)
Reopen ==
  /\ stage = "reopen"
  /\ \/ /\ files["private.pem"] # "absent"
        /\ keyFd' = files["private.pem"]
        /\ StartsRun("pub") /\ UNCHANGED exit
     \/ Ends("failed") /\ UNCHANGED <<vars, keyFd>>
  /\ UNCHANGED <<files, listed, changes, planted>>

-----------------------------------------------------------------------------
(* main of pqcheck *)

(* After the last run pqcheck fails if what it printed could not be         *)
(* written, as far as that has shown.                                       *)
ListReturns ==
  /\ stage = "list" /\ pc = "returned"
  /\ listed' = IF result = "ok" THEN listed + 1 ELSE listed
  /\ \/ result # "ok" /\ Ends("failed") /\ UNCHANGED vars
     \/ result = "ok" /\ listed' = 3 /\ (Ends("ok") \/ Ends("failed")) /\ UNCHANGED vars
     \/ result = "ok" /\ listed' < 3 /\ StartsRun("list") /\ UNCHANGED exit
  /\ UNCHANGED <<files, keyFd, changes, planted>>

-----------------------------------------------------------------------------

(* Another process of the owner creates, replaces or removes a file. *)
Others ==
  /\ stage \notin {"mkdir", "list", "done"}
  /\ changes > 0 /\ changes' = changes - 1
  /\ \E n \in Names, put \in {"absent", "other"} :
       /\ files' = [files EXCEPT ![n] = put]
       /\ planted' = IF put = "other" THEN planted \cup {n} ELSE planted \ {n}
  /\ UNCHANGED <<vars, stage, keyFd, listed, exit>>

InRun   == stage \in {"gen", "pub", "list"}
KeyStep == MakeDir \/ RunReturns \/ Create \/ WriteFile \/ Reopen \/ ListReturns
Running == InRun /\ RunnerStep /\ UNCHANGED keyVars
Passing == Tick /\ UNCHANGED keyVars

KeyInit ==
  /\ Init
  /\ stage \in {"mkdir", "list"}
  /\ files = [n \in Names |-> "absent"] /\ keyFd = "absent"
  /\ listed = 0 /\ exit = "none" /\ changes = Changes /\ planted = {}

KeyNext == \/ KeyStep \/ Others \/ Running
           \/ InRun /\ RunnerFails /\ UNCHANGED keyVars
           \/ Outside /\ UNCHANGED keyVars

(* The program's own calls return, and a run is scheduled as in PqRun. *)
KeyFairness ==
  /\ WF_<<vars, keyVars>>(KeyStep)
  /\ WF_<<vars, keyVars>>(Running)
  /\ WF_<<vars, keyVars>>(Passing)

KeySpec == KeyInit /\ [][KeyNext]_<<vars, keyVars>> /\ KeyFairness

-----------------------------------------------------------------------------
(* Safety *)

(* c/pqkey.c and pqkey.py, "No existing files overwritten": a file that     *)
(* another process puts under one of the two names, even while OpenSSL runs *)
(* or between the creation of the file and its last write, stays as it is,  *)
(* on every way out.                                                        *)
NeverOverwrites == \A n \in planted : files[n] = "other"

(* "Created private.pem ... and public.pem": when pqkey says so, the two    *)
(* files hold a whole key and its public half, unless others have put their *)
(* file in the place of one; and what a failed, late or oversized run       *)
(* printed is never left as a key.                                          *)
KeyPairWhole ==
  /\ exit = "ok" /\ listed = 0 /\ changes = Changes => \A n \in Names : files[n] = "whole"
  /\ files["private.pem"] = "part" => exit = "failed" \/ stage = "write private"
  /\ files["public.pem"] = "part" => exit = "failed" \/ stage = "write public"

-----------------------------------------------------------------------------
(* Liveness *)

(* Both programs end, although no run of OpenSSL need ever end by itself. *)
ProgramEnds == <>(stage = "done")

=============================================================================
