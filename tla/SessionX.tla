------------------------------ MODULE SessionX ------------------------------
(***************************************************************************)
(* walk_processes of c/sessionx.c and terminate of sessionx.py: the        *)
(* processes of a user are listed, or each is sent SIGTERM, while          *)
(* processes end, change their owner, and PIDs are given away, and while a *)
(* look at a process or the listing of /proc may fail.  C walks over /proc *)
(* once and treats each process as it comes; Python lists all, looks at    *)
(* all, and then signals.                                                  *)
(***************************************************************************)
EXTENDS Naturals, FiniteSets

CONSTANTS MaxPid,      \* PIDs are 1 to MaxPid
          Self,        \* the PID of the tool
          Parent,      \* and that of its parent
          Users,       \* accounts
          Root,        \* the account with uid 0
          MaxSeen,     \* MAX_PROCESSES of the C program
          MaxTargets,  \* how many of the user's processes Python keeps
          MaxChanges   \* bound on the changes of processes and the failures of calls

AllPids == 1..MaxPid
None == "none"         \* the owner of a PID nobody has

ASSUME SessionAssumption ==
  /\ MaxPid \in Nat /\ Self \in AllPids \ {1} /\ Parent \in AllPids \ {Self}
  /\ Root \in Users /\ None \notin Users
  /\ MaxSeen \in Nat /\ MaxTargets \in Nat /\ MaxChanges \in Nat

VARIABLES edition,  \* "c" or "py"
          mode,     \* "list", "dry" or "confirmed"
          caller,   \* who runs the tool
          wanted,   \* whose processes are asked for
          owner,    \* the owner of the process that has each PID
          pending,  \* changes and failures still to come
          stayed,   \* PIDs that one process of the wanted user has had all along
          missed,   \* PIDs of the wanted user passed over, as stat failed
          cut,      \* has the walk ended before all were listed, and not said so?
          raced,    \* has the current PID changed since its owner was last looked at?
          phase,
          at,       \* the last PID that has been listed
          names,    \* PIDs listed and not yet looked at
          seen,     \* how many the C program has looked at
          found,    \* PIDs seen to be the wanted user's (targets in Python)
          current,  \* the PID being signalled
          failures,
          claimed,  \* how many Python says it has sent, or would send, a signal
          sent,     \* the signals that were sent
          status    \* exit status, once the tool is done

argVars     == <<edition, mode, caller, wanted>>
worldVars   == <<owner, pending, stayed, missed, cut>>
walkVars    == <<at, names, seen, found>>
sessionVars == <<argVars, worldVars, raced, phase, walkVars, current, failures, claimed, sent, status>>

-----------------------------------------------------------------------------
(* What the tool spares *)

Protected == IF edition = "c" THEN {1, Self} ELSE {1, Self, Parent}

(* Beyond a limit, which Python applies before it spares anyone. *)
Limited == IF edition = "c" THEN seen >= MaxSeen
           ELSE Cardinality(found) > MaxTargets

(* The first MaxTargets of those found. *)
Kept == {p \in found : Cardinality({q \in found : q < p}) < MaxTargets}

Targets == Kept \ Protected

Least(p, S) == p \in S /\ \A q \in S : p <= q

Done(s) == phase' = "done" /\ status' = s

(* A call fails that might have succeeded. *)
Failure == pending > 0 /\ pending' = pending - 1

-----------------------------------------------------------------------------

(* Root's processes are not to be terminated. *)
Start ==
  /\ phase = "start"
  /\ IF mode # "list" /\ wanted = Root
       THEN Done(IF edition = "c" THEN 1 ELSE 2)
       ELSE phase' = "walk" /\ UNCHANGED status
  /\ UNCHANGED <<argVars, worldVars, raced, walkVars, current, failures, claimed, sent>>

(* readdir asks for a batch when it has none; Python collects all names     *)
(* before it looks at one.                                                  *)
Fill ==
  /\ phase = "walk" /\ at < MaxPid
  /\ edition = "c" => names = {} /\ seen < MaxSeen
  /\ \E n \in at + 1..MaxPid :
       /\ at' = n
       /\ names' = names \cup {p \in at + 1..n : owner[p] # None}
  /\ UNCHANGED <<argVars, worldVars, raced, phase, seen, found, current, failures, claimed, sent, status>>

(* opendir fails: main returns what the walk does, list_sessions ignores    *)
(* it.  os.listdir raises for opendir and readdir alike.                    *)
ListFails ==
  /\ phase = "walk" /\ at < MaxPid /\ (edition = "c" => at = 0)
  /\ Failure
  /\ Done(IF edition = "py" THEN 2 ELSE IF mode = "list" THEN 0 ELSE 1)
  /\ cut' = (edition = "c" /\ mode = "list")
  /\ UNCHANGED <<argVars, owner, stayed, missed, raced, walkVars, current, failures, claimed, sent>>

(* readdir fails, which the C program takes for the end of the directory. *)
ReaddirFails ==
  /\ edition = "c" /\ phase = "walk" /\ names = {} /\ at < MaxPid /\ seen < MaxSeen
  /\ Failure
  /\ Done(IF failures > 0 THEN 1 ELSE 0)
  /\ cut' = TRUE
  /\ UNCHANGED <<argVars, owner, stayed, missed, raced, walkVars, current, failures, claimed, sent>>

MayLook == edition = "py" \/ seen < MaxSeen

(* The C program goes on to signal the process, Python only notes it. *)
Look ==
  /\ phase = "walk" /\ MayLook
  /\ edition = "py" => at = MaxPid
  /\ \E p \in names :
       /\ Least(p, names)
       /\ names' = names \ {p}
       /\ found' = IF owner[p] = wanted THEN found \cup {p} ELSE found
       /\ IF edition = "c" /\ mode = "confirmed" /\ owner[p] = wanted /\ p \notin Protected
            THEN phase' = "recheck" /\ current' = p
            ELSE UNCHANGED <<phase, current>>
  /\ seen' = IF edition = "c" THEN seen + 1 ELSE seen
  /\ raced' = FALSE
  /\ UNCHANGED <<argVars, worldVars, at, failures, claimed, sent, status>>

(* The look at a process that is there fails, and it is passed over; of     *)
(* another user's process a failure would make no difference.               *)
LookFails ==
  /\ phase = "walk" /\ MayLook
  /\ edition = "py" => at = MaxPid
  /\ Failure
  /\ \E p \in names :
       /\ Least(p, names) /\ owner[p] = wanted
       /\ names' = names \ {p}
       /\ missed' = missed \cup {p}
  /\ seen' = IF edition = "c" THEN seen + 1 ELSE seen
  /\ raced' = FALSE
  /\ UNCHANGED <<argVars, owner, stayed, cut, phase, at, found, current, failures, claimed, sent, status>>

(* The end of the C program's walk. *)
WalkEnd ==
  /\ edition = "c" /\ phase = "walk"
  /\ (names = {} /\ at = MaxPid) \/ ~MayLook
  /\ Done(IF failures > 0 THEN 1 ELSE 0)
  /\ UNCHANGED <<argVars, worldVars, raced, walkVars, current, failures, claimed, sent>>

(* Python has seen all and starts to signal, or says what it would do. *)
Report ==
  /\ edition = "py" /\ phase = "walk" /\ names = {} /\ at = MaxPid
  /\ IF mode = "confirmed" THEN phase' = "next" /\ UNCHANGED <<claimed, status>>
     ELSE claimed' = Cardinality(Targets) /\ Done(0)
  /\ UNCHANGED <<argVars, worldVars, raced, walkVars, current, failures, sent>>

(* The loop over the targets. *)
NextTarget ==
  /\ phase = "next"
  /\ LET rest == {p \in Targets : p > current}
     IN \/ /\ \E p \in rest : Least(p, rest) /\ current' = p
           /\ phase' = "recheck" /\ UNCHANGED <<claimed, status>>
        \/ /\ rest = {}
           /\ claimed' = Cardinality(Targets) /\ Done(0) /\ UNCHANGED current
  /\ UNCHANGED <<argVars, worldVars, raced, walkVars, failures, sent>>

-----------------------------------------------------------------------------
(* One process *)

GoOn == phase' = IF edition = "c" THEN "walk" ELSE "next"

(* Mutant of LookAgain: the owner is not looked at again. *)
LookAgainNot ==
  /\ phase = "recheck"
  /\ phase' = "kill" /\ raced' = FALSE
  /\ UNCHANGED <<argVars, worldVars, walkVars, current, failures, claimed, sent, status>>

(* The second look. *)
LookAgain ==
  /\ phase = "recheck"
  /\ IF owner[current] = wanted
       THEN phase' = "kill" /\ UNCHANGED failures
       ELSE GoOn /\ failures' = IF edition = "c" THEN failures + 1 ELSE failures
  /\ raced' = FALSE
  /\ UNCHANGED <<argVars, worldVars, walkVars, current, claimed, sent, status>>

(* The second look at a process that is there fails: C counts it, and for   *)
(* Python it is no FileNotFoundError, and ends it.                          *)
LookAgainFails ==
  /\ phase = "recheck" /\ owner[current] # None
  /\ Failure
  /\ raced' = FALSE
  /\ \/ edition = "c" /\ failures' = failures + 1 /\ GoOn /\ UNCHANGED status
     \/ edition = "py" /\ Done(2) /\ UNCHANGED failures
  /\ UNCHANGED <<argVars, owner, stayed, missed, cut, walkVars, current, claimed, sent>>

Allowed == caller \in {Root, owner[current]}

KillSends ==
  /\ phase = "kill" /\ owner[current] # None /\ Allowed
  /\ sent' = sent \cup {[pid |-> current, owner |-> owner[current], raced |-> raced]}
  /\ GoOn
  /\ UNCHANGED <<argVars, worldVars, raced, walkVars, current, failures, claimed, status>>

(* Mutant of KillFails: a process that may not be signalled is passed over  *)
(* like one that is gone.                                                   *)
KillFailsSilently ==
  /\ phase = "kill" /\ (owner[current] = None \/ ~Allowed)
  /\ GoOn
  /\ UNCHANGED <<argVars, worldVars, raced, walkVars, current, failures, claimed, sent, status>>

(* No such process, which Python passes over, or no permission, which ends  *)
(* it.                                                                      *)
KillFails ==
  /\ phase = "kill"
  /\ \/ edition = "c" /\ (owner[current] = None \/ ~Allowed)
        /\ failures' = failures + 1 /\ GoOn /\ UNCHANGED status
     \/ /\ edition = "py" /\ owner[current] = None
        /\ GoOn /\ UNCHANGED <<failures, status>>
     \/ /\ edition = "py" /\ owner[current] # None /\ ~Allowed
        /\ Done(2) /\ UNCHANGED failures
  /\ UNCHANGED <<argVars, worldVars, raced, walkVars, current, claimed, sent>>

-----------------------------------------------------------------------------
(* A process ends, starts or changes its owner. *)
Change ==
  /\ pending > 0 /\ pending' = pending - 1
  /\ \E p \in AllPids \ {1, Self, Parent} :
       /\ \E u \in Users \cup {None} : u # owner[p] /\ owner' = [owner EXCEPT ![p] = u]
       /\ stayed' = stayed \ {p}
       /\ raced' = (raced \/ p = current)
  /\ UNCHANGED <<argVars, missed, cut, phase, walkVars, current, failures, claimed, sent, status>>

SessionInit ==
  /\ edition \in {"c", "py"} /\ mode \in {"list", "dry", "confirmed"}
  /\ edition = "py" => mode # "list"
  /\ caller \in Users /\ wanted \in Users
  /\ owner \in [AllPids -> Users \cup {None}]
  /\ owner[1] = Root /\ owner[Self] = caller /\ owner[Parent] # None
  /\ stayed = {p \in AllPids : owner[p] = wanted}
  /\ pending = MaxChanges /\ missed = {} /\ cut = FALSE /\ raced = FALSE
  /\ phase = "start" /\ at = 0 /\ names = {} /\ seen = 0 /\ found = {} /\ current = 0
  /\ failures = 0 /\ claimed = 0 /\ sent = {} /\ status = 0

SessionNext == \/ Start \/ Fill \/ ListFails \/ ReaddirFails \/ Look \/ LookFails
        \/ WalkEnd \/ Report \/ NextTarget \/ LookAgain \/ LookAgainFails \/ KillSends \/ KillFails \/ Change

SessionSpec == SessionInit /\ [][SessionNext]_sessionVars

-----------------------------------------------------------------------------
(* Type invariant; the walk and the number of processes it looks at are     *)
(* bounded.                                                                 *)
SessionTypeOK ==
  /\ edition \in {"c", "py"} /\ mode \in {"list", "dry", "confirmed"}
  /\ caller \in Users /\ wanted \in Users
  /\ owner \in [AllPids -> Users \cup {None}]
  /\ pending \in 0..MaxChanges /\ raced \in BOOLEAN /\ cut \in BOOLEAN
  /\ stayed \subseteq AllPids /\ missed \subseteq AllPids
  /\ phase \in {"start", "walk", "next", "recheck", "kill", "done"}
  /\ at \in 0..MaxPid /\ names \subseteq AllPids /\ found \subseteq AllPids
  /\ seen \in 0..MaxSeen /\ current \in 0..MaxPid
  /\ failures \in Nat /\ claimed \in Nat
  /\ sent \subseteq [pid : AllPids, owner : Users, raced : BOOLEAN]
  /\ status \in 0..2

-----------------------------------------------------------------------------
(* Safety *)

(* README.md: "a dry run unless --confirm is supplied. It always refuses    *)
(* root, PID 1, and itself, and rechecks process ownership immediately      *)
(* before sending SIGTERM": a signal reaches a process of another user only *)
(* if the PID changed between that look and the signal.                     *)
SignalsOnlyOwned ==
  \A s \in sent :
    /\ mode = "confirmed" /\ wanted # Root
    /\ s.pid \notin {1, Self}
    /\ s.owner # wanted => s.raced

Signalled == {s.pid : s \in sent}

(* A status of 0 of a run that met no limit, and whose listing was not cut  *)
(* short unnoticed: each process the user had all along was listed, and     *)
(* signalled if that was asked for, unless it is spared or the first look   *)
(* at it failed, which both programs pass over (c/sessionx.c 69, sessionx.py *)
(* 20); and the number Python prints is that of the signals if no process   *)
(* changed and no call failed, and otherwise no smaller.                    *)
StatusTruthful ==
  phase = "done" /\ status = 0 /\ ~Limited /\ ~cut =>
    /\ stayed \subseteq found \cup missed
    /\ mode = "confirmed" => stayed \ (Protected \cup missed) \subseteq Signalled
    /\ mode = "dry" => sent = {}
    /\ edition = "py" =>
         /\ stayed \ (Protected \cup missed) \subseteq Targets
         /\ mode = "dry" => claimed = Cardinality(Targets)
         /\ mode = "confirmed" => Cardinality(Signalled) <= claimed
         /\ mode = "confirmed" /\ pending = MaxChanges => Cardinality(Signalled) = claimed
=============================================================================
