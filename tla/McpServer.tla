----------------------------- MODULE McpServer -----------------------------
(***************************************************************************)
(* The tools of pydev_ai/mcp_server.py, which the protocol's library calls *)
(* in threads of its own: each call takes one of the permits of a bounded  *)
(* semaphore, or gives up after a second, and runs a collector, or a       *)
(* workflow of pydev_ai/workflows.py that runs several collectors in turn   *)
(* under the one permit.  A collector may hang: no fairness makes it end.  *)
(*                                                                         *)
(* Of a response, only its status matters, and which statuses it was made  *)
(* from.                                                                   *)
(***************************************************************************)
EXTENDS Naturals, FiniteSets

CONSTANTS Requests,  \* the calls of tools
          Slots,     \* permits of the semaphore
          Reports    \* reports each call is made from: 0 for a collector

ASSUME ServerAssumption ==
  /\ IsFiniteSet(Requests)
  /\ Slots \in Nat \ {0}
  /\ Reports \in [Requests -> Nat]

VARIABLES phase,    \* of each call: "new", "waiting", "running" or "done"
          permits,  \* of the semaphore
          left,     \* reports a workflow has still to collect
          statuses, \* of the reports that a call has collected
          problem,  \* the workflow's builder has counted a failed report
          answer    \* what the client was told

serverVars == <<phase, permits, left, statuses, problem, answer>>

Statuses == {"success", "partial", "unsupported", "failure"}
Answers  == Statuses \cup {"none", "refused", "oversize", "error"}

In(p) == {r \in Requests : phase[r] = p}

Tell(r, what) ==
  /\ phase' = [phase EXCEPT ![r] = "done"]
  /\ answer' = [answer EXCEPT ![r] = what]

-----------------------------------------------------------------------------
(* A tool checks its arguments, which may end the call, and calls run. *)

Call(r) ==
  /\ phase[r] = "new"
  /\ \/ /\ phase' = [phase EXCEPT ![r] = "waiting"]
        /\ UNCHANGED answer
     \/ Tell(r, "error")
  /\ UNCHANGED <<permits, left, statuses, problem>>

Acquire(r) ==
  /\ phase[r] = "waiting"
  /\ permits > 0 /\ permits' = permits - 1
  /\ phase' = [phase EXCEPT ![r] = "running"]
  /\ left' = [left EXCEPT ![r] = Reports[r]]
  /\ UNCHANGED <<statuses, problem, answer>>

(* Mutant of Refuse: there is no time limit. *)
RefuseNever(r) == FALSE /\ UNCHANGED serverVars

(* The second is over, and no permit is free at that moment. *)
Refuse(r) ==
  /\ phase[r] = "waiting"
  /\ permits = 0
  /\ Tell(r, "refused")
  /\ UNCHANGED <<permits, left, statuses, problem>>

-----------------------------------------------------------------------------
(* The operation *)

(* Mutant of Collect: only a report that failed is a problem. *)
CollectFailures(r) ==
  /\ phase[r] = "running" /\ left[r] > 0
  /\ left' = [left EXCEPT ![r] = @ - 1]
  /\ \E s \in Statuses :
       /\ statuses' = [statuses EXCEPT ![r] = @ \cup {s}]
       /\ problem' = [problem EXCEPT ![r] = @ \/ s = "failure"]
  /\ UNCHANGED <<phase, permits, answer>>

(* A workflow takes in one report (_child_problem). *)
Collect(r) ==
  /\ phase[r] = "running" /\ left[r] > 0
  /\ left' = [left EXCEPT ![r] = @ - 1]
  /\ \E s \in Statuses :
       /\ statuses' = [statuses EXCEPT ![r] = @ \cup {s}]
       /\ problem' = [problem EXCEPT ![r] = @ \/ s # "success"]
  /\ UNCHANGED <<phase, permits, answer>>

(* What execute makes of an exception, and finish of the rest. *)
Finished(r) ==
  \/ /\ Reports[r] = 0
     /\ \E s \in Statuses : Tell(r, s) /\ statuses' = [statuses EXCEPT ![r] = {s}]
  \/ /\ Reports[r] > 0 /\ left[r] = 0
     /\ Tell(r, IF problem[r] THEN "partial" ELSE "success")
     /\ UNCHANGED statuses
  \/ /\ Reports[r] > 0
     /\ Tell(r, "failure")
     /\ UNCHANGED statuses

(* _bounded puts a failure in the place of a response that is too long. *)
Oversize(r) ==
  /\ left[r] = 0
  /\ Tell(r, "oversize")
  /\ UNCHANGED statuses

(* Neither execute nor _bounded stops every exception. *)
Raises(r) ==
  /\ Tell(r, "error")
  /\ UNCHANGED statuses

(* Mutant of Release: an exception passes the release by. *)
ReleaseUnlessRaised == permits' = IF \E r \in Requests : answer'[r] = "error" /\ phase[r] = "running"
                                 THEN permits ELSE permits + 1

(* The finally clause *)
Release == permits' = permits + 1

Return(r) ==
  /\ phase[r] = "running"
  /\ Finished(r) \/ Oversize(r) \/ Raises(r)
  /\ Release
  /\ UNCHANGED <<left, problem>>

-----------------------------------------------------------------------------

ServerInit ==
  /\ phase = [r \in Requests |-> "new"]
  /\ permits = Slots
  /\ left = [r \in Requests |-> 0]
  /\ statuses = [r \in Requests |-> {}]
  /\ problem = [r \in Requests |-> FALSE]
  /\ answer = [r \in Requests |-> "none"]

ServerNext == \E r \in Requests :
  Call(r) \/ Acquire(r) \/ Refuse(r) \/ Collect(r) \/ Return(r)

(* A thread that waits for a permit takes one or gives up; nothing is said  *)
(* of how long an operation runs.                                           *)
Fairness == \A r \in Requests : WF_serverVars(Acquire(r) \/ Refuse(r))

ServerSpec == ServerInit /\ [][ServerNext]_serverVars /\ Fairness

-----------------------------------------------------------------------------
(* Type invariant. *)

ServerTypeOK ==
  /\ phase \in [Requests -> {"new", "waiting", "running", "done"}]
  /\ permits \in 0..Slots
  /\ left \in [Requests -> Nat] /\ \A r \in Requests : left[r] <= Reports[r]
  /\ statuses \in [Requests -> SUBSET Statuses]
  /\ problem \in [Requests -> BOOLEAN]
  /\ answer \in [Requests -> Answers]

-----------------------------------------------------------------------------
(* Safety *)

(* docs/MCP.md: "allows at most four collectors concurrently", and goes on  *)
(* allowing four: no end of an operation, not by an exception either, loses *)
(* a permit or makes one.                                                   *)
PermitsConserved == Cardinality(In("running")) + permits = Slots

(* An answer is true of what was done: success, that every report it is     *)
(* made from was one; a refusal, that no collector ran; and there is an     *)
(* answer exactly when the call is over.                                    *)
AnswersTruthful ==
  \A r \in Requests :
    /\ answer[r] = "none" <=> phase[r] # "done"
    /\ answer[r] = "success" => statuses[r] \subseteq {"success"}
    /\ answer[r] = "refused" => statuses[r] = {}

-----------------------------------------------------------------------------
(* Liveness *)

(* However long the collectors that hold the permits take, a call that      *)
(* waits is run or answered.                                                *)
NobodyWaitsForever ==
  \A r \in Requests : phase[r] = "waiting" ~> phase[r] \in {"running", "done"}
=============================================================================
