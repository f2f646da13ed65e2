---------------------------- MODULE JobContract ----------------------------
(***************************************************************************)
(* What the control plane promises of a job, whatever cycles, workers and  *)
(* clients do: its attempts in Ray are a chain, one live at a time, each   *)
(* after the failure of the one before; and once its record is closed the  *)
(* chain is over.  JobsControlPlane implements this.                       *)
(***************************************************************************)
EXTENDS Integers

CONSTANTS Jobs, RetryJobs, MaxAttempt

VARIABLES
  attempts,  \* attempts[j]: how many attempts of j Ray has taken
  newest,    \* newest[j]: what became of the newest one
  row        \* row[j]: the record of j

contractVars == <<attempts, newest, row>>

Outcomes == {"none", "live", "failed", "over"}
Rows == {"none", "open", "closed", "deleted"}

ContractTypeOK ==
  /\ attempts \in [Jobs -> 0..(MaxAttempt + 1)]
  /\ newest \in [Jobs -> Outcomes]
  /\ row \in [Jobs -> Rows]

Init ==
  /\ attempts = [j \in Jobs |-> 0]
  /\ newest = [j \in Jobs |-> "none"]
  /\ row = [j \in Jobs |-> "none"]

\* The chain of j may still grow.
MayGrow(j) == newest[j] = "none" \/ (newest[j] = "failed" /\ j \in RetryJobs)

Submit(j) ==
  /\ row[j] \in {"open", "deleted"}
  /\ MayGrow(j)
  /\ attempts'[j] = attempts[j] + 1
  /\ newest'[j] = "live"
  /\ row'[j] = row[j]

End(j) ==
  /\ newest[j] = "live"
  /\ newest'[j] \in {"failed", "over"}
  /\ attempts'[j] = attempts[j]
  /\ row'[j] = row[j]

Record(j) ==
  /\ \/ row[j] = "none" /\ row'[j] = "open"
     \/ row[j] = "open" /\ row'[j] = "closed" /\ newest[j] \in {"failed", "over"} /\ ~MayGrow(j)
     \/ row[j] \in {"open", "closed"} /\ row'[j] = "deleted"
  /\ attempts'[j] = attempts[j]
  /\ newest'[j] = newest[j]

Keep(j) == attempts'[j] = attempts[j] /\ newest'[j] = newest[j] /\ row'[j] = row[j]

\* A stop or a deletion reaches all the jobs of a run in one step.
Next == \A j \in Jobs : Submit(j) \/ End(j) \/ Record(j) \/ Keep(j)

ContractSpec == Init /\ [][Next]_contractVars
=============================================================================
