---------------------------- MODULE DurableQueue ----------------------------
(***************************************************************************)
(* What the job queue promises to its producers (ADR-0005): a job that has *)
(* been accepted waits until it has been carried out once, has been        *)
(* absorbed by another job about the same thing, or has failed more often  *)
(* than it may be retried.  The last two kinds of end are for good, every  *)
(* failure is counted, and the jobs that a job leads to appear in the step *)
(* that finishes it.  No worker, lock, transaction or crash is visible.    *)
(***************************************************************************)
EXTENDS Naturals

CONSTANTS Jobs, Kind, Target, Origin, NoJob, MaxRetries

VARIABLES state,   (* "absent", "waiting", "done" or "dead"                 *)
          tries    (* counted failures                                      *)

vars == <<state, tries>>

Init ==
    /\ state \in [Jobs -> {"absent", "waiting"}]
    /\ tries = [j \in Jobs |-> 0]

(* A producer hands in a job that no other job leads to. *)
Submit(j) ==
    /\ state[j] = "absent"
    /\ Origin[j] = NoJob
    /\ state' = [state EXCEPT ![j] = "waiting"]
    /\ UNCHANGED tries

(* The job is carried out, and some of the jobs it leads to are accepted. *)
CarryOut(j) ==
    /\ state[j] = "waiting"
    /\ \E new \in SUBSET {k \in Jobs : Origin[k] = j /\ state[k] = "absent"} :
        state' = [k \in Jobs |-> IF k = j THEN "done"
                                 ELSE IF k \in new THEN "waiting"
                                 ELSE state[k]]
    /\ UNCHANGED tries

(* The job takes over waiting jobs about the same thing; it still waits. *)
Absorb(j) ==
    /\ state[j] = "waiting"
    /\ \E same \in SUBSET {k \in Jobs \ {j} : /\ state[k] = "waiting"
                                              /\ Kind[k] = Kind[j]
                                              /\ Target[k] = Target[j]} :
        state' = [k \in Jobs |-> IF k \in same THEN "done" ELSE state[k]]
    /\ UNCHANGED tries

(* A failure is counted; the job is retried or given up. *)
CountFailure(j) ==
    /\ state[j] = "waiting"
    /\ tries' = [tries EXCEPT ![j] = @ + 1]
    /\ state' = [state EXCEPT ![j] =
                    IF tries[j] + 1 <= MaxRetries THEN "waiting" ELSE "dead"]

Next == \E j \in Jobs : Submit(j) \/ CarryOut(j) \/ Absorb(j) \/ CountFailure(j)

Spec == Init /\ [][Next]_vars
=============================================================================
