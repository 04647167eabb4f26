------------------------------ MODULE JobPool ------------------------------
(***************************************************************************)
(* What the runner promises GitLab, without its threads, permits and       *)
(* slots: a pool that holds at most Capacity jobs at any time, takes every *)
(* job at most once, ends every job it holds, and takes nothing once it is *)
(* closed - which it may only be when it holds nothing.  RunnerDaemon is    *)
(* shown to implement it.                                                  *)
(***************************************************************************)
EXTENDS Integers, FiniteSets

CONSTANTS Jobs,         \* the jobs GitLab has for this runner
          Capacity      \* the `concurrent` setting

VARIABLES
    job,                \* what GitLab knows of each job
    open                \* FALSE once the runner has stopped

poolVars == <<job, open>>

Held == {j \in Jobs : job[j] = "held"}

Init == /\ job = [j \in Jobs |-> "waiting"]
        /\ open = TRUE

(* GitLab hands the job over and the runner has it. *)
Take(j) == /\ open
           /\ job[j] = "waiting"
           /\ Cardinality(Held) < Capacity
           /\ job' = [job EXCEPT ![j] = "held"]
           /\ UNCHANGED open

(* GitLab hands the job over but the runner cannot use the answer. *)
Lose(j) == /\ open
           /\ job[j] = "waiting"
           /\ Cardinality(Held) < Capacity
           /\ job' = [job EXCEPT ![j] = "lost"]
           /\ UNCHANGED open

End(j) == /\ job[j] = "held"
          /\ job' = [job EXCEPT ![j] = "ended"]
          /\ UNCHANGED open

Close == /\ open
         /\ Held = {}
         /\ open' = FALSE
         /\ UNCHANGED job

Next == \/ \E j \in Jobs : Take(j) \/ Lose(j) \/ End(j)
        \/ Close

SafeSpec == Init /\ [][Next]_poolVars

(* Every job the pool holds ends. *)
Spec == SafeSpec /\ \A j \in Jobs : WF_poolVars(End(j))
=============================================================================
