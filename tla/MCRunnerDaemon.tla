--------------------------- MODULE MCRunnerDaemon ---------------------------
(* Instances of RunnerDaemon for TLC. *)
EXTENDS RunnerDaemon, TLC

CONSTANTS j1, j2, j3, p1, p2, e1, e2

MCJobs == {j1, j2, j3}
MCProjects == {p1, p2}

(* One project, the third job on a protected ref. *)
OneProject == [j \in MCJobs |-> p1]
TwoProjects == (j1 :> p1) @@ (j2 :> p1) @@ (j3 :> p2)
ProtectedThird == (j1 :> "unprotected") @@ (j2 :> "unprotected")
                      @@ (j3 :> "protected")
UnknownThird == (j1 :> "unprotected") @@ (j2 :> "unprotected")
                      @@ (j3 :> "unknown")

NoLeftover == {}
OldWorkspace == {<<"project", p1, 0, "unprotected">>}

(* A bound: the workspaces are watched before any shutdown; a shutdown      *)
(* changes nothing about how the tasks of running jobs use them.            *)
NoShutdown == shutdown = "Running"

(* A bound: an eviction takes less than workspace_max_age_days, so nothing  *)
(* that was fresh when it began grows old while it runs.                    *)
FastEvictions == stale' \subseteq stale \/ \A e \in Evictors : epc[e] = "none"

(* j1 and j2 are alike: same project, same protection. *)
Symmetry == Permutations({j1, j2})
=============================================================================
