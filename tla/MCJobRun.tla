------------------------------ MODULE MCJobRun ------------------------------
(* Payloads for TLC to run JobRun on. *)
EXTENDS JobRun

MCSteps ==
    << [when |-> "on_success", allow_failure |-> FALSE, after |-> FALSE],
       [when |-> "on_success", allow_failure |-> TRUE,  after |-> FALSE],
       [when |-> "on_failure", allow_failure |-> FALSE, after |-> FALSE],
       [when |-> "always",     allow_failure |-> TRUE,  after |-> TRUE] >>

(* What GitLab sends for a job with an after_script. *)
PlainSteps ==
    << [when |-> "on_success", allow_failure |-> FALSE, after |-> FALSE],
       [when |-> "always",     allow_failure |-> TRUE,  after |-> TRUE] >>
=============================================================================
