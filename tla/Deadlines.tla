------------------------------ MODULE Deadlines ------------------------------
(***************************************************************************)
(* How long a job's scripts may run: the deadlines of run_job_steps in     *)
(* src/runner_daemon/executor.rs, on a clock.                              *)
(*                                                                         *)
(* The job timeout covers the sources, the restore and the script steps,   *)
(* RUNNER_SCRIPT_TIMEOUT the steps within it; an after_script has a limit  *)
(* of its own.  Between two scripts the task writes to the log, which      *)
(* takes time, too.  A script that has reached its limit is stopped before *)
(* time goes on: ScriptRun has how.  Which step runs is JobRun's.          *)
(***************************************************************************)
EXTENDS Naturals

CONSTANTS
    JobTimeouts,        \* the job's timeout, 0 when GitLab sends none
    StageTimeouts,      \* RUNNER_SCRIPT_TIMEOUT and RUNNER_AFTER_SCRIPT_TIMEOUT,
                        \* 0 when unset, zero or malformed
    StepTimeouts,       \* the timeout of the after_script in the payload, or 0
    DefaultJob,         \* DEFAULT_JOB_TIMEOUT
    DefaultAfter,       \* DEFAULT_AFTER_SCRIPT_TIMEOUT
    MaxInstant,         \* the last instant an Instant can hold
    MaxSteps,           \* script steps of the payload
    MaxPause            \* time between two scripts (a bound)

DeadlinesAssumption ==
    /\ JobTimeouts \subseteq Nat /\ StageTimeouts \subseteq Nat /\ StepTimeouts \subseteq Nat
    /\ DefaultJob \in Nat \ {0} /\ DefaultAfter \in Nat \ {0}
    /\ MaxInstant \in Nat /\ MaxSteps \in Nat /\ MaxPause \in Nat

(* Instant::now() + timeout exists, as the code takes it to: executor.rs:347. *)
DeadlineExists == \A t \in JobTimeouts \union {DefaultJob} : t <= MaxInstant

(* So does whatever else the code adds without checked_add: a job that       *)
(* pauses as often and as long as it can still ends before the last Instant. *)
InstantsSuffice ==
    \A t \in JobTimeouts \union {DefaultJob} :
        t + (3 + MaxSteps) * MaxPause + DefaultAfter <= MaxInstant

VARIABLES
    now,
    timeout, scriptTimeout, afterTimeout, stepTimeout,
                        \* what the payload and the variables ask for
    phase,              \* what is next, or runs
    running,            \* a script, or the restore, runs
    began,              \* when it began, or the pause before it did
    limit,              \* its deadline
    deadline,           \* of the job
    scriptDeadline,     \* of the steps
    stepsFrom,          \* when the steps began (history)
    steps,              \* script steps so far
    failure             \* none, timeout, or script

asked == <<timeout, scriptTimeout, afterTimeout, stepTimeout>>
limits == <<deadline, scriptDeadline, stepsFrom>>
vars == <<now, asked, phase, running, began, limit, limits, steps, failure>>

Smaller(a, b) == IF a <= b THEN a ELSE b
Larger(a, b)  == IF a >= b THEN a ELSE b

(* timeout_secs or the default. *)
Timeout == IF timeout > 0 THEN timeout ELSE DefaultJob

Init ==
    /\ now = 0
    /\ timeout \in JobTimeouts /\ stepTimeout \in StepTimeouts
    /\ scriptTimeout \in StageTimeouts /\ afterTimeout \in StageTimeouts
    /\ phase = "sources" /\ running = FALSE /\ began = 0 /\ limit = 0
    /\ deadline = Timeout /\ scriptDeadline = 0 /\ stepsFrom = 0
    /\ steps = 0 /\ failure = "none"

-----------------------------------------------------------------------------

(* now.checked_add(t), or `other` when no Instant can hold it. *)
CheckedAdd(t, other) == IF now + t > MaxInstant THEN other ELSE now + t

Begin(end) ==
    /\ ~running
    /\ running' = TRUE /\ began' = now /\ limit' = end

(* The sources (with their hooks and attempts) and then the restore. *)
GetSources ==
    /\ phase \in {"sources", "restore"} /\ failure = "none"
    /\ Begin(deadline)
    /\ UNCHANGED <<now, asked, phase, limits, steps, failure>>

(* Mutant: the steps have a limit of their own, whatever is left of the job's. *)
BeginSteps_OwnLimit ==
    /\ phase = "ready"
    /\ phase' = "steps"
    /\ scriptDeadline' = IF scriptTimeout = 0 THEN deadline
                         ELSE CheckedAdd(scriptTimeout, deadline)
    /\ stepsFrom' = now
    /\ UNCHANGED <<now, asked, running, began, limit, deadline, steps, failure>>

(* Mutant: a timeout of zero is one. *)
BeginSteps_Zero ==
    /\ phase = "ready"
    /\ phase' = "steps"
    /\ scriptDeadline' = Smaller(CheckedAdd(scriptTimeout, deadline), deadline)
    /\ stepsFrom' = now
    /\ UNCHANGED <<now, asked, running, began, limit, deadline, steps, failure>>

(* RUNNER_SCRIPT_TIMEOUT caps the steps within the job timeout. *)
BeginSteps ==
    /\ phase = "ready"
    /\ phase' = "steps"
    /\ scriptDeadline' = IF scriptTimeout = 0 THEN deadline
                         ELSE Smaller(CheckedAdd(scriptTimeout, deadline), deadline)
    /\ stepsFrom' = now
    /\ UNCHANGED <<now, asked, running, began, limit, deadline, steps, failure>>

(* A step; after a failure, one whose `when` says so.                        *)
RunStep ==
    /\ phase = "steps" /\ steps < MaxSteps
    /\ Begin(scriptDeadline)
    /\ steps' = steps + 1
    /\ UNCHANGED <<now, asked, phase, limits, failure>>

Wanted == CASE afterTimeout > 0 -> afterTimeout
            [] afterTimeout = 0 /\ stepTimeout > 0 -> stepTimeout
            [] OTHER -> DefaultAfter

(* Mutants: what is left of the job's time; no cap; the sum is not checked.  *)
AfterLimit_JobOnly == Smaller(CheckedAdd(Wanted, deadline), deadline)
AfterLimit_NoCap == CheckedAdd(Wanted, now + DefaultAfter)

(* "after_script may not outlive the job timeout (it keeps a runner slot),   *)
(* but always gets the default grace".                                      *)
AfterLimit ==
    LET cap == Larger(deadline, now + DefaultAfter)
    IN  Smaller(CheckedAdd(Wanted, cap), cap)

RunAfterScript ==
    /\ phase = "steps"
    /\ phase' = "after"
    /\ Begin(AfterLimit)
    /\ UNCHANGED <<now, asked, limits, steps, failure>>

NoAfterScript ==
    /\ phase = "steps" /\ ~running
    /\ phase' = "over"
    /\ UNCHANGED <<now, asked, running, began, limit, limits, steps, failure>>

(* What runs is over, with a failure of its own or none. *)
Over(reason) ==
    /\ running' = FALSE /\ began' = now /\ limit' = 0
    /\ failure' = IF phase # "after" /\ failure = "none" THEN reason ELSE failure
    /\ phase' = CASE phase = "sources" /\ failure' = "none" -> "restore"
                  [] phase = "sources" /\ failure' # "none" -> "ready"
                  [] phase = "restore" -> "ready"
                  [] phase = "steps" -> "steps"
                  [] phase = "after" -> "over"
    /\ UNCHANGED <<now, asked, limits, steps>>

Ends == running /\ \E reason \in {"none", "script"} : Over(reason)

(* timed_out *)
Stopped == running /\ now >= limit /\ Over("timeout")

(* A script is stopped at its limit; the task pauses for requests that end.  *)
Tick ==
    /\ phase # "over"
    /\ now < IF running THEN limit ELSE began + MaxPause
    /\ now' = now + 1
    /\ UNCHANGED <<asked, phase, running, began, limit, limits, steps, failure>>

Next ==
    \/ GetSources \/ BeginSteps \/ RunStep \/ RunAfterScript \/ NoAfterScript
    \/ Ends \/ Stopped \/ Tick

Spec == Init /\ [][Next]_vars

-----------------------------------------------------------------------------
(* Properties *)

(* Types; every instant is one an Instant can hold.                          *)
TypeOK ==
    /\ timeout \in JobTimeouts /\ stepTimeout \in StepTimeouts
    /\ scriptTimeout \in StageTimeouts /\ afterTimeout \in StageTimeouts
    /\ phase \in {"sources", "restore", "ready", "steps", "after", "over"}
    /\ running \in BOOLEAN
    /\ {now, began, limit, deadline, scriptDeadline, stepsFrom} \subseteq 0 .. MaxInstant
    /\ steps \in 0 .. MaxSteps
    /\ failure \in {"none", "timeout", "script"}

(* "Caps the script steps inside the job timeout" (docs/pipelines.md:16): no *)
(* step runs on after the job's time or the steps' own is over, also when    *)
(* the sources, the restore or a step before took most of it.                *)
StepsInTime ==
    running /\ phase # "after" =>
      /\ now <= Larger(began, Timeout)
      /\ phase = "steps" /\ scriptTimeout > 0 => now <= Larger(began, stepsFrom + scriptTimeout)

(* "after_script may not outlive the job timeout (it keeps a runner slot),   *)
(* but always gets the default grace" (executor.rs:448), whatever it asks    *)
(* for: it runs no longer than either, ...                                  *)
SlotIsFreed ==
    running /\ phase = "after" => now <= Larger(Timeout, began + DefaultAfter)

(* ... and is not stopped before it had the grace, or what it asked for,     *)
(* also when it begins after the job's time is over.                         *)
GivesGrace == phase = "after" /\ Stopped => now >= began + Smaller(Wanted, DefaultAfter)
GraceIsGiven == [][GivesGrace]_vars

(* A job fails as timed out only when its time, or that of its steps, was    *)
(* over.                                                                    *)
TimesOutTruly ==
    failure = "none" /\ failure' = "timeout" =>
        \/ now >= Timeout
        \/ phase = "steps" /\ scriptTimeout > 0 /\ now >= stepsFrom + scriptTimeout
TimeoutIsTrue == [][TimesOutTruly]_vars

=============================================================================
