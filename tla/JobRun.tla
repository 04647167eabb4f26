------------------------------- MODULE JobRun -------------------------------
(***************************************************************************)
(* One run of RunnerDaemon::run_job: preparing the workspace, the executor *)
(* with its sources, restore and script steps (run_job_steps), the uploads *)
(* the cleanup and the report to GitLab, beside the heartbeat task, the    *)
(* runner's shutdown and the job's own life at GitLab.                     *)
(*                                                                         *)
(* Four actors meet here: the job's task, its heartbeat, GitLab and the    *)
(* signal handler.  They share the CancelSignal, the shutdown channel and  *)
(* the state GitLab has of the job.                                        *)
(***************************************************************************)
EXTENDS Integers, Sequences, FiniteSets

CONSTANTS
    Steps,              \* the steps of the payload, with the after_script last
    Artifacts,          \* the `when` of each artifacts entry
    Caches,             \* the `when` of each cache entry that pushes
    SourceAttempts,     \* GET_SOURCES_ATTEMPTS
    ReportAttempts      \* MAX_ATTEMPTS of update_job

Whens == {"on_success", "on_failure", "always"}

ASSUME RunAssumption ==
    /\ Steps \in Seq([when : Whens, allow_failure : BOOLEAN, after : BOOLEAN])
    /\ Artifacts \subseteq Whens
    /\ Caches \subseteq Whens
    /\ SourceAttempts \in Nat \ {0}
    /\ ReportAttempts \in Nat \ {0}

(* GitLab sends the after_script as the last step. *)
ASSUME AfterScriptIsLast ==
    \A i \in 1..Len(Steps) : Steps[i].after => i = Len(Steps)

VARIABLES
    pc,                 \* where the job's task is
    step,               \* the step it is at
    attempt,            \* of the checkout, later of the report
    outcome,            \* JobOutcome: "ok" or the reason of the failure
    todo,               \* archives still to upload, or caches to save
    expired,            \* the deadlines that have passed
    cancel,             \* the CancelSignal
    abort,              \* the runner's Shutdown is Abort
    heartbeat,          \* the heartbeat task
    stopped,            \* stopped_by_shutdown
    result,             \* what run_job returns
    gitlab,             \* GitLab's state of the job
    uploaded, saved,    \* archives GitLab has, caches saved
    told,               \* history: the CI_JOB_STATUS after_script saw
    bad                 \* history: the kinds of failure the job met

taskVars    == <<pc, step, attempt, outcome, todo, stopped, result>>
signalVars  == <<expired, cancel, abort, heartbeat>>
effectVars  == <<uploaded, saved>>
historyVars == <<told, bad>>
vars == <<taskVars, signalVars, gitlab, effectVars, historyVars>>

Reasons  == {"script", "timeout", "canceled", "system"}
Final    == {"success", "failed", "canceled"}
Rank     == [Running |-> 0, Canceling |-> 1, Aborted |-> 2]

(* Where run_job_steps or the rest of Executor::execute runs. *)
Executing == {"pull", "create", "pre_sources", "checkout", "reset",
              "post_sources", "restore", "steps", "step"}

Init ==
    /\ pc = "prepare" /\ step = 1 /\ attempt = 1
    /\ outcome = "ok" /\ todo = {}
    /\ expired = {} /\ cancel = "Running"
    /\ abort \in BOOLEAN
    /\ heartbeat = "alive"
    /\ stopped = FALSE /\ result = "none"
    /\ gitlab = "running"
    /\ uploaded = {} /\ saved = {}
    /\ told = "none" /\ bad = {}

-----------------------------------------------------------------------------
(* GitLab, the signal handler and the clocks. *)

(* A user cancels the job: GitLab waits for the runner, or does not. *)
UserCancels ==
    /\ \/ gitlab = "running" /\ gitlab' \in {"canceling", "canceled"}
       \/ gitlab = "canceling" /\ gitlab' = "canceled"
    /\ UNCHANGED <<taskVars, signalVars, effectVars, historyVars>>

(* GitLab's own job timeout. *)
GitLabGivesUp ==
    /\ gitlab \in {"running", "canceling"}
    /\ gitlab' = "failed"
    /\ UNCHANGED <<taskVars, signalVars, effectVars, historyVars>>

(* SIGTERM or SIGINT. *)
RequestAbort ==
    /\ ~abort
    /\ pc # "done"
    /\ abort' = TRUE
    /\ UNCHANGED <<taskVars, expired, cancel, heartbeat, gitlab, effectVars,
                   historyVars>>

(* The job timeout, which ends the script steps too; RUNNER_SCRIPT_TIMEOUT, *)
(* which runs from the first step on; the timeout of the after_script.      *)
Expire(d) ==
    /\ d \notin expired
    /\ \/ d = "job" /\ pc \in Executing \ {"pull", "create"}
       \/ d = "script" /\ pc \in {"steps", "step"}
       \/ d = "after" /\ pc = "step" /\ Steps[step].after
    /\ expired' = expired \cup {d}
                          \cup (IF d = "job" THEN {"script"} ELSE {})
    /\ UNCHANGED <<taskVars, cancel, abort, heartbeat, gitlab, effectVars,
                   historyVars>>

(* Mutant: only a canceled job is over. *)
RemoteState_CanceledOnly ==
    CASE gitlab \in {"running", "failed"} -> "Running"
      [] gitlab = "canceling"             -> "Canceling"
      [] OTHER                            -> "Aborted"

(* RemoteState::from_response. *)
RemoteState ==
    CASE gitlab = "running"   -> "Running"
      [] gitlab = "canceling" -> "Canceling"
      [] OTHER                -> "Aborted"

(* Mutant of update: the last state heard wins. *)
Update_Latest(state) == cancel' = state

(* CancelSignal::update: the state only escalates. *)
Update(state) ==
    cancel' = IF Rank[state] > Rank[cancel] THEN state ELSE cancel

(* An answer to a trace flush of the task; flushes happen at its writes. *)
TraceAnswered ==
    /\ pc \notin {"cleanup", "judge", "check", "report", "done"}
    /\ Update(RemoteState)
    /\ UNCHANGED <<taskVars, expired, abort, heartbeat, gitlab, effectVars,
                   historyVars>>

-----------------------------------------------------------------------------
(* The heartbeat: spawn_heartbeat.  When the task drops it while another   *)
(* worker is polling it, that one poll still runs to its end ("last").     *)

EndsPoll(h) == heartbeat' = IF h = "last" THEN "gone" ELSE h

(* touch_job answered. *)
Touch ==
    /\ heartbeat \in {"alive", "last"}
    /\ Update(RemoteState)
    /\ EndsPoll(heartbeat)
    /\ UNCHANGED <<taskVars, expired, abort, gitlab, effectVars, historyVars>>

(* abort_requested resolved. *)
HeartbeatAborts ==
    /\ heartbeat \in {"alive", "last"}
    /\ abort
    /\ Update("Aborted")
    /\ heartbeat' = "gone"
    /\ UNCHANGED <<taskVars, expired, abort, gitlab, effectVars, historyVars>>

HeartbeatDropped ==
    /\ heartbeat = "last"
    /\ heartbeat' = "gone"
    /\ UNCHANGED <<taskVars, expired, cancel, abort, gitlab, effectVars,
                   historyVars>>

-----------------------------------------------------------------------------
(* The task: prepare, and the executor's own setup.                        *)

env == <<expired, cancel, abort, heartbeat, gitlab, effectVars>>

(* get_or_insert: the first failure is the job's. *)
OrElse(o, reason) == IF o = "ok" THEN reason ELSE o

(* Carry on at `next`; a failure of the run itself is the job's. *)
Continue(next) ==
    /\ pc' = next
    /\ UNCHANGED <<outcome, bad>>
FailTo(next, reason) ==
    /\ pc' = next
    /\ outcome' = OrElse(outcome, reason)
    /\ bad' = bad \cup {"run"}

(* Executor::prepare and the project directory. *)
Prepare ==
    /\ pc = "prepare"
    /\ Continue("pull") \/ FailTo("uploads", "system")
    /\ UNCHANGED <<step, attempt, todo, stopped, result, env, told>>

(* Image pulls have no deadline; only an abort interrupts them. *)
PullEnds ==
    /\ pc = "pull"
    /\ Continue("create") \/ FailTo("release", "system")
    /\ UNCHANGED <<step, attempt, todo, stopped, result, env, told>>

PullAborted ==
    /\ pc = "pull"
    /\ cancel = "Aborted"
    /\ FailTo("release", "canceled")
    /\ UNCHANGED <<step, attempt, todo, stopped, result, env, told>>

(* Containers, services, file variables; the shell executor has less. *)
Create ==
    /\ pc = "create"
    /\ Continue("pre_sources") \/ FailTo("release", "system")
    /\ UNCHANGED <<step, attempt, todo, stopped, result, env, told>>

(* catch_unwind: a panic of the executor fails the job. *)
Panic ==
    /\ pc \in Executing
    /\ pc' = "release"
    /\ outcome' = "system"
    /\ bad' = bad \cup {"panic"}
    /\ UNCHANGED <<step, attempt, todo, stopped, result, env, told>>

-----------------------------------------------------------------------------
(* Scripts: ScriptRunner::run with its Limits.                             *)

(* How the script's own end may look to run, and how its limits end it. *)
Exits == {"exit0", "exit1", "error"}
Interrupts(deadline, stopAt) ==
    (IF deadline \in expired THEN {"timeout"} ELSE {})
      \cup (IF Rank[cancel] >= Rank[stopAt] THEN {"canceled"} ELSE {})

ReasonOf(r) ==
    CASE r = "exit1" -> "script"
      [] r = "error" -> "system"
      [] OTHER       -> r

(* run_hook. *)
HookEnds(r) ==
    /\ pc \in {"pre_sources", "post_sources"}
    /\ IF r = "exit0"
         THEN Continue(IF pc = "pre_sources" THEN "checkout" ELSE "restore")
         ELSE FailTo("steps", ReasonOf(r))
    /\ UNCHANGED <<step, attempt, todo, stopped, result, env, told>>

(* Mutant: one attempt too many. *)
MayRetry_OneMore(n, attempts) == n <= attempts

MayRetry(n, attempts) == n < attempts

(* checkout: a failing attempt but the last is followed by a reset script. *)
CheckoutEnds(r) ==
    /\ pc = "checkout"
    /\ \/ r = "exit0" /\ Continue("post_sources")
       \/ /\ r = "exit1" /\ MayRetry(attempt, SourceAttempts)
          /\ Continue("reset")
       \/ /\ r # "exit0"
          /\ ~(r = "exit1" /\ MayRetry(attempt, SourceAttempts))
          /\ FailTo("steps", ReasonOf(r))
    /\ UNCHANGED <<step, attempt, todo, stopped, result, env, told>>

(* The result of the reset script is dropped. *)
ResetEnds(r) ==
    /\ pc = "reset"
    /\ pc' = "checkout"
    /\ attempt' = attempt + 1
    /\ UNCHANGED <<step, outcome, todo, stopped, result, env, told, bad>>

(* Restore: its select, and the wait for what it interrupted. *)
RestoreEnds(r) ==
    /\ pc = "restore"
    /\ r # "error"
    /\ IF r = "exit0" THEN Continue("steps") ELSE FailTo("steps", ReasonOf(r))
    /\ UNCHANGED <<step, attempt, todo, stopped, result, env, told>>

SourcesStep(r) ==
    HookEnds(r) \/ CheckoutEnds(r) \/ ResetEnds(r) \/ RestoreEnds(r)

-----------------------------------------------------------------------------
(* The loop over the steps in run_job_steps.                               *)

StepsOver ==
    /\ pc = "steps"
    /\ step > Len(Steps)
    /\ pc' = "release"
    /\ UNCHANGED <<step, attempt, outcome, todo, stopped, result, env,
                   historyVars>>

StepsAborted ==
    /\ pc = "steps"
    /\ step <= Len(Steps)
    /\ cancel = "Aborted"
    /\ FailTo("release", "canceled")
    /\ UNCHANGED <<step, attempt, todo, stopped, result, env, told>>

(* The outcome once the loop has looked at the cancel signal. *)
Known == IF ~Steps[step].after /\ cancel # "Running"
           THEN OrElse(outcome, "canceled")
           ELSE outcome

Wanted(when, succeeded) ==
    CASE when = "always"     -> TRUE
      [] when = "on_failure" -> ~succeeded
      [] OTHER               -> succeeded

(* CI_JOB_STATUS. *)
JobStatus(o) ==
    CASE o = "ok"       -> "success"
      [] o = "canceled" -> "canceled"
      [] OTHER          -> "failed"

NextStep ==
    /\ pc = "steps"
    /\ step <= Len(Steps)
    /\ cancel # "Aborted"
    /\ outcome' = Known
    /\ bad' = bad \cup (IF Known # outcome THEN {"run"} ELSE {})
    /\ IF Wanted(Steps[step].when, Known = "ok")
         THEN /\ pc' = "step"
              /\ told' = IF Steps[step].after THEN JobStatus(Known) ELSE told
              /\ UNCHANGED step
         ELSE /\ step' = step + 1
              /\ UNCHANGED <<pc, told>>
    /\ UNCHANGED <<attempt, todo, stopped, result, env>>

(* Mutants: an after_script without a deadline of its own, and one whose    *)
(* timeout or cancel counts.                                                *)
StepInterrupts_NoLimit(s) ==
    IF s.after THEN Interrupts("none", "Aborted")
               ELSE Interrupts("script", "Canceling")
Ignored_ExitOnly(s, r) == r = "exit1" /\ (s.after \/ s.allow_failure)

StepInterrupts(s) ==
    IF s.after THEN Interrupts("after", "Aborted")
               ELSE Interrupts("script", "Canceling")

(* The results that change nothing. *)
Ignored(s, r) == s.after \/ (r = "exit1" /\ s.allow_failure)

StepEnds(r) ==
    /\ pc = "step"
    /\ LET s == Steps[step]
           passes == r = "exit0"
           blot == ~(passes \/ s.after \/ (r = "exit1" /\ s.allow_failure))
       IN  /\ outcome' = IF passes \/ Ignored(s, r)
                           THEN outcome ELSE OrElse(outcome, ReasonOf(r))
           /\ bad' = bad \cup (IF blot THEN {"run"} ELSE {})
    /\ pc' = "steps"
    /\ step' = step + 1
    /\ UNCHANGED <<attempt, todo, stopped, result, env, told>>

(* A script ends by itself, or one of its limits ends it. *)
ScriptExits ==
    \E r \in Exits :
        \/ SourcesStep(r)
        \/ StepEnds(r)
ScriptStopped ==
    \/ \E r \in Interrupts("job", "Canceling") : SourcesStep(r)
    \/ pc = "step" /\ \E r \in StepInterrupts(Steps[step]) : StepEnds(r)

-----------------------------------------------------------------------------
(* run_job after the executor.                                             *)

(* The executor's own cleanup: DockerExecutor::release. *)
Release ==
    /\ pc = "release"
    /\ pc' = "uploads"
    /\ UNCHANGED <<step, attempt, outcome, todo, stopped, result, env,
                   historyVars>>

(* Aborted jobs upload nothing. *)
BeginUploads ==
    /\ pc = "uploads"
    /\ IF cancel = "Aborted"
         THEN pc' = "cleanup" /\ UNCHANGED todo
         ELSE /\ pc' = "upload"
              /\ todo' = {a \in Artifacts : Wanted(a, outcome = "ok")}
    /\ UNCHANGED <<step, attempt, outcome, stopped, result, env, historyVars>>

(* One archive; it may also fail after its retries. *)
Upload(a) ==
    /\ pc = "upload"
    /\ a \in todo
    /\ todo' = todo \ {a}
    /\ \/ uploaded' = uploaded \cup {a} /\ UNCHANGED bad
       \/ bad' = bad \cup {"upload"} /\ UNCHANGED uploaded
    /\ UNCHANGED <<pc, step, attempt, outcome, stopped, result, signalVars,
                   gitlab, saved, told>>

(* Mutants: an upload failure only warns; the caches look at the outcome   *)
(* before the uploads.                                                     *)
UploadsOver_Warns ==
    /\ pc = "upload"
    /\ todo = {}
    /\ pc' = "cache"
    /\ todo' = {c \in Caches : Wanted(c, outcome = "ok")}
    /\ UNCHANGED <<step, attempt, outcome, stopped, result, env, historyVars>>
UploadsOver_StaleOutcome ==
    /\ pc = "upload"
    /\ todo = {}
    /\ pc' = "cache"
    /\ outcome' = IF "upload" \in bad THEN OrElse(outcome, "script")
                                      ELSE outcome
    /\ todo' = {c \in Caches : Wanted(c, outcome = "ok")}
    /\ UNCHANGED <<step, attempt, stopped, result, env, historyVars>>

(* An upload failure fails a job that otherwise succeeded. *)
UploadsOver ==
    /\ pc = "upload"
    /\ todo = {}
    /\ pc' = "cache"
    /\ outcome' = IF "upload" \in bad THEN OrElse(outcome, "script")
                                      ELSE outcome
    /\ todo' = {c \in Caches : Wanted(c, outcome' = "ok")}
    /\ UNCHANGED <<step, attempt, stopped, result, env, historyVars>>

(* One cache; a failed save is only logged. *)
SaveCache(c) ==
    /\ pc = "cache"
    /\ c \in todo
    /\ cancel # "Aborted"
    /\ todo' = todo \ {c}
    /\ saved' \in {saved, saved \cup {c}}
    /\ UNCHANGED <<pc, step, attempt, outcome, stopped, result, signalVars,
                   gitlab, uploaded, historyVars>>

CachesOver ==
    /\ pc = "cache"
    /\ todo = {} \/ cancel = "Aborted"
    /\ pc' = "cleanup"
    /\ todo' = {}
    /\ UNCHANGED <<step, attempt, outcome, stopped, result, env, historyVars>>

(* Executor::cleanup, the workspace's registration, drop(_heartbeat). *)
Cleanup ==
    /\ pc = "cleanup"
    /\ pc' = "judge"
    /\ heartbeat' \in IF heartbeat = "alive" THEN {"last", "gone"}
                                            ELSE {heartbeat}
    /\ UNCHANGED <<step, attempt, outcome, todo, stopped, result, expired,
                   cancel, abort, gitlab, effectVars, historyVars>>

(* Mutant: a job the shutdown stopped is reported as canceled. *)
Judge_NoRelabel ==
    /\ pc = "judge"
    /\ pc' = "finish"
    /\ stopped' = abort
    /\ UNCHANGED <<step, attempt, outcome, todo, result, env, historyVars>>

(* Jobs stopped by a runner shutdown are the runner's failure. *)
Judge ==
    /\ pc = "judge"
    /\ pc' = "finish"
    /\ stopped' = abort
    /\ outcome' = IF abort /\ outcome = "canceled" THEN "system" ELSE outcome
    /\ UNCHANGED <<step, attempt, todo, result, env, historyVars>>

(* trace.finish: its answers are TraceAnswered. *)
FinishTrace ==
    /\ pc = "finish"
    /\ pc' = "check"
    /\ UNCHANGED <<step, attempt, outcome, todo, stopped, result, env,
                   historyVars>>

(* Mutant: a job GitLab still waits for counts as canceled too. *)
GoneFromGitLab_Canceling == cancel # "Running" /\ ~stopped

(* Canceled in GitLab: it already has the final state. *)
GoneFromGitLab == cancel = "Aborted" /\ ~stopped

Check ==
    /\ pc = "check"
    /\ IF GoneFromGitLab
         THEN pc' = "done" /\ result' = "ok" /\ UNCHANGED attempt
         ELSE pc' = "report" /\ attempt' = 1 /\ UNCHANGED result
    /\ UNCHANGED <<step, outcome, todo, stopped, env, historyVars>>

-----------------------------------------------------------------------------
(* update_job: one attempt, from its request to its answer.                *)

(* What GitLab makes of a final state it processes. *)
Recorded == IF gitlab = "canceling" THEN "canceled"
            ELSE IF outcome = "ok" THEN "success" ELSE "failed"

Return(r) == pc' = "done" /\ result' = r /\ UNCHANGED attempt
Retry == IF MayRetry(attempt, ReportAttempts)
           THEN attempt' = attempt + 1 /\ UNCHANGED <<pc, result>>
           ELSE Return("error")

(* 200, or the answer is lost after GitLab processed the request. *)
ReportTaken ==
    /\ pc = "report"
    /\ gitlab \notin Final
    /\ gitlab' = Recorded
    /\ Return("ok") \/ Retry
    /\ UNCHANGED <<step, outcome, todo, stopped, signalVars, effectVars,
                   historyVars>>

(* 202, a server error, or the request is lost: tried again. *)
ReportUnanswered ==
    /\ pc = "report"
    /\ Retry
    /\ UNCHANGED <<step, outcome, todo, stopped, env, historyVars>>

(* 403 or 404 once the job is over; any other status at any time. *)
ReportRejected ==
    /\ pc = "report"
    /\ Return("error")
    /\ UNCHANGED <<step, outcome, todo, stopped, env, historyVars>>

(* The run is over and nothing else happens to the job. *)
Over == pc = "done" /\ UNCHANGED vars

-----------------------------------------------------------------------------
Environment == UserCancels \/ GitLabGivesUp \/ RequestAbort
                 \/ (\E d \in {"job", "script", "after"} : Expire(d))
Heartbeat == Touch \/ HeartbeatAborts \/ HeartbeatDropped

(* The steps of the task that depend on nothing but local work, requests   *)
(* with a timeout, and limits that have been reached.                      *)
Progress ==
    \/ Prepare \/ PullAborted \/ Create \/ ScriptStopped
    \/ StepsOver \/ StepsAborted \/ NextStep
    \/ Release \/ BeginUploads \/ UploadsOver \/ CachesOver
    \/ (\E a \in Artifacts : Upload(a))
    \/ (\E c \in Caches : SaveCache(c))
    \/ Cleanup \/ Judge \/ FinishTrace \/ Check
    \/ ReportTaken \/ ReportUnanswered \/ ReportRejected

Next == \/ Environment \/ Heartbeat \/ TraceAnswered
        \/ Progress \/ PullEnds \/ ScriptExits \/ Panic
        \/ Over

(* Nothing is assumed of scripts, pulls, clocks or GitLab.  An abort wakes *)
(* the heartbeat, and what the task does by itself goes on.                *)
Spec == Init /\ [][Next]_vars /\ WF_vars(Progress) /\ WF_vars(HeartbeatAborts)

-----------------------------------------------------------------------------
(* Types: in particular the attempts stay within their bounds. *)
TypeOK ==
    /\ pc \in Executing \cup {"prepare", "release", "uploads", "upload",
                 "cache", "cleanup", "judge", "finish", "check", "report",
                 "done"}
    /\ step \in 1..(Len(Steps) + 1)
    /\ attempt \in 1..(IF pc \in {"report", "done"}
                         THEN IF SourceAttempts > ReportAttempts
                                THEN SourceAttempts ELSE ReportAttempts
                         ELSE SourceAttempts)
    /\ outcome \in Reasons \cup {"ok"}
    /\ todo \subseteq Whens
    /\ expired \subseteq {"job", "script", "after"}
    /\ cancel \in DOMAIN Rank
    /\ abort \in BOOLEAN
    /\ heartbeat \in {"alive", "last", "gone"}
    /\ stopped \in BOOLEAN
    /\ result \in {"none", "ok", "error"}
    /\ gitlab \in Final \cup {"running", "canceling"}
    /\ uploaded \subseteq Artifacts
    /\ saved \subseteq Caches
    /\ told \in {"none", "success", "canceled", "failed"}
    /\ bad \subseteq {"run", "upload", "panic"}

Decided == pc \in {"finish", "check", "report", "done"}

(* The final verdict is a success exactly when nothing went wrong that     *)
(* counts: no failed setup, sources, restore or step (other than           *)
(* allow_failure steps and the after_script), no noticed cancel, no failed *)
(* upload, no panic.                                                       *)
VerdictIsEarned == Decided => (outcome = "ok" <=> bad = {})

(* What CI_JOB_STATUS told the after_script is how the job ends, unless    *)
(* an upload fails afterwards, the executor panics, or the runner takes    *)
(* the blame for a cancel.                                                 *)
AfterScriptKnows ==
    Decided /\ "panic" \notin bad =>
      /\ told = "success"  => outcome = "ok" \/ "upload" \in bad
      /\ told = "canceled" => outcome = "canceled" \/ (stopped /\ outcome = "system")
      /\ told = "failed"   => outcome \notin {"ok", "canceled"}

(* Only jobs GitLab canceled or gave up end as canceled: one the shutdown  *)
(* stopped is reported as the runner's failure.                            *)
CancelIsNotOurs ==
    pc \in {"finish", "check", "report"} /\ outcome = "canceled"
      => gitlab # "running"

(* A cache is saved under the `when` of the verdict that is reported.      *)
CachesMatchVerdict ==
    Decided => \A c \in saved : Wanted(c, outcome = "ok")

(* A run that returns without an error leaves the job in a final state at  *)
(* GitLab, unless the runner is told to abort after the run has asked.     *)
FinishedIsFinal ==
    pc = "done" /\ result = "ok" /\ (abort => stopped) => gitlab \in Final

(* Once the runner is told to abort, the run ends: no script, pull,        *)
(* restore or clock is needed for it.                                      *)
AbortEndsRun == abort ~> pc = "done"

(* Once GitLab has no use for the job, the run ends, if the heartbeats are *)
(* answered: no script, pull or deadline is needed for it.                 *)
GoneEndsRun ==
    WF_vars(Touch) => (gitlab \in {"canceled", "failed"} ~> pc = "done")

(* The run ends even if its scripts never do, when the pulls end and the   *)
(* deadlines pass: GitLab is not needed for it.                            *)
DeadlinesPass == WF_vars(PullEnds)
                   /\ \A d \in {"job", "script", "after"} : WF_vars(Expire(d))
DeadlinesEndRun == DeadlinesPass => <>(pc = "done")

-----------------------------------------------------------------------------
(* What the documentation says and the code does not do.                   *)

(* An upload failure fails a job that otherwise succeeded, since the next  *)
(* stage would miss its inputs: a success has all its artifacts.           *)
SuccessHasArtifacts ==
    gitlab = "success" => {a \in Artifacts : Wanted(a, TRUE)} \subseteq uploaded

(* A run always reports a final state to GitLab, if it does not fail to.   *)
AlwaysReports == pc = "done" /\ result = "ok" => gitlab \in Final
=============================================================================
