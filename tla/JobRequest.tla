------------------------------ MODULE JobRequest ------------------------------
(***************************************************************************)
(* A job request and what becomes of an answer the runner cannot use:      *)
(* GitLabClient::request_job of src/gitlab/mod.rs, as the daemon loop      *)
(* calls it.  GitLab assigns the job when it answers, so a job whose       *)
(* payload cannot be parsed has to be explained in its log and failed,     *)
(* with two requests that are each tried several times.  Meanwhile the     *)
(* job may be canceled and the runner asked to stop.                       *)
(***************************************************************************)
EXTENDS Naturals

CONSTANTS
    Jobs,
    Parsable,           \* the jobs whose payload can be parsed
    Identified,         \* the jobs whose id and token can be read
    MaxPatches,         \* max_attempts of retry_with_backoff
    MaxUpdates,         \* MAX_ATTEMPTS of update_job
    NoJob

RequestAssumption ==
    /\ Parsable \subseteq Identified /\ Identified \subseteq Jobs
    /\ MaxPatches \in Nat \ {0} /\ MaxUpdates \in Nat \ {0} /\ NoJob \notin Jobs

VARIABLES
    at,                 \* where the daemon loop is
    job,                \* the job of the answer at hand
    attempt,            \* the attempt of the request under way
    started,            \* the jobs handed to execute_job
    stop,               \* a shutdown was requested
    state,              \* GitLab: the state of each job
    explained,          \* GitLab: the jobs whose log holds the explanation
    late,               \* requests that were given up and may still arrive
    received,           \* the jobs whose assignment reached the runner (history)
    givenUp,            \* the requests of which each attempt failed (history)
    refused             \* the jobs whose update GitLab refused (history)

gitlab  == <<state, explained>>
history == <<received, givenUp, refused>>
vars    == <<at, job, attempt, started, stop, gitlab, late, history>>

Init ==
    /\ at = "wait" /\ job = NoJob /\ attempt = 0 /\ started = {} /\ stop = FALSE
    /\ state = [j \in Jobs |-> "pending"] /\ explained = {} /\ late = {}
    /\ received = {} /\ givenUp = {} /\ refused = {}

-----------------------------------------------------------------------------
(* The loop: a shutdown interrupts the waits, never a request. *)

Poll ==
    /\ at = "wait" /\ at' = "asking"
    /\ UNCHANGED <<job, attempt, started, stop, gitlab, late, history>>

Stop ==
    /\ at = "wait" /\ stop /\ at' = "stopped"
    /\ UNCHANGED <<job, attempt, started, stop, gitlab, late, history>>

Nothing ==
    /\ at = "asking" /\ at' = "wait"
    /\ UNCHANGED <<job, attempt, started, stop, gitlab, late, history>>

Answer(j) ==
    /\ at = "asking" /\ state[j] = "pending"
    /\ state' = [state EXCEPT ![j] = "running"] /\ received' = received \union {j}
    /\ job' = j /\ at' = "answered"
    /\ UNCHANGED <<attempt, started, stop, explained, late, givenUp, refused>>

(* The job is assigned, the answer lost. *)
AnswerLost(j) ==
    /\ at = "asking" /\ state[j] = "pending"
    /\ state' = [state EXCEPT ![j] = "running"] /\ at' = "wait"
    /\ UNCHANGED <<job, attempt, started, stop, explained, late, history>>

Execute ==
    /\ at = "answered" /\ job \in Parsable
    /\ started' = started \union {job} /\ at' = "wait" /\ job' = NoJob
    /\ UNCHANGED <<attempt, stop, gitlab, late, history>>

-----------------------------------------------------------------------------
(* The requests about a job that cannot be parsed. *)

(* Mutant: the job is failed first and explained afterwards. *)
Requests_Swapped == <<"update", "patch">>

Requests == <<"patch", "update">>

Explain ==
    /\ at = "answered" /\ job \in Identified \ Parsable
    /\ at' = Requests[1] /\ attempt' = 1
    /\ UNCHANGED <<job, started, stop, gitlab, late, history>>

(* Without an id and a token nothing can be said of the job. *)
Unidentified ==
    /\ at = "answered" /\ job \notin Identified
    /\ at' = "wait" /\ job' = NoJob
    /\ UNCHANGED <<attempt, started, stop, gitlab, late, history>>

Attempts == [patch |-> MaxPatches, update |-> MaxUpdates]

(* What follows a request, whatever its outcome. *)
Then(request) == IF request = Requests[1] THEN Requests[2] ELSE "wait"

Returns(request) ==
    /\ at' = Then(request) /\ attempt' = IF Then(request) = "wait" THEN 0 ELSE 1
    /\ job' = IF Then(request) = "wait" THEN NoJob ELSE job

(* Mutant: a request is tried again and again. *)
Retry_Forever(request) == UNCHANGED <<at, attempt, job>>

Retry(request) ==
    IF attempt < Attempts[request]
    THEN attempt' = attempt + 1 /\ UNCHANGED <<at, job>>
    ELSE Returns(request)

(* GitLab: a PATCH at offset 0 of a running job with an empty log appends, a *)
(* PUT ends a job that runs; neither does anything to another job.           *)
Handle(request, j) ==
    IF state[j] # "running" THEN UNCHANGED gitlab
    ELSE IF request = "patch"
         THEN explained' = explained \union {j} /\ UNCHANGED state
         ELSE state' = [state EXCEPT ![j] = "failed"] /\ UNCHANGED explained

(* 200 or 202 for the log, 416 when an attempt without an answer has         *)
(* appended; 200 for the update; 403 or 404 when the job does not run: none  *)
(* of these is tried again.                                                  *)
Answered(request) ==
    /\ at = request /\ Handle(request, job) /\ Returns(request)
    /\ UNCHANGED <<started, stop, late, history>>

(* update_job takes every other status for final, too: GitLab did not do     *)
(* what was asked (400, 401, 429), and is not asked again.                   *)
Refused ==
    /\ at = "update" /\ Returns("update") /\ refused' = refused \union {job}
    /\ UNCHANGED <<started, stop, gitlab, late, received, givenUp>>

(* An error of the server or 202 to the PUT, any other status to the PATCH,  *)
(* or no answer: the request is lost, its answer is, or it arrives later.    *)
Fails(request) ==
    /\ at = request
    /\ \/ UNCHANGED <<gitlab, late>>
       \/ Handle(request, job) /\ UNCHANGED late
       \/ late' = late \union {<<request, job>>} /\ UNCHANGED gitlab
    /\ Retry(request)
    /\ givenUp' = givenUp \union {r \in {<<request, job>>} : attempt = Attempts[request]}
    /\ UNCHANGED <<started, stop, received, refused>>

-----------------------------------------------------------------------------
(* GitLab and the people. *)

Arrive(r) ==
    /\ r \in late /\ late' = late \ {r} /\ Handle(r[1], r[2])
    /\ UNCHANGED <<at, job, attempt, started, stop, history>>

Cancel(j) ==
    /\ state[j] \in {"pending", "running"} /\ state' = [state EXCEPT ![j] = "canceled"]
    /\ UNCHANGED <<at, job, attempt, started, stop, explained, late, history>>

(* Mutant: a shutdown drops the request under way. *)
Shutdown_Drops ==
    /\ ~stop /\ stop' = TRUE /\ at' = "wait" /\ job' = NoJob
    /\ UNCHANGED <<attempt, started, gitlab, late, history>>

Shutdown ==
    /\ ~stop /\ stop' = TRUE
    /\ UNCHANGED <<at, job, attempt, started, gitlab, late, history>>

Step ==
    \/ Nothing \/ (\E j \in Jobs : Answer(j) \/ AnswerLost(j))
    \/ Execute \/ Explain \/ Unidentified \/ Refused
    \/ \E request \in {"patch", "update"} : Answered(request) \/ Fails(request)

Next ==
    \/ Poll \/ Stop \/ Step \/ Shutdown
    \/ \E r \in late : Arrive(r)
    \/ \E j \in Jobs : Cancel(j)

(* Every request ends, if only by the client's timeout of 30 seconds. *)
Fairness == WF_vars(Step) /\ WF_vars(Stop)
Spec == Init /\ [][Next]_vars /\ Fairness

-----------------------------------------------------------------------------
TypeOK ==
    /\ at \in {"wait", "asking", "answered", "patch", "update", "stopped"}
    /\ job \in Jobs \union {NoJob} /\ (job = NoJob <=> at \in {"wait", "asking", "stopped"})
    /\ started \subseteq Parsable /\ stop \in BOOLEAN /\ explained \subseteq Jobs
    /\ attempt \in 0..MaxPatches \union 0..MaxUpdates
    /\ state \in [Jobs -> {"pending", "running", "failed", "canceled"}]
    /\ late \subseteq {"patch", "update"} \X Jobs
    /\ received \subseteq Jobs /\ givenUp \subseteq {"patch", "update"} \X Jobs
    /\ refused \subseteq Jobs

(* "The job is already assigned to us; fail it instead of leaving it         *)
(* running" (gitlab/mod.rs:191): a job the runner cannot use is left running *)
(* only when it cannot be named, or when each update failed that is retried  *)
(* "while GitLab answers 202 or on server/network errors" (:232).            *)
RejectedIsFailed ==
    \A j \in received : state[j] = "running" =>
        \/ j = job \/ j \in started \/ j \notin Identified
        \/ <<"update", j>> \in givenUp

(* What holds of it: a single answer of another status also leaves the job   *)
(* running, and nothing else does.  Neither a log that cannot be patched nor *)
(* a shutdown, a lost answer or a late request makes the runner forget it.   *)
NotForgotten ==
    \A j \in received : state[j] = "running" =>
        \/ j = job \/ j \in started \/ j \notin Identified
        \/ <<"update", j>> \in givenUp \/ j \in refused

(* A job this request failed says why in its log, unless each attempt to say *)
(* it failed.                                                                *)
FailedIsExplained ==
    \A j \in Jobs : state[j] = "failed" =>
        j \in explained \/ <<"patch", j>> \in givenUp

(* A payload the runner cannot use never keeps it from the next request, and *)
(* a shutdown ends the loop.                                                 *)
PollsOn == []<>(at \in {"wait", "stopped"})

=============================================================================
