----------------------------- MODULE TraceStream -----------------------------
(***************************************************************************)
(* The job log on its way to GitLab: TraceWriter of                        *)
(* src/runner_daemon/trace.rs over GitLabClient::patch_trace.              *)
(*                                                                         *)
(* The writer appends scrubbed output to `trace`, sends what lies beyond   *)
(* `sent` as a PATCH with the range it covers, tries the same request      *)
(* again when it gets no usable answer, and believes GitLab's answer about *)
(* what is stored.  A request that was given up may still arrive.  A byte  *)
(* is the number under which the job produced it, so a lost, repeated or   *)
(* reordered byte shows in GitLab's log.                                   *)
(***************************************************************************)
EXTENDS Integers, FiniteSets, SequencesExt

CONSTANTS
    Limit,              \* output_limit, in bytes
    MaxAttempts,        \* max_attempts of retry_with_backoff
    FinishAttempts,     \* FINISH_ATTEMPTS
    MaxOutput,          \* bytes the job produces (a bound)
    MaxFlushes          \* flushes while the job runs (a bound)

ASSUME TraceAssumption ==
    /\ Limit \in Nat /\ MaxOutput \in Nat /\ MaxFlushes \in Nat
    /\ MaxAttempts \in Nat \ {0} /\ FinishAttempts \in Nat \ {0}

VARIABLES
    produced,           \* bytes the job has written
    trace,              \* TraceWriter.trace
    truncated,          \* TraceWriter.truncated
    sent,               \* TraceWriter.sent
    cancel,             \* the job's CancelSignal
    phase,              \* open while the job runs, then finish
    tries,              \* flushes of finish so far
    flushes,            \* flushes while open
    attempt,            \* attempt of the PATCH under way, 0 for none
    net,                \* requests under way or given up and still to arrive
    answer,             \* GitLab's answer to the attempt under way
    log,                \* the job's log at GitLab
    status              \* the job's state at GitLab

writerVars == <<produced, trace, truncated>>
callVars   == <<attempt, net, answer>>
gitlabVars == <<log, status>>
vars == <<writerVars, sent, cancel, phase, tries, flushes, callVars, gitlabVars>>

Notice   == 0           \* the line that says the limit was reached
NoAnswer == [code |-> 0, offset |-> 0, remote |-> "Running"]

Strength == [Running |-> 0, Canceling |-> 1, Aborted |-> 2]

Init ==
    /\ produced = 0 /\ trace = <<>> /\ truncated = FALSE
    /\ sent = 0 /\ cancel = "Running"
    /\ phase = "open" /\ tries = 0 /\ flushes = 0
    /\ attempt = 0 /\ net = {} /\ answer = NoAnswer
    /\ log = <<>> /\ status = "running"

-----------------------------------------------------------------------------
(* The writer *)

(* Mutant of append: the notice does not end the output. *)
AppendOutput_NotTruncated(k) ==
    LET bytes == [i \in 1..k |-> produced + i]
        room  == IF Limit > Len(trace) THEN Limit - Len(trace) ELSE 0
    IN  /\ produced' = produced + k
        /\ trace' = IF k <= room THEN trace \o bytes
                     ELSE trace \o SubSeq(bytes, 1, room) \o <<Notice>>
        /\ UNCHANGED truncated

(* append of the next k bytes: cut at the limit, or up to three bytes before *)
(* it at a character boundary, and nothing after that.                       *)
AppendOutput(k) ==
    LET bytes == [i \in 1..k |-> produced + i]
        room  == IF Limit > Len(trace) THEN Limit - Len(trace) ELSE 0
    IN  /\ produced' = produced + k
        /\ \/ /\ truncated
              /\ UNCHANGED <<trace, truncated>>
           \/ /\ ~truncated
              /\ k <= room
              /\ trace' = trace \o bytes
              /\ UNCHANGED truncated
           \/ /\ ~truncated
              /\ k > room
              /\ \E cut \in {c \in 0..room : c >= room - 3} :
                   trace' = trace \o SubSeq(bytes, 1, cut) \o <<Notice>>
              /\ truncated' = TRUE

(* write: the job, its executor or the daemon adds output. *)
Write(k) ==
    /\ phase = "open"
    /\ attempt = 0
    /\ produced + k <= MaxOutput
    /\ AppendOutput(k)
    /\ UNCHANGED <<sent, cancel, phase, tries, flushes, callVars, gitlabVars>>

(* The requests of earlier attempts are no longer waited for. *)
GivenUp(requests) == {[m EXCEPT !.live = FALSE] : m \in requests}

(* Mutant: the whole trace is sent at the offset of the unsent part. *)
Request_WholeTrace == [from |-> sent, body |-> trace, live |-> TRUE]

Request == [from |-> sent, body |-> SubSeq(trace, sent + 1, Len(trace)),
            live |-> TRUE]

Send(n) ==
    /\ attempt' = n
    /\ net' = GivenUp(net) \cup {Request}
    /\ answer' = NoAnswer

(* flush while the job runs: FLUSH_BYTES are pending or the interval passed. *)
Flush ==
    /\ phase = "open"
    /\ attempt = 0
    /\ sent < Len(trace)
    /\ flushes < MaxFlushes
    /\ flushes' = flushes + 1
    /\ Send(1)
    /\ UNCHANGED <<writerVars, sent, cancel, phase, tries, gitlabVars>>

(* finish: what the scrubber held back is appended. *)
Finish(k) ==
    /\ phase = "open"
    /\ attempt = 0
    /\ produced + k <= MaxOutput
    /\ AppendOutput(k)
    /\ phase' = "finish"
    /\ UNCHANGED <<sent, cancel, tries, flushes, callVars, gitlabVars>>

(* Mutant: finish does not count its attempts. *)
FinishFlush_Uncounted ==
    /\ phase = "finish"
    /\ attempt = 0
    /\ sent < Len(trace)
    /\ Send(1)
    /\ UNCHANGED <<writerVars, sent, cancel, phase, tries, flushes, gitlabVars>>

(* One flush of the loop of finish. *)
FinishFlush ==
    /\ phase = "finish"
    /\ attempt = 0
    /\ sent < Len(trace)
    /\ tries' = tries + 1
    /\ Send(1)
    /\ UNCHANGED <<writerVars, sent, cancel, phase, flushes, gitlabVars>>

FinishIdle ==
    /\ phase = "finish"
    /\ attempt = 0
    /\ sent >= Len(trace)
    /\ phase' = "complete"
    /\ UNCHANGED <<writerVars, sent, cancel, tries, flushes, callVars, gitlabVars>>

(* Mutants: any flush ends finish; finish tries once more than it may. *)
FlushReturns_Always(acked) ==
    /\ attempt' = 0
    /\ answer' = NoAnswer
    /\ net' = GivenUp(net)
    /\ phase' = IF phase = "finish" THEN "complete" ELSE phase
FlushReturns_OnceMore(acked) ==
    /\ attempt' = 0
    /\ answer' = NoAnswer
    /\ net' = GivenUp(net)
    /\ \/ phase # "finish" /\ UNCHANGED phase
       \/ phase = "finish" /\ acked >= Len(trace) /\ phase' = "complete"
       \/ /\ phase = "finish" /\ acked < Len(trace)
          /\ phase' = IF tries > FinishAttempts THEN "incomplete" ELSE "finish"

(* flush returns whether GitLab has it all; finish ends on a yes, or after   *)
(* FINISH_ATTEMPTS of them with a warning.                                   *)
FlushReturns(acked) ==
    /\ attempt' = 0
    /\ answer' = NoAnswer
    /\ net' = GivenUp(net)
    /\ \/ phase # "finish" /\ UNCHANGED phase
       \/ phase = "finish" /\ acked >= Len(trace) /\ phase' = "complete"
       \/ /\ phase = "finish" /\ acked < Len(trace)
          /\ phase' = IF tries = FinishAttempts THEN "incomplete" ELSE "finish"

(* patch_trace returns Ok: success, 416 with the offset GitLab reports, or   *)
(* 403.  The state that came with it escalates the cancel signal, and a job  *)
(* that is over takes no more output.                                        *)
TakeAnswer ==
    /\ attempt > 0
    /\ answer # NoAnswer
    /\ LET offset == IF answer.offset < Len(trace) THEN answer.offset
                                                  ELSE Len(trace)
           acked  == IF answer.remote = "Aborted" THEN Len(trace) ELSE offset
       IN  /\ sent' = acked
           /\ FlushReturns(acked)
    /\ cancel' = IF Strength[answer.remote] > Strength[cancel]
                   THEN answer.remote ELSE cancel
    /\ UNCHANGED <<writerVars, tries, flushes, gitlabVars>>

(* Mutant: output that was sent counts as stored without an answer. *)
AttemptFails_CountsSent ==
    /\ attempt > 0
    /\ answer = NoAnswer
    /\ \/ /\ attempt < MaxAttempts
          /\ Send(attempt + 1)
          /\ UNCHANGED <<phase, sent>>
       \/ /\ attempt = MaxAttempts
          /\ sent' = Len(trace)
          /\ FlushReturns(sent')
    /\ UNCHANGED <<writerVars, cancel, tries, flushes, gitlabVars>>

(* The attempt timed out, lost its connection or got an error status: the    *)
(* same request is sent again, or flush returns false.                       *)
AttemptFails ==
    /\ attempt > 0
    /\ answer = NoAnswer
    /\ \/ /\ attempt < MaxAttempts
          /\ Send(attempt + 1)
          /\ UNCHANGED phase
       \/ /\ attempt = MaxAttempts
          /\ FlushReturns(sent)
    /\ UNCHANGED <<writerVars, sent, cancel, tries, flushes, gitlabVars>>

-----------------------------------------------------------------------------
(* GitLab and the network *)

Remote == IF status = "canceling" THEN "Canceling" ELSE "Running"

(* GitLab appends a PATCH that continues its log, says how much it has to    *)
(* one that does not, and refuses one for a job that is over; the answer may *)
(* be lost.                                                                  *)
Serve(m) ==
    /\ net' = net \ {m}
    /\ LET reply ==
             CASE status = "canceled"  -> [code |-> 403, offset |-> m.from,
                                           remote |-> "Aborted"]
               [] status # "canceled" /\ m.from # Len(log)
                                       -> [code |-> 416, offset |-> Len(log),
                                           remote |-> Remote]
               [] OTHER                -> [code |-> 202, offset |-> m.from + Len(m.body),
                                           remote |-> Remote]
       IN  /\ log' = IF reply.code = 202 THEN log \o m.body ELSE log
           /\ \E delivered \in {TRUE, FALSE} :
                answer' = IF m.live /\ delivered THEN reply ELSE answer
    /\ UNCHANGED <<writerVars, sent, cancel, phase, tries, flushes, attempt, status>>

(* A request is lost, or answered with an error before anything is stored. *)
Lose(m) ==
    /\ net' = net \ {m}
    /\ UNCHANGED <<writerVars, sent, cancel, phase, tries, flushes, attempt,
                   answer, gitlabVars>>

(* The job is canceled in GitLab's UI. *)
CancelJob ==
    /\ \/ status = "running" /\ status' \in {"canceling", "canceled"}
       \/ status = "canceling" /\ status' = "canceled"
    /\ UNCHANGED <<writerVars, sent, cancel, phase, tries, flushes, callVars, log>>

-----------------------------------------------------------------------------
Ended == phase \in {"complete", "incomplete"} /\ UNCHANGED vars

WriterStep == FinishFlush \/ FinishIdle \/ TakeAnswer \/ AttemptFails

Next ==
    \/ \E k \in 1..MaxOutput : Write(k)
    \/ \E k \in 0..1 : Finish(k)
    \/ Flush
    \/ WriterStep
    \/ \E m \in net : Serve(m) \/ Lose(m)
    \/ CancelJob
    \/ Ended

(* The writer always moves on: a request ends by its answer, its error or    *)
(* the client's timeout.  The network and GitLab promise nothing.            *)
Spec == Init /\ [][Next]_vars /\ WF_vars(WriterStep)

-----------------------------------------------------------------------------
(* Properties *)

(* Types: in particular `sent` stays within the trace and the retries of    *)
(* patch_trace and of finish stay within their bounds.                      *)
TypeOK ==
    /\ produced \in 0..MaxOutput /\ truncated \in BOOLEAN
    /\ trace \in Seq(0..MaxOutput) /\ log \in Seq(0..MaxOutput)
    /\ sent \in 0..Len(trace)
    /\ cancel \in DOMAIN Strength
    /\ phase \in {"open", "finish", "complete", "incomplete"}
    /\ tries \in 0..FinishAttempts /\ flushes \in 0..MaxFlushes
    /\ attempt \in 0..MaxAttempts
    /\ \A m \in net : m.from \in Nat /\ m.body \in Seq(0..MaxOutput)
    /\ status \in {"running", "canceling", "canceled"}

(* What GitLab has is the beginning of the trace: no byte of the log is      *)
(* lost, repeated or out of order, whatever was retried or came late.        *)
LogIsPrefix == IsPrefix(log, trace)

(* The writer never counts a byte as stored that GitLab does not have, as    *)
(* long as GitLab still takes output.                                        *)
AckedIsStored == sent <= Len(log) \/ cancel = "Aborted"

(* What finish calls complete is: GitLab has the whole trace, or the job is  *)
(* over there.                                                               *)
CompleteIsStored == phase = "complete" => log = trace \/ status = "canceled"

(* The trace is what the job wrote up to the limit, and the notice once.     *)
TraceIsOutput ==
    LET n == Len(trace)
    IN  /\ ~truncated => trace = [i \in 1..produced |-> i] /\ n <= Limit
        /\ truncated => /\ trace[n] = Notice
                        /\ n - 1 <= Limit /\ n - 1 < produced
                        /\ \A i \in 1..(n - 1) : trace[i] = i

(* The acknowledged offset never goes back, so nothing GitLab acknowledged   *)
(* is sent a second time - a 416 only ever reports more than was known.      *)
NeverUnacknowledged == [][sent' >= sent]_vars

(* finish always returns, whatever GitLab and the network do. *)
FinishReturns == phase = "finish" ~> phase \in {"complete", "incomplete"}
-----------------------------------------------------------------------------
(* TraceStream implements JobLog. *)
Kept == INSTANCE JobLog WITH
    Text    <- 0 .. MaxOutput,
    written <- trace,
    kept    <- log,
    wanted  <- status # "canceled",
    place   <- IF phase = "finish" THEN "closed" ELSE phase

(* Through lost, late and repeated requests, a limit and a cancel, the log is *)
(* a text of which GitLab keeps a growing beginning, and that the writer ends *)
(* with the truth about what was kept.                                       *)
ImplementsJobLog == Kept!Spec
=============================================================================
