----------------------------- MODULE S3Breaker ------------------------------
(***************************************************************************)
(* Calls to S3 during an outage: Bucket of src/runner_daemon/s3.rs, whose  *)
(* breaker is shared by all jobs.  A call that cannot reach S3 opens it    *)
(* for a cooldown in which calls fail at once; then one of them is a trial.*)
(* Timers count down; Tick is a unit of time.                              *)
(***************************************************************************)
EXTENDS Integers, FiniteSets

CONSTANTS
    Calls,              \* calls that jobs make at the same time
    ATTEMPTS,
    Cooldown,
    Stall,              \* a request or a body fails after this long idle
    MaxDrops            \* calls whose job is canceled (a bound)

BreakerAssumption ==
    /\ ATTEMPTS \in Nat \ {0} /\ Cooldown \in Nat \ {0} /\ Stall \in Nat \ {0}
    /\ MaxDrops \in Nat

VARIABLES
    s3,                 \* how S3 is: up; answering 5xx, or breaking connections;
                        \* unreachable
    tripped,            \* the breaker is Some(until, error)
    left,               \* time until `until`
    pc,
    attempt,
    trial,              \* the attempt is a trial
    timer,              \* of the sleep before a retry, or since data moved
    age,                \* time since the attempt started (history)
    drops

breaker  == <<tripped, left>>
callVars == <<pc, attempt, trial, timer, age>>
vars == <<s3, breaker, callVars, drops>>

Kinds == {"up", "errors", "down"}

Init ==
    /\ s3 = "up" /\ tripped = FALSE /\ left = 0 /\ drops = 0
    /\ pc = [c \in Calls |-> "idle"] /\ attempt = [c \in Calls |-> 0]
    /\ trial = [c \in Calls |-> FALSE] /\ timer = [c \in Calls |-> 0]
    /\ age = [c \in Calls |-> 0]

-----------------------------------------------------------------------------

Skipping == tripped /\ left > 0

Ends(c) ==
    /\ pc' = [pc EXCEPT ![c] = "idle"]
    /\ attempt' = [attempt EXCEPT ![c] = 0]
    /\ trial' = [trial EXCEPT ![c] = FALSE]
    /\ timer' = [timer EXCEPT ![c] = 0]
    /\ age' = [age EXCEPT ![c] = 0]

Trip == tripped' = TRUE /\ left' = Cooldown

(* get_to_file and probe send at once; put_file looks at the breaker before  *)
(* it hashes the archive, without a claim.                                  *)
Call(c) ==
    /\ pc[c] = "idle"
    /\ \/ pc' = [pc EXCEPT ![c] = "check"]
       \/ ~Skipping /\ pc' = [pc EXCEPT ![c] = "hash"]
    /\ UNCHANGED <<s3, breaker, attempt, trial, timer, age, drops>>

Hashed(c) ==
    /\ pc[c] = "hash"
    /\ pc' = [pc EXCEPT ![c] = "check"]
    /\ UNCHANGED <<s3, breaker, attempt, trial, timer, age, drops>>

(* check_breaker, before every attempt: the call fails. *)
Skip(c) ==
    /\ pc[c] = "check" /\ Skipping
    /\ Ends(c)
    /\ UNCHANGED <<s3, breaker, drops>>

(* Mutant: the trial does not hold the others back. *)
Send_NoClaim(c) ==
    /\ pc[c] = "check" /\ ~Skipping
    /\ trial' = [trial EXCEPT ![c] = tripped]
    /\ pc' = [pc EXCEPT ![c] = "sent"]
    /\ timer' = [timer EXCEPT ![c] = 0] /\ age' = [age EXCEPT ![c] = 0]
    /\ UNCHANGED <<s3, breaker, attempt, drops>>

(* Or an attempt is made.  The first after the cooldown is a trial, and      *)
(* keeps the others skipping for another cooldown.                          *)
Send(c) ==
    /\ pc[c] = "check" /\ ~Skipping
    /\ trial' = [trial EXCEPT ![c] = tripped]
    /\ left' = IF tripped THEN Cooldown ELSE left
    /\ pc' = [pc EXCEPT ![c] = "sent"]
    /\ timer' = [timer EXCEPT ![c] = 0] /\ age' = [age EXCEPT ![c] = 0]
    /\ UNCHANGED <<s3, tripped, attempt, drops>>

(* Mutant: an answer leaves the breaker as it is. *)
Answer_KeepsBreaker(c) ==
    /\ pc[c] = "sent" /\ s3 = "up"
    /\ Ends(c)
    /\ UNCHANGED <<s3, breaker, drops>>

(* S3 answers, 4xx included: the breaker closes.  A download reads its body. *)
Answer(c) ==
    /\ pc[c] = "sent" /\ s3 = "up"
    /\ tripped' = FALSE /\ left' = 0
    /\ \/ Ends(c)
       \/ /\ pc' = [pc EXCEPT ![c] = "body"]
          /\ trial' = [trial EXCEPT ![c] = FALSE]
          /\ timer' = [timer EXCEPT ![c] = 0]
          /\ UNCHANGED <<attempt, age>>
    /\ UNCHANGED <<s3, drops>>

(* It cannot be reached, or has stalled: the breaker opens at once.          *)
Unreachable(c) ==
    /\ \/ pc[c] = "sent" /\ s3 = "down"
       \/ pc[c] \in {"sent", "body"} /\ s3 # "up" /\ timer[c] = Stall
       \/ pc[c] = "body" /\ s3 # "up"
    /\ Trip /\ Ends(c)
    /\ UNCHANGED <<s3, drops>>

(* A 5xx, or a connection that breaks: tried again, but for a trial.         *)
Retry(c) ==
    /\ pc[c] = "sent" /\ s3 = "errors"
    /\ IF trial[c] \/ attempt[c] + 1 = ATTEMPTS
         THEN Trip /\ Ends(c)
         ELSE /\ attempt' = [attempt EXCEPT ![c] = @ + 1]
              /\ pc' = [pc EXCEPT ![c] = "sleep"]
              /\ timer' = [timer EXCEPT ![c] = attempt[c] + 1]
              /\ UNCHANGED <<breaker, trial, age>>
    /\ UNCHANGED <<s3, drops>>

(* sleep(retry_delay * attempt) is over. *)
Awake(c) ==
    /\ pc[c] = "sleep" /\ timer[c] = 0
    /\ pc' = [pc EXCEPT ![c] = "check"]
    /\ UNCHANGED <<s3, breaker, attempt, trial, timer, age, drops>>

(* A chunk of the upload or of the download.                                 *)
Chunk(c) ==
    /\ pc[c] \in {"sent", "body"} /\ timer[c] > 0
    /\ timer' = [timer EXCEPT ![c] = 0]
    /\ UNCHANGED <<s3, breaker, pc, attempt, trial, age, drops>>

BodyEnds(c) ==
    /\ pc[c] = "body"
    /\ Ends(c)
    /\ UNCHANGED <<s3, breaker, drops>>

(* Its job is canceled and the call dropped.                                 *)
Drop(c) ==
    /\ pc[c] # "idle" /\ drops < MaxDrops
    /\ drops' = drops + 1
    /\ Ends(c)
    /\ UNCHANGED <<s3, breaker>>

Change == s3' \in Kinds \ {s3} /\ UNCHANGED <<breaker, callVars, drops>>

(* A stall is noticed and a sleep ends in time. *)
Due(c) ==
    \/ pc[c] = "sleep" /\ timer[c] = 0
    \/ pc[c] \in {"sent", "body"} /\ timer[c] = Stall

Tick ==
    /\ \A c \in Calls : ~Due(c)
    /\ left' = IF left > 0 THEN left - 1 ELSE 0
    /\ timer' = [c \in Calls |-> CASE pc[c] = "sleep" -> timer[c] - 1
                                   [] pc[c] \in {"sent", "body"} -> timer[c] + 1
                                   [] OTHER -> 0]
    /\ age' = [c \in Calls |->
         IF pc[c] = "sent" /\ age[c] < Cooldown THEN age[c] + 1 ELSE age[c]]
    /\ UNCHANGED <<s3, tripped, pc, attempt, trial, drops>>

Step(c) ==
    \/ Hashed(c) \/ Skip(c) \/ Send(c) \/ Answer(c) \/ Unreachable(c) \/ Retry(c) \/ Awake(c)
    \/ BodyEnds(c)

Next ==
    \/ \E c \in Calls : Call(c) \/ Step(c) \/ Chunk(c) \/ Drop(c)
    \/ Change \/ Tick

(* Tokio runs what is ready and time passes; jobs keep using the cache.      *)
Fairness ==
    /\ \A c \in Calls : WF_vars(Call(c)) /\ WF_vars(Step(c))
    /\ WF_vars(Tick)

Spec == Init /\ [][Next]_vars
FairSpec == Spec /\ Fairness

-----------------------------------------------------------------------------
(* Properties *)

(* Types; only an attempt in flight is a trial, and it is a call's first     *)
(* in its time.                                                             *)
TypeOK ==
    /\ s3 \in Kinds /\ tripped \in BOOLEAN /\ left \in 0 .. Cooldown
    /\ ~tripped => left = 0
    /\ drops \in 0 .. MaxDrops
    /\ \A c \in Calls :
         /\ pc[c] \in {"idle", "hash", "check", "sent", "body", "sleep"}
         /\ attempt[c] \in 0 .. ATTEMPTS - 1
         /\ trial[c] \in BOOLEAN /\ (trial[c] => pc[c] = "sent")
         /\ timer[c] \in 0 .. (IF Stall > ATTEMPTS THEN Stall ELSE ATTEMPTS)
         /\ age[c] \in 0 .. Cooldown

(* While S3 is away, jobs do not all wait for it: within a cooldown at most  *)
(* one call makes a trial, however many there are, whatever calls from       *)
(* before the outage still do to the breaker.                               *)
OneTrialPerCooldown ==
    Cardinality({c \in Calls : pc[c] = "sent" /\ trial[c] /\ age[c] < Cooldown}) <= 1

(* "One call tries S3 again while the others keep skipping it"               *)
(* (docs/configuration.md:168), as it stands: a trial may stall for as long  *)
(* as the cooldown, which claims the next one (divergence 12).               *)
OneTrial == Cardinality({c \in Calls : pc[c] = "sent" /\ trial[c]}) <= 1

(* When S3 is back for good the breaker does not stay open: some call is a   *)
(* trial, succeeds, and closes it.                                          *)
Recovers == <>[](s3 = "up") => []<>(~tripped)

=============================================================================
