--------------------------- MODULE DeadlinesProofs ---------------------------
(***************************************************************************)
(* Proofs about Deadlines, for every timeout of the payload and of the     *)
(* variables, every default, every number of steps and any pauses.         *)
(***************************************************************************)
EXTENDS Deadlines, TLAPS

(* TypeOK without a last instant. *)
TypeInv ==
    /\ timeout \in JobTimeouts /\ stepTimeout \in StepTimeouts
    /\ scriptTimeout \in StageTimeouts /\ afterTimeout \in StageTimeouts
    /\ phase \in {"sources", "restore", "ready", "steps", "after", "over"}
    /\ running \in BOOLEAN
    /\ now \in Nat /\ began \in Nat /\ limit \in Nat
    /\ deadline \in Nat /\ scriptDeadline \in Nat /\ stepsFrom \in Nat
    /\ steps \in 0 .. MaxSteps
    /\ failure \in {"none", "timeout", "script"}

(* What runs in which phase, with which limit. *)
LimitInv ==
    /\ deadline = Timeout
    /\ phase = "after" => running
    /\ phase \in {"ready", "over"} => ~running
    /\ running /\ phase \in {"sources", "restore"} => limit = deadline
    /\ running /\ phase = "steps" => limit = scriptDeadline
    /\ ~running => limit = 0

(* The steps' deadline is the job's, or their own when that is earlier. *)
ScriptInv ==
    phase = "steps" =>
        /\ scriptDeadline <= deadline
        /\ scriptTimeout = 0 => scriptDeadline = deadline
        /\ scriptTimeout > 0 =>
             /\ scriptDeadline <= stepsFrom + scriptTimeout
             /\ scriptDeadline \in {deadline, stepsFrom + scriptTimeout}

(* An after_script has its grace, and the slot no longer than that or the    *)
(* job's time.                                                               *)
AfterInv ==
    phase = "after" =>
        /\ limit >= began + Smaller(Wanted, DefaultAfter)
        /\ limit <= Larger(deadline, began + DefaultAfter)

(* Time does not pass a limit that is reached, and a pause ends. *)
ClockInv ==
    /\ began <= now
    /\ running => now <= Larger(began, limit)
    /\ ~running /\ phase # "over" => now <= began + MaxPause

IInv == TypeInv /\ LimitInv /\ ScriptInv /\ AfterInv /\ ClockInv

(* The pauses there were before what runs, or is next, began. *)
Pauses ==
    CASE phase = "sources" -> IF running THEN 1 ELSE 0
      [] phase = "restore" -> IF running THEN 2 ELSE 1
      [] phase = "ready" -> 2
      [] phase = "steps" -> 2 + steps
      [] phase \in {"after", "over"} -> 3 + steps

(* Everything but an after_script begins within the job's time and the       *)
(* pauses.                                                                   *)
PauseInv ==
    /\ phase # "over" => began <= deadline + Pauses * MaxPause
    /\ phase = "over" => now <= deadline + Pauses * MaxPause + DefaultAfter
    /\ scriptDeadline <= deadline /\ stepsFrom <= now

-----------------------------------------------------------------------------
(* The instants the code computes. *)

LEMMA Products ==
  ASSUME NEW p \in Nat, NEW m \in Nat, NEW n \in Nat
  PROVE  /\ n * p \in Nat /\ (n + 1) * p = n * p + p
         /\ m <= n => m * p <= n * p
  <1>1. n * p \in Nat /\ (n + 1) * p = n * p + p
    OBVIOUS
  <1>2. ASSUME m <= n PROVE m * p <= n * p
    <2>1. PICK d \in Nat : n = m + d
      <3>1. n - m \in Nat /\ n = m + (n - m)
        BY <1>2
      <3> QED
        BY <3>1
    <2>2. n * p = m * p + d * p /\ d * p \in Nat /\ m * p \in Nat
      BY <2>1
    <2> QED
      BY <2>2
  <1> QED
    BY <1>1, <1>2

LEMMA SufficeExist ==
  ASSUME DeadlinesAssumption, InstantsSuffice PROVE DeadlineExists
  <1> SUFFICES ASSUME NEW t \in JobTimeouts \union {DefaultJob} PROVE t <= MaxInstant
    BY DEF DeadlineExists
  <1>1. PICK n \in Nat : n = (3 + MaxSteps) * MaxPause
    <2>1. PICK m \in Nat : m = 3 + MaxSteps
      BY DEF DeadlinesAssumption
    <2>2. m * MaxPause \in Nat
      BY Products DEF DeadlinesAssumption
    <2> QED
      BY <2>1, <2>2
  <1>2. t + n + DefaultAfter <= MaxInstant
    BY <1>1 DEF InstantsSuffice
  <1> QED
    BY <1>2 DEF DeadlinesAssumption

LEMMA TimeoutIs ==
  ASSUME DeadlinesAssumption, timeout \in JobTimeouts
  PROVE  Timeout \in Nat /\ Timeout \in JobTimeouts \union {DefaultJob}
  BY DEF DeadlinesAssumption, Timeout

LEMMA WantedIs ==
  ASSUME DeadlinesAssumption, TypeInv
  PROVE  Wanted \in Nat
  BY DEF DeadlinesAssumption, TypeInv, Wanted

(* The after_script's deadline is a time the code may give it. *)
LEMMA AfterLimitIs ==
  ASSUME DeadlinesAssumption, TypeInv
  PROVE  /\ AfterLimit \in Nat
         /\ AfterLimit >= now + Smaller(Wanted, DefaultAfter)
         /\ AfterLimit <= Larger(deadline, now + DefaultAfter)
  <1>1. /\ now \in Nat /\ deadline \in Nat /\ DefaultAfter \in Nat /\ MaxInstant \in Nat
        /\ Wanted \in Nat
    BY WantedIs DEF DeadlinesAssumption, TypeInv
  <1> QED
    BY <1>1 DEF AfterLimit, CheckedAdd, Smaller, Larger

(* What follows when something is over. *)
LEMMA OverEffect ==
  ASSUME DeadlinesAssumption, TypeInv, LimitInv, running,
         NEW reason \in {"none", "timeout", "script"}, Over(reason)
  PROVE  /\ running' = FALSE /\ began' = now /\ limit' = 0
         /\ failure' \in {"none", "timeout", "script"}
         /\ failure' = failure \/ failure' = reason
         /\ \/ phase = "sources" /\ phase' \in {"restore", "ready"}
            \/ phase = "restore" /\ phase' = "ready"
            \/ phase = "steps" /\ phase' = "steps"
            \/ phase = "after" /\ phase' = "over"
         /\ UNCHANGED <<now, timeout, scriptTimeout, afterTimeout, stepTimeout,
                        deadline, scriptDeadline, stepsFrom, steps>>
  <1>1. phase \in {"sources", "restore", "steps", "after"}
    BY DEF TypeInv, LimitInv
  <1>2. failure' = failure \/ failure' = reason
    BY DEF Over
  <1> QED
    BY <1>1, <1>2 DEF Over, asked, limits, TypeInv

-----------------------------------------------------------------------------
(* The invariant holds at the start of a job. *)
LEMMA InitIInv == ASSUME DeadlinesAssumption PROVE Init => IInv
  <1> SUFFICES ASSUME Init PROVE IInv
    OBVIOUS
  <1>1. Timeout \in Nat
    BY TimeoutIs DEF Init
  <1>2. TypeInv
    <2>1. steps \in 0 .. MaxSteps
      BY DEF Init, DeadlinesAssumption
    <2> QED
      BY <1>1, <2>1 DEF Init, TypeInv
  <1> QED
    BY <1>1, <1>2 DEF Init, IInv, LimitInv, ScriptInv, AfterInv, ClockInv, DeadlinesAssumption

(* The sources and the restore have the job's deadline. *)
LEMMA GetSourcesKeeps ==
  ASSUME DeadlinesAssumption, IInv, GetSources PROVE IInv'
  <1>1. /\ phase \in {"sources", "restore"} /\ running' = TRUE /\ began' = now
        /\ limit' = deadline
        /\ UNCHANGED <<now, timeout, scriptTimeout, afterTimeout, stepTimeout, phase,
                       deadline, scriptDeadline, stepsFrom, steps, failure>>
    BY DEF GetSources, Begin, asked, limits
  <1>2. TypeInv'
    BY <1>1 DEF IInv, TypeInv
  <1>3. LimitInv' /\ ScriptInv' /\ AfterInv'
    BY <1>1 DEF IInv, LimitInv, ScriptInv, AfterInv, Timeout
  <1>4. ClockInv'
    BY <1>1 DEF IInv, TypeInv, ClockInv, Larger
  <1> QED
    BY <1>2, <1>3, <1>4 DEF IInv

(* The steps begin, with what is left of the job's time or less. *)
LEMMA BeginStepsKeeps ==
  ASSUME DeadlinesAssumption, DeadlineExists, IInv, BeginSteps PROVE IInv'
  <1> DEFINE sum == CheckedAdd(scriptTimeout, deadline)
  <1>1. /\ phase = "ready" /\ phase' = "steps" /\ stepsFrom' = now /\ ~running
        /\ UNCHANGED <<now, timeout, scriptTimeout, afterTimeout, stepTimeout, running,
                       began, limit, deadline, steps, failure>>
    BY DEF BeginSteps, asked, IInv, LimitInv
  <1>2. /\ now \in Nat /\ deadline \in Nat /\ scriptTimeout \in Nat /\ MaxInstant \in Nat
        /\ deadline <= MaxInstant
    BY TimeoutIs DEF IInv, TypeInv, LimitInv, DeadlinesAssumption, DeadlineExists
  <1>3. scriptDeadline' = IF scriptTimeout = 0 THEN deadline ELSE Smaller(sum, deadline)
    BY DEF BeginSteps
  <1>4. \/ sum = now + scriptTimeout
        \/ sum = deadline /\ deadline <= now + scriptTimeout
    BY <1>2 DEF CheckedAdd
  <1> HIDE DEF sum
  <1>5. /\ scriptDeadline' \in Nat /\ scriptDeadline' <= deadline
        /\ scriptTimeout = 0 => scriptDeadline' = deadline
        /\ scriptTimeout > 0 =>
             /\ scriptDeadline' <= now + scriptTimeout
             /\ scriptDeadline' \in {deadline, now + scriptTimeout}
    <2>1. CASE scriptTimeout = 0
      BY <1>2, <1>3, <2>1
    <2>2. CASE scriptTimeout > 0 /\ sum = deadline
      <3>1. scriptDeadline' = deadline
        BY <1>3, <2>2 DEF Smaller
      <3> QED
        BY <1>2, <1>4, <2>2, <3>1
    <2>3. CASE scriptTimeout > 0 /\ sum = now + scriptTimeout
      <3>1. scriptDeadline' = Smaller(now + scriptTimeout, deadline)
        BY <1>2, <1>3, <2>3
      <3> QED
        BY <1>2, <2>3, <3>1 DEF Smaller
    <2> QED
      BY <1>2, <1>4, <2>1, <2>2, <2>3
  <1>6. TypeInv'
    BY <1>1, <1>5 DEF IInv, TypeInv
  <1>7. ScriptInv'
    BY <1>1, <1>5 DEF ScriptInv
  <1>8. LimitInv' /\ AfterInv' /\ ClockInv'
    BY <1>1 DEF IInv, LimitInv, AfterInv, ClockInv, Timeout
  <1> QED
    BY <1>6, <1>7, <1>8 DEF IInv

(* A step has the steps' deadline. *)
LEMMA RunStepKeeps ==
  ASSUME DeadlinesAssumption, IInv, RunStep PROVE IInv'
  <1>1. /\ phase = "steps" /\ running' = TRUE /\ began' = now /\ limit' = scriptDeadline
        /\ steps < MaxSteps /\ steps' = steps + 1
        /\ UNCHANGED <<now, timeout, scriptTimeout, afterTimeout, stepTimeout, phase,
                       deadline, scriptDeadline, stepsFrom, failure>>
    BY DEF RunStep, Begin, asked, limits
  <1>2. TypeInv'
    BY <1>1 DEF IInv, TypeInv, DeadlinesAssumption
  <1>3. LimitInv' /\ ScriptInv' /\ AfterInv'
    BY <1>1 DEF IInv, LimitInv, ScriptInv, AfterInv, Timeout
  <1>4. ClockInv'
    BY <1>1 DEF IInv, TypeInv, ClockInv, Larger
  <1> QED
    BY <1>2, <1>3, <1>4 DEF IInv

(* An after_script has the limit of its own. *)
LEMMA RunAfterScriptKeeps ==
  ASSUME DeadlinesAssumption, IInv, RunAfterScript PROVE IInv'
  <1>1. /\ phase = "steps" /\ phase' = "after" /\ running' = TRUE /\ began' = now
        /\ limit' = AfterLimit
        /\ UNCHANGED <<now, timeout, scriptTimeout, afterTimeout, stepTimeout,
                       deadline, scriptDeadline, stepsFrom, steps, failure>>
    BY DEF RunAfterScript, Begin, asked, limits
  <1>2. /\ AfterLimit \in Nat
        /\ AfterLimit >= now + Smaller(Wanted, DefaultAfter)
        /\ AfterLimit <= Larger(deadline, now + DefaultAfter)
    BY AfterLimitIs DEF IInv
  <1>3. Wanted' = Wanted
    BY <1>1 DEF Wanted
  <1>4. TypeInv'
    BY <1>1, <1>2 DEF IInv, TypeInv
  <1>5. LimitInv' /\ ScriptInv'
    BY <1>1 DEF IInv, LimitInv, ScriptInv, Timeout
  <1>6. AfterInv'
    BY <1>1, <1>2, <1>3 DEF AfterInv
  <1>7. ClockInv'
    BY <1>1, <1>2 DEF IInv, TypeInv, ClockInv, Larger
  <1> QED
    BY <1>4, <1>5, <1>6, <1>7 DEF IInv

(* A job without an after_script is over. *)
LEMMA NoAfterScriptKeeps ==
  ASSUME DeadlinesAssumption, IInv, NoAfterScript PROVE IInv'
  <1>1. /\ phase' = "over" /\ ~running
        /\ UNCHANGED <<now, timeout, scriptTimeout, afterTimeout, stepTimeout, running,
                       began, limit, deadline, scriptDeadline, stepsFrom, steps, failure>>
    BY DEF NoAfterScript, asked, limits
  <1> QED
    BY <1>1 DEF IInv, TypeInv, LimitInv, ScriptInv, AfterInv, ClockInv, Timeout

(* What runs ends, or is stopped. *)
LEMMA OverKeeps ==
  ASSUME DeadlinesAssumption, IInv, running,
         NEW reason \in {"none", "timeout", "script"}, Over(reason)
  PROVE  IInv'
  <1>1. /\ running' = FALSE /\ began' = now /\ limit' = 0
        /\ failure' \in {"none", "timeout", "script"}
        /\ \/ phase = "sources" /\ phase' \in {"restore", "ready"}
           \/ phase = "restore" /\ phase' = "ready"
           \/ phase = "steps" /\ phase' = "steps"
           \/ phase = "after" /\ phase' = "over"
        /\ UNCHANGED <<now, timeout, scriptTimeout, afterTimeout, stepTimeout,
                       deadline, scriptDeadline, stepsFrom, steps>>
    BY OverEffect DEF IInv
  <1>2. TypeInv'
    BY <1>1 DEF IInv, TypeInv
  <1>3. LimitInv' /\ ScriptInv' /\ AfterInv'
    BY <1>1 DEF IInv, LimitInv, ScriptInv, AfterInv, Timeout
  <1>4. ClockInv'
    BY <1>1 DEF IInv, TypeInv, ClockInv, DeadlinesAssumption
  <1> QED
    BY <1>2, <1>3, <1>4 DEF IInv

(* Time goes on, but not past a limit. *)
LEMMA TickKeeps ==
  ASSUME DeadlinesAssumption, IInv, Tick PROVE IInv'
  <1>1. /\ phase # "over" /\ now' = now + 1
        /\ running => now < limit
        /\ ~running => now < began + MaxPause
        /\ UNCHANGED <<timeout, scriptTimeout, afterTimeout, stepTimeout, phase, running,
                       began, limit, deadline, scriptDeadline, stepsFrom, steps, failure>>
    BY DEF Tick, asked, limits
  <1>2. TypeInv'
    BY <1>1 DEF IInv, TypeInv
  <1>3. Wanted' = Wanted
    BY <1>1 DEF Wanted
  <1>4. LimitInv' /\ ScriptInv' /\ AfterInv'
    BY <1>1, <1>3 DEF IInv, LimitInv, ScriptInv, AfterInv, Timeout
  <1>5. ClockInv'
    BY <1>1 DEF IInv, TypeInv, ClockInv, Larger, DeadlinesAssumption
  <1> QED
    BY <1>2, <1>4, <1>5 DEF IInv

(* The invariant is inductive. *)
LEMMA NextIInv ==
  ASSUME DeadlinesAssumption, DeadlineExists PROVE IInv /\ [Next]_vars => IInv'
  <1> SUFFICES ASSUME IInv, [Next]_vars PROVE IInv'
    OBVIOUS
  <1>1. CASE GetSources
    BY <1>1, GetSourcesKeeps
  <1>2. CASE BeginSteps
    BY <1>2, BeginStepsKeeps
  <1>3. CASE RunStep
    BY <1>3, RunStepKeeps
  <1>4. CASE RunAfterScript
    BY <1>4, RunAfterScriptKeeps
  <1>5. CASE NoAfterScript
    BY <1>5, NoAfterScriptKeeps
  <1>6. CASE Ends
    <2>1. PICK reason \in {"none", "script"} : Over(reason)
      BY <1>6 DEF Ends
    <2>2. running /\ reason \in {"none", "timeout", "script"}
      BY <1>6 DEF Ends
    <2> QED
      BY <2>1, <2>2, OverKeeps
  <1>7. CASE Stopped
    BY <1>7, OverKeeps DEF Stopped
  <1>8. CASE Tick
    BY <1>8, TickKeeps
  <1>9. CASE UNCHANGED vars
    BY <1>9 DEF vars, asked, limits, IInv, TypeInv, LimitInv, ScriptInv, AfterInv, ClockInv,
                Timeout, Wanted
  <1> QED
    BY <1>1, <1>2, <1>3, <1>4, <1>5, <1>6, <1>7, <1>8, <1>9 DEF Next

-----------------------------------------------------------------------------
(* Properties of the deadlines. *)

(* The inductive invariant holds of every behaviour. *)
THEOREM Invariant ==
  ASSUME DeadlinesAssumption, DeadlineExists PROVE Spec => []IInv
  <1>1. Init => IInv
    BY InitIInv
  <1>2. IInv /\ [Next]_vars => IInv'
    BY NextIInv
  <1> QED
    BY <1>1, <1>2, PTL DEF Spec

(* What runs before the after_script ends with the job's time and the steps' *)
(* own, in the state the invariant describes.                                *)
LEMMA InTime ==
  ASSUME DeadlinesAssumption, IInv PROVE StepsInTime /\ SlotIsFreed
  <1>1. /\ now \in Nat /\ began \in Nat /\ limit \in Nat /\ deadline \in Nat
        /\ scriptTimeout \in Nat /\ stepsFrom \in Nat /\ DefaultAfter \in Nat
        /\ scriptDeadline \in Nat
        /\ phase \in {"sources", "restore", "ready", "steps", "after", "over"}
        /\ deadline = Timeout
    BY DEF IInv, TypeInv, LimitInv, DeadlinesAssumption
  <1>2. running => now <= Larger(began, limit)
    BY DEF IInv, ClockInv
  <1>3. ASSUME running, phase # "after" PROVE limit <= Timeout
    BY <1>1, <1>3 DEF IInv, LimitInv, ScriptInv
  <1>4. ASSUME running, phase = "steps", scriptTimeout > 0
        PROVE  limit <= stepsFrom + scriptTimeout
    BY <1>1, <1>4 DEF IInv, LimitInv, ScriptInv
  <1>5. StepsInTime
    BY <1>1, <1>2, <1>3, <1>4 DEF StepsInTime, Larger
  <1>6. SlotIsFreed
    <2>1. phase = "after" => limit <= Larger(deadline, began + DefaultAfter)
      BY DEF IInv, AfterInv
    <2> QED
      BY <1>1, <1>2, <2>1 DEF SlotIsFreed, Larger
  <1> QED
    BY <1>5, <1>6

(* No step runs on after the job's time or the steps' own: script_deadline.  *)
THEOREM StepsEndInTime ==
  ASSUME DeadlinesAssumption, DeadlineExists PROVE Spec => []StepsInTime
  <1>1. IInv => StepsInTime
    BY InTime
  <1> QED
    BY <1>1, Invariant, PTL

(* An after_script does not keep the slot longer than the job's time or its  *)
(* grace: the cap of its limit.                                              *)
THEOREM SlotsAreFreed ==
  ASSUME DeadlinesAssumption, DeadlineExists PROVE Spec => []SlotIsFreed
  <1>1. IInv => SlotIsFreed
    BY InTime
  <1> QED
    BY <1>1, Invariant, PTL

(* An after_script is never stopped before its grace, or what it asked for,  *)
(* is over.                                                                  *)
LEMMA GraceStep ==
  ASSUME DeadlinesAssumption PROVE IInv /\ [Next]_vars => [GivesGrace]_vars
  <1> SUFFICES ASSUME IInv, phase = "after", Stopped
               PROVE  now >= began + Smaller(Wanted, DefaultAfter)
    BY DEF GivesGrace
  <1>1. now >= limit /\ limit >= began + Smaller(Wanted, DefaultAfter)
    BY DEF Stopped, IInv, AfterInv
  <1>2. now \in Nat /\ limit \in Nat /\ began \in Nat /\ Smaller(Wanted, DefaultAfter) \in Nat
    BY WantedIs DEF IInv, TypeInv, DeadlinesAssumption, Smaller
  <1> QED
    BY <1>1, <1>2

(* A job fails as timed out only at the end of its time or of its steps'.    *)
LEMMA TimeoutStep ==
  ASSUME DeadlinesAssumption PROVE IInv /\ [Next]_vars => [TimesOutTruly]_vars
  <1> SUFFICES ASSUME IInv, [Next]_vars, failure = "none", failure' = "timeout"
               PROVE  \/ now >= Timeout
                      \/ /\ phase = "steps" /\ scriptTimeout > 0
                         /\ now >= stepsFrom + scriptTimeout
    BY DEF TimesOutTruly
  <1>1. Stopped
    BY DEF Next, vars, GetSources, BeginSteps, RunStep, RunAfterScript, NoAfterScript,
           Ends, Over, Tick
  <1>2. running /\ now >= limit /\ phase # "after"
    BY <1>1 DEF Stopped, Over
  <1>3. /\ phase \in {"sources", "restore", "steps"} /\ deadline = Timeout
        /\ scriptTimeout \in Nat
    BY <1>2 DEF IInv, TypeInv, LimitInv, DeadlinesAssumption
  <1>4. CASE phase \in {"sources", "restore"}
    BY <1>2, <1>3, <1>4 DEF IInv, LimitInv
  <1>5. CASE phase = "steps"
    <2>1. limit = scriptDeadline
      BY <1>2, <1>5 DEF IInv, LimitInv
    <2> QED
      BY <1>2, <1>3, <1>5, <2>1 DEF IInv, ScriptInv
  <1> QED
    BY <1>3, <1>4, <1>5

(* The grace of the after_script: its limit in run_job_steps. *)
THEOREM GraceGiven ==
  ASSUME DeadlinesAssumption, DeadlineExists PROVE Spec => GraceIsGiven
  <1>1. IInv /\ [Next]_vars => [GivesGrace]_vars
    BY GraceStep
  <1> QED
    BY <1>1, Invariant, PTL DEF Spec, GraceIsGiven

(* The timeouts that are told are true: timed_out. *)
THEOREM TimeoutsTrue ==
  ASSUME DeadlinesAssumption, DeadlineExists PROVE Spec => TimeoutIsTrue
  <1>1. IInv /\ [Next]_vars => [TimesOutTruly]_vars
    BY TimeoutStep
  <1> QED
    BY <1>1, Invariant, PTL DEF Spec, TimeoutIsTrue

-----------------------------------------------------------------------------
(* Every instant is one an Instant can hold. *)

(* How often a job pauses. *)
LEMMA PausesAre ==
  ASSUME DeadlinesAssumption, TypeInv
  PROVE  Pauses \in 0 .. 3 + MaxSteps
  BY DEF DeadlinesAssumption, TypeInv, Pauses

LEMMA PauseInit == ASSUME DeadlinesAssumption PROVE Init => PauseInv
  <1> SUFFICES ASSUME Init PROVE PauseInv
    OBVIOUS
  <1>1. Timeout \in Nat
    BY TimeoutIs DEF Init
  <1>2. Pauses = 0 /\ MaxPause \in Nat
    BY DEF Init, Pauses, DeadlinesAssumption
  <1> QED
    BY <1>1, <1>2 DEF Init, PauseInv

(* What begins, begins after at most one more pause. *)
LEMMA BeginPauses ==
  ASSUME DeadlinesAssumption, IInv, IInv', PauseInv,
         ~running, phase # "over", phase' # "over",
         began' = now, now' = now, deadline' = deadline,
         Pauses' = Pauses + 1,
         scriptDeadline' = scriptDeadline, stepsFrom' = stepsFrom
  PROVE  PauseInv'
  <1>1. /\ now \in Nat /\ began \in Nat /\ deadline \in Nat /\ MaxPause \in Nat
        /\ now <= began + MaxPause
    BY DEF IInv, TypeInv, ClockInv, DeadlinesAssumption
  <1>2. Pauses \in Nat
    BY PausesAre DEF IInv, DeadlinesAssumption
  <1>3. PICK a \in Nat : a = Pauses * MaxPause
    BY <1>1, <1>2, Products
  <1>4. Pauses' * MaxPause = a + MaxPause
    BY <1>1, <1>2, <1>3, Products
  <1>5. now <= deadline + (a + MaxPause)
    BY <1>1, <1>3 DEF PauseInv
  <1> QED
    BY <1>4, <1>5 DEF PauseInv

(* What does not begin anything leaves the pauses as they are, or counts     *)
(* more of them than there were.                                             *)
LEMMA StayPauses ==
  ASSUME DeadlinesAssumption, IInv, IInv', PauseInv,
         phase # "over", phase' # "over",
         began' = began, now' \in {now, now + 1}, deadline' = deadline, Pauses <= Pauses',
         scriptDeadline' <= deadline, stepsFrom' \in {stepsFrom, now}
  PROVE  PauseInv'
  <1>1. /\ now \in Nat /\ began \in Nat /\ deadline \in Nat /\ MaxPause \in Nat
        /\ stepsFrom \in Nat
    BY DEF IInv, TypeInv, DeadlinesAssumption
  <1>2. Pauses \in Nat /\ Pauses' \in Nat
    <2>1. Pauses \in Nat
      BY PausesAre DEF IInv, DeadlinesAssumption
    <2>2. Pauses' \in Nat
      BY DEF IInv, TypeInv, Pauses, DeadlinesAssumption
    <2> QED
      BY <2>1, <2>2
  <1>3. PICK a \in Nat, b \in Nat :
          a = Pauses * MaxPause /\ b = Pauses' * MaxPause /\ a <= b
    <2>1. Pauses * MaxPause \in Nat /\ Pauses' * MaxPause \in Nat
      BY <1>1, <1>2, Products
    <2>2. Pauses * MaxPause <= Pauses' * MaxPause
      BY <1>1, <1>2, Products
    <2> QED
      BY <2>1, <2>2
  <1>4. began <= deadline + b
    BY <1>1, <1>3 DEF PauseInv
  <1>5. stepsFrom' <= now'
    BY <1>1 DEF PauseInv
  <1> QED
    BY <1>3, <1>4, <1>5 DEF PauseInv

(* What is over was so by its limit. *)
LEMMA OverPauses ==
  ASSUME DeadlinesAssumption, IInv, PauseInv, running,
         NEW reason \in {"none", "timeout", "script"}, Over(reason), IInv'
  PROVE  PauseInv'
  <1>1. /\ running' = FALSE /\ began' = now
        /\ \/ phase = "sources" /\ phase' \in {"restore", "ready"}
           \/ phase = "restore" /\ phase' = "ready"
           \/ phase = "steps" /\ phase' = "steps"
           \/ phase = "after" /\ phase' = "over"
        /\ UNCHANGED <<now, deadline, scriptDeadline, stepsFrom, steps>>
    BY OverEffect DEF IInv
  <1>2. /\ now \in Nat /\ began \in Nat /\ deadline \in Nat /\ MaxPause \in Nat
        /\ limit \in Nat /\ DefaultAfter \in Nat /\ steps \in Nat
        /\ scriptDeadline \in Nat
        /\ now <= Larger(began, limit)
    BY DEF IInv, TypeInv, ClockInv, DeadlinesAssumption
  <1>3. Pauses \in Nat /\ Pauses' \in Nat /\ Pauses <= Pauses'
    BY <1>1, <1>2 DEF Pauses
  <1>4. PICK a \in Nat, b \in Nat :
          a = Pauses * MaxPause /\ b = Pauses' * MaxPause /\ a <= b
    <2>1. Pauses * MaxPause \in Nat /\ Pauses' * MaxPause \in Nat
      BY <1>2, <1>3, Products
    <2>2. Pauses * MaxPause <= Pauses' * MaxPause
      BY <1>2, <1>3, Products
    <2> QED
      BY <2>1, <2>2
  <1>5. began <= deadline + a
    BY <1>1, <1>4 DEF PauseInv
  <1>6. CASE phase # "after"
    <2>1. limit <= deadline
      BY <1>1, <1>2, <1>6 DEF IInv, LimitInv, ScriptInv
    <2>2. now <= deadline + b
      BY <1>2, <1>4, <1>5, <2>1 DEF Larger
    <2> QED
      BY <1>1, <1>4, <1>6, <2>2 DEF PauseInv
  <1>7. CASE phase = "after"
    <2>1. limit <= Larger(deadline, began + DefaultAfter)
      BY <1>7 DEF IInv, AfterInv
    <2>2. now <= deadline + b + DefaultAfter
      BY <1>2, <1>4, <1>5, <2>1 DEF Larger
    <2> QED
      BY <1>1, <1>4, <1>7, <2>2 DEF PauseInv
  <1> QED
    BY <1>6, <1>7

LEMMA PauseNext ==
  ASSUME DeadlinesAssumption, DeadlineExists
  PROVE  IInv /\ PauseInv /\ [Next]_vars => PauseInv'
  <1> SUFFICES ASSUME IInv, PauseInv, [Next]_vars PROVE PauseInv'
    OBVIOUS
  <1>1. IInv'
    BY NextIInv
  <1>2. /\ steps \in Nat /\ MaxSteps \in Nat /\ now \in Nat /\ running \in BOOLEAN
        /\ phase \in {"sources", "restore", "ready", "steps", "after", "over"}
        /\ scriptDeadline <= deadline
    BY DEF IInv, TypeInv, DeadlinesAssumption, PauseInv
  <1>3. CASE GetSources
    <2>1. Pauses' = Pauses + 1
      BY <1>3 DEF GetSources, Begin, Pauses
    <2> QED
      BY <1>1, <1>3, <2>1, BeginPauses DEF GetSources, Begin, limits
  <1>4. CASE BeginSteps
    <2>1. Pauses <= Pauses'
      BY <1>2, <1>4 DEF BeginSteps, Pauses
    <2>2. scriptDeadline' <= deadline
      BY <1>1, <1>4 DEF BeginSteps, IInv, ScriptInv
    <2>3. /\ phase = "ready" /\ phase' = "steps" /\ stepsFrom' = now
          /\ UNCHANGED <<now, began, deadline>>
      BY <1>4 DEF BeginSteps
    <2> QED
      BY <1>1, <2>1, <2>2, <2>3, StayPauses
  <1>5. CASE RunStep
    <2>1. Pauses' = Pauses + 1
      BY <1>2, <1>5 DEF RunStep, Begin, Pauses
    <2> QED
      BY <1>1, <1>5, <2>1, BeginPauses DEF RunStep, Begin, limits
  <1>6. CASE RunAfterScript
    <2>1. Pauses' = Pauses + 1
      BY <1>2, <1>6 DEF RunAfterScript, Begin, Pauses
    <2> QED
      BY <1>1, <1>6, <2>1, BeginPauses DEF RunAfterScript, Begin, limits
  <1>7. CASE NoAfterScript
    <2>1. /\ Pauses \in Nat /\ Pauses' = Pauses + 1
      BY <1>2, <1>7 DEF NoAfterScript, Pauses
    <2>2. /\ began \in Nat /\ deadline \in Nat /\ MaxPause \in Nat /\ DefaultAfter \in Nat
          /\ now <= began + MaxPause
      BY <1>7 DEF NoAfterScript, IInv, TypeInv, ClockInv, DeadlinesAssumption
    <2>3. PICK a \in Nat : a = Pauses * MaxPause
      BY <2>1, <2>2, Products
    <2>4. Pauses' * MaxPause = a + MaxPause
      BY <2>1, <2>2, <2>3, Products
    <2>5. now <= deadline + (a + MaxPause) + DefaultAfter
      BY <1>2, <1>7, <2>2, <2>3 DEF NoAfterScript, PauseInv
    <2> QED
      BY <1>7, <2>4, <2>5 DEF NoAfterScript, limits, PauseInv
  <1>8. CASE Ends
    <2>1. PICK reason \in {"none", "script"} : Over(reason)
      BY <1>8 DEF Ends
    <2>2. running /\ reason \in {"none", "timeout", "script"}
      BY <1>8 DEF Ends
    <2> QED
      BY <1>1, <2>1, <2>2, OverPauses
  <1>9. CASE Stopped
    BY <1>1, <1>9, OverPauses DEF Stopped
  <1>10. CASE Tick
    <2>1. Pauses <= Pauses'
      BY <1>2, <1>10 DEF Tick, Pauses, limits
    <2> QED
      BY <1>1, <1>2, <1>10, <2>1, StayPauses DEF Tick, limits
  <1>11. CASE UNCHANGED vars
    BY <1>11 DEF vars, limits, PauseInv, Pauses
  <1> QED
    BY <1>3, <1>4, <1>5, <1>6, <1>7, <1>8, <1>9, <1>10, <1>11 DEF Next

(* A job's last instant is its deadline, all its pauses and a grace later. *)
LEMMA InstantsFit ==
  ASSUME DeadlinesAssumption, InstantsSuffice, IInv, PauseInv
  PROVE  TypeOK
  <1>1. /\ now \in Nat /\ began \in Nat /\ limit \in Nat /\ deadline \in Nat
        /\ scriptDeadline \in Nat /\ stepsFrom \in Nat
        /\ MaxPause \in Nat /\ MaxSteps \in Nat /\ DefaultAfter \in Nat /\ MaxInstant \in Nat
    BY DEF IInv, TypeInv, DeadlinesAssumption
  <1>2. Pauses \in Nat /\ Pauses <= 3 + MaxSteps
    BY PausesAre DEF IInv, DeadlinesAssumption
  <1>3. PICK most \in Nat : most = 3 + MaxSteps
    BY <1>1
  <1>4. PICK a \in Nat, b \in Nat :
          a = Pauses * MaxPause /\ b = most * MaxPause /\ a <= b
    <2>1. Pauses * MaxPause \in Nat /\ most * MaxPause \in Nat
      BY <1>1, <1>2, <1>3, Products
    <2>2. Pauses * MaxPause <= most * MaxPause
      BY <1>1, <1>2, <1>3, Products
    <2> QED
      BY <2>1, <2>2
  <1>5. deadline + b + DefaultAfter <= MaxInstant
    <2>1. deadline \in JobTimeouts \union {DefaultJob}
      BY TimeoutIs DEF IInv, TypeInv, LimitInv
    <2> QED
      BY <1>3, <1>4, <2>1 DEF InstantsSuffice
  <1>6. /\ phase # "over" => began <= deadline + a
        /\ phase = "over" => now <= deadline + a + DefaultAfter
        /\ scriptDeadline <= deadline /\ stepsFrom <= now
        /\ began <= now
    BY <1>4 DEF PauseInv, IInv, ClockInv
  <1>7. limit <= MaxInstant
    <2>1. ASSUME running, phase # "after" PROVE limit <= deadline
      BY <2>1 DEF IInv, TypeInv, LimitInv, ScriptInv
    <2>2. running /\ phase = "after" => limit <= Larger(deadline, began + DefaultAfter)
      BY DEF IInv, AfterInv
    <2>3. phase = "over" => ~running
      BY DEF IInv, LimitInv
    <2>4. ~running => limit = 0
      BY DEF IInv, LimitInv
    <2> QED
      BY <1>1, <1>4, <1>5, <1>6, <2>1, <2>2, <2>3, <2>4 DEF Larger
  <1>8. now <= MaxInstant
    <2>1. CASE running
      <3>1. now <= Larger(began, limit) /\ phase # "over"
        BY <2>1 DEF IInv, ClockInv, LimitInv
      <3> QED
        BY <1>1, <1>4, <1>5, <1>6, <1>7, <3>1 DEF Larger
    <2>2. CASE phase = "over"
      BY <1>1, <1>4, <1>5, <1>6, <2>2
    <2>3. CASE ~running /\ phase # "over"
      <3>1. Pauses + 1 <= most
        BY <1>1, <1>3, <2>3 DEF Pauses, IInv, TypeInv, LimitInv
      <3>2. PICK n \in Nat : n = Pauses + 1
        BY <1>2
      <3>3. n * MaxPause = a + MaxPause /\ n * MaxPause <= b
        <4>1. n * MaxPause = Pauses * MaxPause + MaxPause
          BY <1>1, <1>2, <3>2, Products
        <4>2. n * MaxPause <= most * MaxPause
          BY <1>1, <1>3, <3>1, <3>2, Products
        <4> QED
          BY <1>4, <4>1, <4>2
      <3>4. now <= began + MaxPause
        BY <2>3 DEF IInv, ClockInv
      <3> QED
        BY <1>1, <1>4, <1>5, <1>6, <2>3, <3>3, <3>4
    <2> QED
      BY <2>1, <2>2, <2>3 DEF IInv, TypeInv
  <1>9. {now, began, limit, deadline, scriptDeadline, stepsFrom} \subseteq 0 .. MaxInstant
    BY <1>1, <1>4, <1>5, <1>6, <1>7, <1>8
  <1> QED
    BY <1>9 DEF IInv, TypeInv, TypeOK

(* No instant overflows, though two of the sums are not checked: the job's   *)
(* deadline and the cap of the after_script.                                 *)
THEOREM TypeCorrect ==
  ASSUME DeadlinesAssumption, InstantsSuffice PROVE Spec => []TypeOK
  <1> DeadlineExists
    BY SufficeExist
  <1>1. Init => PauseInv
    BY PauseInit
  <1>2. IInv /\ PauseInv /\ [Next]_vars => PauseInv'
    BY PauseNext
  <1>3. IInv /\ PauseInv => TypeOK
    BY InstantsFit
  <1> QED
    BY <1>1, <1>2, <1>3, Invariant, PTL DEF Spec

=============================================================================
