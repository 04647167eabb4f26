---------------------------- MODULE JobRunProofs ----------------------------
(***************************************************************************)
(* Proofs about JobRun, for every payload and every number of attempts.    *)
(* The steps of the environment, the heartbeat and the log's answers leave *)
(* the task alone (Outside); the others are the task's, one step each.     *)
(***************************************************************************)
EXTENDS JobRun, TLAPS

Outside == Environment \/ Heartbeat \/ TraceAnswered

(* How a script may end. *)
Results == {"exit0", "exit1", "error", "timeout", "canceled"}

ScriptEnds(r) == HookEnds(r) \/ CheckoutEnds(r) \/ ResetEnds(r)
                   \/ RestoreEnds(r) \/ StepEnds(r)

(* Where the task is: a retry is always allowed, a running step is one of   *)
(* the payload's, and the attempts stay within their bounds.                *)
PlaceInv ==
    /\ pc \in Executing \cup {"prepare", "release", "uploads", "upload",
                 "cache", "cleanup", "judge", "finish", "check", "report",
                 "done"}
    /\ step \in 1..(Len(Steps) + 1)
    /\ attempt \in Nat \ {0}
    /\ pc = "report" => attempt <= ReportAttempts
    /\ pc = "done" => attempt <= SourceAttempts \/ attempt <= ReportAttempts
    /\ pc \notin {"report", "done"} => attempt <= SourceAttempts
    /\ pc = "reset" => attempt < SourceAttempts
    /\ pc = "step" => step <= Len(Steps)

(* What the task, its heartbeat and GitLab have. *)
DataInv ==
    /\ outcome \in Reasons \cup {"ok"}
    /\ todo \subseteq Whens
    /\ expired \subseteq {"job", "script", "after"}
    /\ cancel \in DOMAIN Rank
    /\ abort \in BOOLEAN
    /\ heartbeat \in {"alive", "last", "gone"}
    /\ stopped \in BOOLEAN
    /\ result \in {"none", "ok", "error"}
    /\ gitlab \in Final \cup {"running", "canceling"}
    /\ uploaded \subseteq Artifacts
    /\ saved \subseteq Caches
    /\ told \in {"none", "success", "canceled", "failed"}
    /\ bad \subseteq {"run", "upload", "panic"}

TypeInv == PlaceInv /\ DataInv

-----------------------------------------------------------------------------
(* The order of Rank. *)
LEMMA RankOrder ==
    /\ DOMAIN Rank = {"Running", "Canceling", "Aborted"}
    /\ Rank["Running"] = 0 /\ Rank["Canceling"] = 1 /\ Rank["Aborted"] = 2
BY DEF Rank

(* Nothing outside the task touches the task's own state. *)
LEMMA OutsideFrame ==
    ASSUME Outside
    PROVE  UNCHANGED <<taskVars, effectVars, historyVars>>
<1>1. CASE UserCancels \/ GitLabGivesUp \/ RequestAbort
  BY <1>1 DEF UserCancels, GitLabGivesUp, RequestAbort, taskVars, effectVars,
              historyVars
<1>2. CASE \E d \in {"job", "script", "after"} : Expire(d)
  BY <1>2 DEF Expire, taskVars, effectVars, historyVars
<1>3. CASE Touch \/ HeartbeatAborts \/ HeartbeatDropped \/ TraceAnswered
  BY <1>3 DEF Touch, HeartbeatAborts, HeartbeatDropped, TraceAnswered,
              taskVars, effectVars, historyVars
<1> QED BY <1>1, <1>2, <1>3 DEF Outside, Environment, Heartbeat

(* A script ends with one of the results, and is canceled only once the     *)
(* cancel signal says so.                                                   *)
LEMMA ScriptResult ==
    ASSUME DataInv, ScriptExits \/ ScriptStopped
    PROVE  \E r \in Results :
             /\ r = "canceled" => cancel # "Running"
             /\ ScriptEnds(r)
<1>1. CASE ScriptExits
  BY <1>1 DEF ScriptExits, SourcesStep, ScriptEnds, Exits, Results
<1>2. ASSUME NEW d, NEW s \in {"Canceling", "Aborted"}, NEW r \in Interrupts(d, s)
      PROVE  r \in Results /\ (r = "canceled" => cancel # "Running")
  BY <1>2, RankOrder DEF Interrupts, Results
<1>3. CASE ScriptStopped
  <2>1. CASE \E r \in Interrupts("job", "Canceling") : SourcesStep(r)
    BY <2>1, <1>2 DEF SourcesStep, ScriptEnds
  <2>2. CASE pc = "step" /\ \E r \in StepInterrupts(Steps[step]) : StepEnds(r)
    BY <2>2, <1>2 DEF StepInterrupts, ScriptEnds
  <2> QED BY <1>3, <2>1, <2>2 DEF ScriptStopped
<1> QED BY <1>1, <1>3

(* The steps of the task, one by one. *)
LEMMA NextCases ==
    ASSUME DataInv, [Next]_vars
    PROVE  \/ Outside \/ UNCHANGED vars
           \/ Prepare \/ PullEnds \/ PullAborted \/ Create \/ Panic
           \/ \E r \in Results : /\ r = "canceled" => cancel # "Running"
                                 /\ ScriptEnds(r)
           \/ StepsOver \/ StepsAborted \/ NextStep
           \/ Release \/ BeginUploads \/ (\E a \in Artifacts : Upload(a))
           \/ UploadsOver \/ (\E c \in Caches : SaveCache(c)) \/ CachesOver
           \/ Cleanup \/ Judge \/ FinishTrace \/ Check
           \/ ReportTaken \/ ReportUnanswered \/ ReportRejected
<1>1. CASE ScriptExits \/ ScriptStopped
  BY <1>1, ScriptResult
<1>2. CASE ~(ScriptExits \/ ScriptStopped)
  BY <1>2 DEF Next, Progress, Outside, Over
<1> QED BY <1>1, <1>2

-----------------------------------------------------------------------------
(* Type correctness *)

(* A run starts with its types right. *)
LEMMA InitTypes == Init => TypeInv
<1> SUFFICES ASSUME Init PROVE TypeInv
  OBVIOUS
<1>1. PlaceInv
  BY RunAssumption DEF Init, PlaceInv
<1>2. DataInv
  BY RankOrder DEF Init, DataInv
<1> QED BY <1>1, <1>2 DEF TypeInv

(* The end of a script leads on within the run; a checkout retries only     *)
(* below its number of attempts.                                            *)
LEMMA ScriptPlaces ==
    ASSUME PlaceInv, NEW r, ScriptEnds(r)
    PROVE  PlaceInv'
<1> USE RunAssumption DEF PlaceInv
<1>1. CASE HookEnds(r)
  <2>1. pc' \in {"checkout", "restore", "steps"} /\ UNCHANGED <<step, attempt>>
        /\ pc \in {"pre_sources", "post_sources"}
    BY <1>1 DEF HookEnds, Continue, FailTo
  <2> QED BY <2>1 DEF Executing
<1>2. CASE CheckoutEnds(r)
  <2>1. /\ pc' \in {"post_sources", "reset", "steps"} /\ pc = "checkout"
        /\ UNCHANGED <<step, attempt>>
        /\ pc' = "reset" => attempt < SourceAttempts
    BY <1>2 DEF CheckoutEnds, MayRetry, Continue, FailTo
  <2> QED BY <2>1 DEF Executing
<1>3. CASE ResetEnds(r)
  BY <1>3 DEF ResetEnds, Executing
<1>4. CASE RestoreEnds(r)
  <2>1. pc' = "steps" /\ UNCHANGED <<step, attempt>> /\ pc = "restore"
    BY <1>4 DEF RestoreEnds, Continue, FailTo
  <2> QED BY <2>1 DEF Executing
<1>5. CASE StepEnds(r)
  <2>1. pc = "step" /\ pc' = "steps" /\ step' = step + 1 /\ UNCHANGED attempt
    BY <1>5 DEF StepEnds
  <2> QED BY <2>1 DEF Executing
<1> QED BY <1>1, <1>2, <1>3, <1>4, <1>5 DEF ScriptEnds

(* Every step leads to a place of the run. *)
LEMMA NextPlaces == TypeInv /\ [Next]_vars => PlaceInv'
<1> SUFFICES ASSUME TypeInv, [Next]_vars PROVE PlaceInv'
  OBVIOUS
<1>0. PlaceInv /\ DataInv
  BY DEF TypeInv
<1> USE <1>0, RunAssumption DEF PlaceInv
<1>1. CASE Outside \/ UNCHANGED vars
  BY <1>1, OutsideFrame DEF vars, taskVars
<1>2. CASE Prepare \/ PullEnds \/ PullAborted \/ Create \/ Panic
  <2>1. /\ pc' \in {"pull", "uploads", "create", "release", "pre_sources"}
        /\ UNCHANGED <<step, attempt>>
        /\ pc \notin {"report", "done"}
    BY <1>2 DEF Prepare, PullEnds, PullAborted, Create, Panic, Continue, FailTo,
       Executing
  <2> QED BY <2>1 DEF Executing
<1>3. CASE \E r \in Results : ScriptEnds(r)
  BY <1>3, ScriptPlaces
<1>4. CASE StepsOver \/ StepsAborted
  BY <1>4 DEF StepsOver, StepsAborted, FailTo
<1>5. CASE NextStep
  <2>1. /\ pc = "steps" /\ step <= Len(Steps) /\ UNCHANGED attempt
        /\ \/ pc' = "step" /\ step' = step
           \/ pc' = pc /\ step' = step + 1
    BY <1>5 DEF NextStep
  <2> QED BY <2>1 DEF Executing
<1>6. CASE Release \/ BeginUploads \/ UploadsOver \/ CachesOver
  BY <1>6 DEF Release, BeginUploads, UploadsOver, CachesOver
<1>7. CASE (\E a \in Artifacts : Upload(a)) \/ (\E c \in Caches : SaveCache(c))
  BY <1>7 DEF Upload, SaveCache
<1>8. CASE Cleanup \/ Judge \/ FinishTrace
  BY <1>8 DEF Cleanup, Judge, FinishTrace
<1>9. CASE Check
  BY <1>9 DEF Check, env
<1>10. CASE ReportTaken \/ ReportUnanswered \/ ReportRejected
  <2>1. /\ pc = "report" /\ pc' \in {"report", "done"} /\ UNCHANGED step
        /\ \/ attempt' = attempt
           \/ attempt' = attempt + 1 /\ attempt < ReportAttempts
    BY <1>10 DEF ReportTaken, ReportUnanswered, ReportRejected, Return, Retry,
       MayRetry
  <2> QED BY <2>1
<1> QED
  BY NextCases, <1>1, <1>2, <1>3, <1>4, <1>5, <1>6, <1>7, <1>8, <1>9, <1>10

(* The steps outside the task keep the types of the cancel signal, the      *)
(* deadlines, the heartbeat and GitLab's state.                             *)
LEMMA OutsideData ==
    ASSUME DataInv, Outside
    PROVE  DataInv'
<1>1. UNCHANGED <<taskVars, effectVars, historyVars>>
  BY OutsideFrame
<1>2. /\ expired' \subseteq {"job", "script", "after"}
      /\ cancel' \in DOMAIN Rank
      /\ abort' \in BOOLEAN
      /\ heartbeat' \in {"alive", "last", "gone"}
      /\ gitlab' \in Final \cup {"running", "canceling"}
  <2>1. CASE UserCancels \/ GitLabGivesUp \/ RequestAbort
    BY <2>1 DEF DataInv, UserCancels, GitLabGivesUp, RequestAbort,
                signalVars, Final
  <2>2. CASE \E d \in {"job", "script", "after"} : Expire(d)
    BY <2>2 DEF DataInv, Expire
  <2>3. ASSUME NEW s \in DOMAIN Rank, Update(s)
        PROVE  cancel' \in DOMAIN Rank
    BY <2>3 DEF DataInv, Update
  <2>4. RemoteState \in DOMAIN Rank /\ "Aborted" \in DOMAIN Rank
    BY RankOrder DEF RemoteState
  <2>5. CASE Touch \/ TraceAnswered
    BY <2>3, <2>4, <2>5 DEF DataInv, Touch, TraceAnswered, EndsPoll
  <2>6. CASE HeartbeatAborts \/ HeartbeatDropped
    BY <2>3, <2>4, <2>6 DEF DataInv, HeartbeatAborts, HeartbeatDropped
  <2> QED BY <2>1, <2>2, <2>5, <2>6 DEF Outside, Environment, Heartbeat
<1> QED BY <1>1, <1>2 DEF DataInv, taskVars, effectVars, historyVars

(* Every step keeps the types of the data. *)
LEMMA NextData == TypeInv /\ [Next]_vars => DataInv'
<1> SUFFICES ASSUME TypeInv, [Next]_vars PROVE DataInv'
  OBVIOUS
<1>0. DataInv
  BY DEF TypeInv
<1> USE <1>0
<1>1. CASE Outside
  BY <1>1, OutsideData
<1>2. CASE UNCHANGED vars
  BY <1>2 DEF vars, taskVars, signalVars, effectVars, historyVars, DataInv
<1>3. CASE Prepare \/ PullEnds \/ PullAborted \/ Create \/ Panic
  <2>1. outcome' \in Reasons \cup {"ok"} /\ bad' \subseteq {"run", "upload", "panic"}
    BY <1>3 DEF Prepare, PullEnds, PullAborted, Create, Panic, Continue, FailTo,
       OrElse, DataInv, Reasons
  <2>2. UNCHANGED <<todo, stopped, result, env, told>>
    BY <1>3 DEF Prepare, PullEnds, PullAborted, Create, Panic
  <2> QED BY <2>1, <2>2 DEF env, effectVars, DataInv
<1>4. ASSUME NEW r \in Results, ScriptEnds(r)
      PROVE  DataInv'
  <2>1. r # "exit0" => ReasonOf(r) \in Reasons
    BY DEF Results, ReasonOf, Reasons
  <2>2. outcome' \in Reasons \cup {"ok"} /\ bad' \subseteq {"run", "upload", "panic"}
    <3>1. CASE HookEnds(r) \/ CheckoutEnds(r)
      BY <2>1, <3>1 DEF HookEnds, CheckoutEnds, Continue, FailTo, OrElse, DataInv
    <3>2. CASE ResetEnds(r) \/ RestoreEnds(r)
      BY <2>1, <3>2 DEF ResetEnds, RestoreEnds, Continue, FailTo, OrElse, DataInv
    <3>3. CASE StepEnds(r)
      BY <2>1, <3>3 DEF StepEnds, OrElse, Ignored, DataInv
    <3> QED BY <1>4, <3>1, <3>2, <3>3 DEF ScriptEnds
  <2>3. UNCHANGED <<todo, stopped, result, env, told>>
    BY <1>4 DEF ScriptEnds, HookEnds, CheckoutEnds, ResetEnds, RestoreEnds, StepEnds
  <2> QED BY <2>2, <2>3 DEF DataInv, env, effectVars
<1>5. CASE StepsOver \/ StepsAborted
  BY <1>5 DEF StepsOver, StepsAborted, FailTo, OrElse, env, historyVars,
     effectVars, DataInv, Reasons
<1>6. CASE NextStep
  <2>1. outcome' \in Reasons \cup {"ok"} /\ bad' \subseteq {"run", "upload", "panic"}
    BY <1>6 DEF NextStep, Known, OrElse, Reasons, DataInv
  <2>2. told' \in {"none", "success", "canceled", "failed"}
    BY <1>6 DEF NextStep, JobStatus, DataInv
  <2>3. UNCHANGED <<todo, stopped, result, env>>
    BY <1>6 DEF NextStep
  <2> QED BY <2>1, <2>2, <2>3 DEF env, effectVars, DataInv
<1>7. CASE Release \/ BeginUploads \/ (\E a \in Artifacts : Upload(a))
  BY <1>7, RunAssumption DEF Release, BeginUploads, Upload, signalVars, env,
     historyVars, effectVars, DataInv
<1>8. CASE UploadsOver
  BY <1>8, RunAssumption DEF UploadsOver, OrElse, env, historyVars, effectVars,
     DataInv, Reasons
<1>9. CASE (\E c \in Caches : SaveCache(c)) \/ CachesOver
  BY <1>9 DEF SaveCache, CachesOver, signalVars, env, historyVars, effectVars,
     DataInv
<1>10. CASE Cleanup \/ Judge \/ FinishTrace
  <2>1. CASE Cleanup
    <3>1. heartbeat' \in {"last", "gone", heartbeat}
      BY <2>1 DEF Cleanup
    <3> QED BY <2>1, <3>1 DEF Cleanup, historyVars, effectVars, DataInv
  <2>2. CASE Judge \/ FinishTrace
    BY <2>2 DEF Judge, FinishTrace, env, historyVars, effectVars, DataInv, Reasons
  <2> QED BY <1>10, <2>1, <2>2
<1>11. CASE Check
  BY <1>11 DEF Check, env, historyVars, effectVars, DataInv
<1>12. CASE ReportTaken \/ ReportUnanswered \/ ReportRejected
  <2>1. /\ gitlab' \in Final \cup {"running", "canceling"}
        /\ result' \in {"none", "ok", "error"}
    BY <1>12 DEF ReportTaken, ReportUnanswered, ReportRejected, Recorded, Final,
       Return, Retry, env, DataInv
  <2>2. UNCHANGED <<outcome, todo, stopped, signalVars, effectVars, historyVars>>
    BY <1>12 DEF ReportTaken, ReportUnanswered, ReportRejected, env, signalVars
  <2> QED BY <2>1, <2>2 DEF signalVars, effectVars, historyVars, DataInv
<1> QED
  BY NextCases, <1>1, <1>2, <1>3, <1>4, <1>5, <1>6, <1>7, <1>8, <1>9, <1>10,
     <1>11, <1>12

(* TypeOK: all state of a run keeps its type, and the attempts of checkout  *)
(* and update_job stay within their bounds.                                 *)
THEOREM TypeCorrect == Spec => []TypeOK
<1>1. TypeInv => TypeOK
  <2> SUFFICES ASSUME TypeInv PROVE TypeOK
    OBVIOUS
  <2>1. attempt \in 1..(IF pc \in {"report", "done"}
                          THEN IF SourceAttempts > ReportAttempts
                                 THEN SourceAttempts ELSE ReportAttempts
                          ELSE SourceAttempts)
    BY RunAssumption DEF TypeInv, PlaceInv
  <2> QED BY <2>1 DEF TypeInv, PlaceInv, DataInv, TypeOK
<1>2. TypeInv /\ [Next]_vars => TypeInv'
  BY NextPlaces, NextData DEF TypeInv
<1> QED BY InitTypes, <1>1, <1>2, PTL DEF Spec

-----------------------------------------------------------------------------
(* The verdict *)

(* The places before, at and after the uploads. *)
BeforeUploads == Executing \cup {"prepare", "release", "uploads"}

(* The outcome is a failure exactly when something that counts went wrong;  *)
(* a failed upload counts once the uploads are over.                        *)
VerdictInv ==
    /\ pc \in BeforeUploads => "upload" \notin bad
    /\ pc # "upload" => (outcome = "ok" <=> bad = {})
    /\ pc = "upload" => (outcome = "ok" <=> bad \subseteq {"upload"})

(* A cache in `saved` or still to save is wanted under the outcome, which   *)
(* no longer changes between success and failure once caches are saved.     *)
CacheInv ==
    /\ pc \in BeforeUploads \cup {"upload"} => saved = {}
    /\ \A c \in saved : Wanted(c, outcome = "ok")
    /\ pc = "cache" => \A c \in todo : Wanted(c, outcome = "ok")

(* A script that ends: where from and where to, and that the verdict keeps  *)
(* track of what counts.                                                    *)
LEMMA ScriptVerdict ==
    ASSUME VerdictInv, NEW r \in Results, ScriptEnds(r)
    PROVE  VerdictInv'
<1>1. r # "exit0" => ReasonOf(r) # "ok"
  BY DEF Results, ReasonOf
<1>2. pc \in Executing /\ pc' \in Executing
  BY DEF ScriptEnds, HookEnds, CheckoutEnds, ResetEnds, RestoreEnds, StepEnds,
     Continue, FailTo, Executing
<1>3. \/ UNCHANGED <<outcome, bad>>
      \/ outcome' # "ok" /\ bad' = bad \cup {"run"}
  <2>1. CASE HookEnds(r) \/ CheckoutEnds(r)
    BY <1>1, <2>1 DEF HookEnds, CheckoutEnds, Continue, FailTo, OrElse
  <2>2. CASE ResetEnds(r) \/ RestoreEnds(r)
    BY <1>1, <2>2 DEF ResetEnds, RestoreEnds, Continue, FailTo, OrElse
  <2>3. CASE StepEnds(r)
    BY <1>1, <2>3 DEF StepEnds, Ignored, OrElse
  <2> QED BY <2>1, <2>2, <2>3 DEF ScriptEnds
<1> QED BY <1>2, <1>3 DEF VerdictInv, BeforeUploads, Executing

(* Every step keeps the verdict in line with what went wrong. *)
LEMMA NextVerdict == TypeInv /\ VerdictInv /\ [Next]_vars => VerdictInv'
<1> SUFFICES ASSUME TypeInv, VerdictInv, [Next]_vars PROVE VerdictInv'
  OBVIOUS
<1>0. DataInv
  BY DEF TypeInv
<1>1. CASE Outside \/ UNCHANGED vars
  BY <1>1, OutsideFrame DEF vars, taskVars, historyVars, VerdictInv
<1>2. CASE Prepare \/ PullEnds \/ PullAborted \/ Create
  BY <1>2 DEF Prepare, PullEnds, PullAborted, Create, Continue, FailTo, OrElse,
     VerdictInv, BeforeUploads, Executing
<1>3. CASE Panic
  BY <1>3 DEF Panic, VerdictInv, BeforeUploads
<1>4. CASE \E r \in Results : ScriptEnds(r)
  BY <1>4, ScriptVerdict
<1>5. CASE StepsOver \/ StepsAborted
  BY <1>5 DEF StepsOver, StepsAborted, FailTo, OrElse, historyVars, VerdictInv,
     BeforeUploads, Executing
<1>6. CASE NextStep
  <2>1. pc = "steps" /\ pc' \in {"steps", "step"}
    BY <1>6 DEF NextStep
  <2>2. \/ UNCHANGED <<outcome, bad>>
        \/ outcome' # "ok" /\ bad' = bad \cup {"run"}
    BY <1>6 DEF NextStep, Known, OrElse
  <2> QED BY <2>1, <2>2 DEF VerdictInv, BeforeUploads, Executing
<1>7. CASE Release \/ BeginUploads
  BY <1>7 DEF Release, BeginUploads, historyVars, VerdictInv, BeforeUploads
<1>8. CASE \E a \in Artifacts : Upload(a)
  BY <1>8 DEF Upload, VerdictInv, BeforeUploads, Executing
<1>9. CASE UploadsOver
  BY <1>9 DEF UploadsOver, OrElse, historyVars, VerdictInv, BeforeUploads, Executing
<1>10. CASE (\E c \in Caches : SaveCache(c)) \/ CachesOver \/ Cleanup
  BY <1>10 DEF SaveCache, CachesOver, Cleanup, historyVars, VerdictInv,
     BeforeUploads, Executing
<1>11. CASE Judge \/ FinishTrace \/ Check
  BY <1>11 DEF Judge, FinishTrace, Check, historyVars, VerdictInv, BeforeUploads,
     Executing
<1>12. CASE ReportTaken \/ ReportUnanswered \/ ReportRejected
  BY <1>12 DEF ReportTaken, ReportUnanswered, ReportRejected, Return, Retry,
     historyVars, VerdictInv, BeforeUploads, Executing
<1> QED
  BY <1>0, NextCases, <1>1, <1>2, <1>3, <1>4, <1>5, <1>6, <1>7, <1>8, <1>9,
     <1>10, <1>11, <1>12

(* Every step keeps the saved caches in line with the outcome. *)
LEMMA NextCaches == TypeInv /\ CacheInv /\ [Next]_vars => CacheInv'
<1> SUFFICES ASSUME TypeInv, CacheInv, [Next]_vars PROVE CacheInv'
  OBVIOUS
<1>0. DataInv
  BY DEF TypeInv
<1>1. CASE Outside \/ UNCHANGED vars
  <2>1. UNCHANGED <<pc, outcome, todo, saved>>
    BY <1>1, OutsideFrame DEF vars, taskVars, effectVars
  <2> QED BY <2>1 DEF CacheInv
<1>2. CASE \/ Prepare \/ PullEnds \/ PullAborted \/ Create \/ Panic
           \/ (\E r \in Results : ScriptEnds(r))
           \/ StepsOver \/ StepsAborted \/ NextStep \/ Release \/ BeginUploads
  <2>1. CASE Prepare \/ PullEnds \/ PullAborted \/ Create \/ Panic
    BY <2>1 DEF Prepare, PullEnds, PullAborted, Create, Panic, Continue,
       FailTo, env, effectVars, CacheInv, BeforeUploads, Executing
  <2>2. CASE \E r \in Results : ScriptEnds(r)
    <3>1. /\ pc \in Executing /\ pc' \in Executing
          /\ UNCHANGED saved
      BY <2>2 DEF ScriptEnds, HookEnds, CheckoutEnds, ResetEnds, RestoreEnds,
         StepEnds, Continue, FailTo, env, effectVars, Executing
    <3> QED BY <3>1 DEF CacheInv, BeforeUploads, Executing
  <2>3. CASE StepsOver \/ StepsAborted \/ NextStep \/ Release \/ BeginUploads
    <3>1. /\ pc \in {"steps", "release", "uploads"}
          /\ pc' \in {"steps", "step", "release", "uploads", "upload", "cleanup"}
          /\ UNCHANGED saved
      BY <2>3 DEF StepsOver, StepsAborted, NextStep, Release, BeginUploads,
         FailTo, env, effectVars
    <3> QED BY <3>1 DEF CacheInv, BeforeUploads, Executing
  <2> QED BY <1>2, <2>1, <2>2, <2>3
<1>3. CASE (\E a \in Artifacts : Upload(a)) \/ UploadsOver
  BY <1>3 DEF Upload, UploadsOver, env, effectVars, CacheInv, BeforeUploads,
     Executing
<1>4. CASE (\E c \in Caches : SaveCache(c)) \/ CachesOver
  BY <1>4 DEF SaveCache, CachesOver, env, effectVars, CacheInv, BeforeUploads,
     Executing
<1>5. CASE Cleanup \/ Judge \/ FinishTrace \/ Check
  <2>1. /\ pc \in {"cleanup", "judge", "finish", "check"}
        /\ pc' \in {"judge", "finish", "check", "report", "done"}
        /\ outcome' = "ok" <=> outcome = "ok"
        /\ UNCHANGED saved
    BY <1>5 DEF Cleanup, Judge, FinishTrace, Check, env, effectVars
  <2> QED BY <2>1 DEF CacheInv, BeforeUploads, Executing
<1>6. CASE ReportTaken \/ ReportUnanswered \/ ReportRejected
  <2>1. /\ pc = "report" /\ pc' \in {"report", "done"}
        /\ UNCHANGED <<outcome, saved>>
    BY <1>6 DEF ReportTaken, ReportUnanswered, ReportRejected, Return, Retry,
       env, effectVars
  <2> QED BY <2>1 DEF CacheInv, BeforeUploads, Executing
<1> QED BY <1>0, <1>1, <1>2, <1>3, <1>4, <1>5, <1>6, NextCases

-----------------------------------------------------------------------------
(* The cancel signal *)

(* Why the signal may be set, and what the run may conclude from it.        *)
SignalInv ==
    /\ cancel # "Running" => abort \/ gitlab # "running"
    /\ cancel = "Aborted" => abort \/ gitlab \in Final
    /\ outcome = "canceled" => cancel # "Running"
    /\ stopped => abort
    /\ pc \in {"finish", "check", "report"} /\ outcome = "canceled"
         => gitlab # "running"
    /\ pc = "done" /\ result = "ok" => gitlab \in Final \/ (abort /\ ~stopped)

(* The signal only escalates, and to nothing but what was heard. *)
LEMMA UpdateEscalates ==
    ASSUME cancel \in DOMAIN Rank, NEW s \in DOMAIN Rank, Update(s)
    PROVE  /\ cancel' \in {cancel, s}
           /\ cancel # "Running" => cancel' # "Running"
BY RankOrder DEF Update

(* GitLab's state never leaves the final states, nor comes back to running. *)
LEMMA GitLabMovesOn ==
    ASSUME DataInv, [Next]_vars
    PROVE  /\ gitlab \in Final => gitlab' \in Final
           /\ gitlab # "running" => gitlab' # "running"
<1>1. CASE Outside
  <2>1. CASE UserCancels \/ GitLabGivesUp
    BY <2>1 DEF UserCancels, GitLabGivesUp, Final
  <2>2. CASE Touch \/ HeartbeatAborts \/ HeartbeatDropped \/ TraceAnswered
               \/ RequestAbort \/ \E d \in {"job", "script", "after"} : Expire(d)
    BY <2>2 DEF Touch, HeartbeatAborts, HeartbeatDropped, TraceAnswered,
       RequestAbort, Expire
  <2> QED BY <1>1, <2>1, <2>2 DEF Outside, Environment, Heartbeat
<1>2. CASE ReportTaken
  BY <1>2 DEF ReportTaken, Recorded, Final
<1>3. CASE (\E a \in Artifacts : Upload(a)) \/ (\E c \in Caches : SaveCache(c))
             \/ Cleanup
  BY <1>3 DEF Upload, SaveCache, Cleanup
<1>4. CASE \/ UNCHANGED vars
           \/ Prepare \/ PullEnds \/ PullAborted \/ Create \/ Panic
           \/ (\E r \in Results : ScriptEnds(r))
           \/ StepsOver \/ StepsAborted \/ NextStep
  BY <1>4 DEF vars, Prepare, PullEnds, PullAborted, Create, Panic,
     ScriptEnds, HookEnds, CheckoutEnds, ResetEnds, RestoreEnds, StepEnds,
     StepsOver, StepsAborted, NextStep, env
<1>5. CASE \/ Release \/ BeginUploads \/ UploadsOver \/ CachesOver \/ Judge
           \/ FinishTrace \/ Check \/ ReportUnanswered \/ ReportRejected
  BY <1>5 DEF Release, BeginUploads, UploadsOver, CachesOver, Judge,
     FinishTrace, Check, ReportUnanswered, ReportRejected, env
<1> QED BY NextCases, <1>1, <1>2, <1>3, <1>4, <1>5

(* What the heartbeat, the log's answers, GitLab and the signal handler do  *)
(* to the signal.                                                           *)
LEMMA OutsideSignal ==
    ASSUME DataInv, SignalInv, Outside
    PROVE  SignalInv'
<1>1. UNCHANGED <<pc, outcome, stopped, result>>
  BY OutsideFrame DEF taskVars
<1>2. /\ gitlab \in Final => gitlab' \in Final
      /\ gitlab # "running" => gitlab' # "running"
  BY GitLabMovesOn DEF Outside, Next
<1>3. CASE UserCancels \/ GitLabGivesUp \/ (\E d \in {"job", "script", "after"} : Expire(d))
             \/ HeartbeatDropped
  <2>1. UNCHANGED <<cancel, abort>>
    BY <1>3 DEF UserCancels, GitLabGivesUp, Expire, HeartbeatDropped, signalVars
  <2> QED BY <1>1, <1>2, <2>1 DEF SignalInv
<1>4. CASE RequestAbort
  BY <1>1, <1>2, <1>4 DEF RequestAbort, SignalInv
<1>5. CASE Touch \/ TraceAnswered
  <2>1. Update(RemoteState) /\ UNCHANGED <<abort, gitlab>>
    BY <1>5 DEF Touch, TraceAnswered
  <2>2. /\ RemoteState \in DOMAIN Rank
        /\ RemoteState # "Running" => gitlab # "running"
        /\ RemoteState = "Aborted" => gitlab \in Final
    BY RankOrder DEF RemoteState, DataInv
  <2>3. cancel' \in {cancel, RemoteState} /\ (cancel # "Running" => cancel' # "Running")
    BY <2>1, <2>2, UpdateEscalates DEF DataInv
  <2> QED BY <1>1, <2>1, <2>2, <2>3 DEF SignalInv
<1>6. CASE HeartbeatAborts
  <2>1. Update("Aborted") /\ abort /\ UNCHANGED <<abort, gitlab>>
    BY <1>6 DEF HeartbeatAborts
  <2>2. cancel # "Running" => cancel' # "Running"
    BY <2>1, RankOrder, UpdateEscalates DEF DataInv
  <2> QED BY <1>1, <2>1, <2>2 DEF SignalInv
<1> QED BY <1>3, <1>4, <1>5, <1>6 DEF Outside, Environment, Heartbeat

(* The steps of the task before it judges touch neither the signal nor      *)
(* GitLab, and make the outcome "canceled" only when the signal is set.     *)
LEMMA TaskSignal ==
    ASSUME SignalInv,
           UNCHANGED <<cancel, abort, stopped, gitlab>>,
           outcome' = "canceled" => outcome = "canceled" \/ cancel # "Running",
           pc' \notin {"finish", "check", "report", "done"}
    PROVE  SignalInv'
BY DEF SignalInv

(* Every step keeps the meaning of the signal. *)
LEMMA NextSignal == TypeInv /\ SignalInv /\ [Next]_vars => SignalInv'
<1> SUFFICES ASSUME TypeInv, SignalInv, [Next]_vars PROVE SignalInv'
  OBVIOUS
<1>0. DataInv
  BY DEF TypeInv
<1>1. CASE Outside
  BY <1>0, <1>1, OutsideSignal
<1>2. CASE UNCHANGED vars
  BY <1>2 DEF vars, taskVars, signalVars, SignalInv
<1>3. CASE Prepare \/ PullEnds \/ PullAborted \/ Create \/ Panic
  BY <1>3, TaskSignal DEF Prepare, PullEnds, PullAborted, Create, Panic,
     Continue, FailTo, OrElse, env
<1>4. ASSUME NEW r \in Results, r = "canceled" => cancel # "Running", ScriptEnds(r)
      PROVE  SignalInv'
  <2>1. ReasonOf(r) = "canceled" => cancel # "Running"
    BY <1>4 DEF ReasonOf, Results
  <2>2. pc' \in Executing /\ UNCHANGED <<cancel, abort, stopped, gitlab>>
    BY <1>4 DEF ScriptEnds, HookEnds, CheckoutEnds, ResetEnds, RestoreEnds,
       StepEnds, Continue, FailTo, env, Executing
  <2>3. outcome' \in {outcome, ReasonOf(r)}
    BY <1>4 DEF ScriptEnds, HookEnds, CheckoutEnds, ResetEnds, RestoreEnds,
       StepEnds, Continue, FailTo, OrElse
  <2> QED BY <2>1, <2>2, <2>3, TaskSignal DEF Executing
<1>5. CASE StepsOver \/ StepsAborted
  BY <1>5, TaskSignal DEF StepsOver, StepsAborted, FailTo, OrElse, env
<1>6. CASE NextStep
  <2>1. outcome' \in {outcome, "canceled"} /\ (outcome' # outcome => cancel # "Running")
    BY <1>6 DEF NextStep, Known, OrElse
  <2>2. pc' \in {"steps", "step"} /\ UNCHANGED <<cancel, abort, stopped, gitlab>>
    BY <1>6 DEF NextStep, env
  <2> QED BY <2>1, <2>2, TaskSignal
<1>7. CASE Release \/ BeginUploads \/ UploadsOver \/ CachesOver
  BY <1>7, TaskSignal DEF Release, BeginUploads, UploadsOver, CachesOver, OrElse, env
<1>8. CASE (\E a \in Artifacts : Upload(a)) \/ (\E c \in Caches : SaveCache(c))
  BY <1>8, TaskSignal DEF Upload, SaveCache, signalVars
<1>9. CASE Cleanup
  BY <1>9, TaskSignal DEF Cleanup
<1>10. CASE Judge
  BY <1>10 DEF Judge, SignalInv, env
<1>11. CASE FinishTrace
  BY <1>11 DEF FinishTrace, SignalInv, env
<1>12. CASE Check
  BY <1>12 DEF Check, GoneFromGitLab, SignalInv, env
<1>13. CASE ReportTaken
  <2>1. gitlab' \in Final /\ gitlab' # "running"
    BY <1>13 DEF ReportTaken, Recorded, Final
  <2>2. UNCHANGED <<cancel, abort, stopped, outcome>>
    BY <1>13 DEF ReportTaken, signalVars
  <2> QED BY <2>1, <2>2 DEF SignalInv
<1>14. CASE ReportUnanswered \/ ReportRejected
  <2>1. /\ pc = "report" /\ pc' \in {"report", "done"}
        /\ pc' = "done" => result' = "error"
        /\ UNCHANGED <<cancel, abort, stopped, outcome, gitlab>>
    BY <1>14 DEF ReportUnanswered, ReportRejected, Retry, Return, env
  <2> QED BY <2>1 DEF SignalInv
<1> QED
  BY <1>0, NextCases, <1>1, <1>2, <1>3, <1>4, <1>5, <1>6, <1>7, <1>8, <1>9,
     <1>10, <1>11, <1>12, <1>13, <1>14

-----------------------------------------------------------------------------
(* What the after_script was told *)

(* Once an after_script was told a status, only it runs, it is the last     *)
(* step, and the status stays true until an upload or a shutdown changes    *)
(* the outcome.                                                             *)
KnowInv ==
    told # "none" /\ "panic" \notin bad =>
      /\ pc \notin (Executing \cup {"prepare"}) \ {"steps", "step"}
      /\ pc = "step" => Steps[step].after /\ step = Len(Steps)
      /\ pc = "steps" => step > Len(Steps)
      /\ told = "success"  => outcome = "ok" \/ "upload" \in bad
      /\ told = "canceled" => \/ outcome = "canceled"
                              \/ Decided /\ stopped /\ outcome = "system"
      /\ told = "failed"   => outcome \notin {"ok", "canceled"}

(* The head of the loop tells an after_script the outcome as it is. *)
LEMMA NextStepKnows ==
    ASSUME TypeInv, KnowInv, NextStep
    PROVE  KnowInv'
<1>1. /\ pc = "steps" /\ step \in 1..Len(Steps)
      /\ outcome' = Known /\ bad \subseteq bad'
      /\ \/ /\ pc' = "step" /\ step' = step
            /\ told' = IF Steps[step].after THEN JobStatus(Known) ELSE told
         \/ pc' = "steps" /\ step' = step + 1 /\ told' = told
  BY DEF NextStep, TypeInv, PlaceInv
<1>2. CASE told # "none"
  BY <1>1, <1>2 DEF KnowInv
<1>3. CASE told = "none" /\ told' # "none"
  <2>1. pc' = "step" /\ step' = step /\ Steps[step].after /\ told' = JobStatus(outcome')
    BY <1>1, <1>3
  <2>2. step = Len(Steps)
    BY <1>1, <2>1, AfterScriptIsLast
  <2>3. /\ told' = "success" => outcome' = "ok"
        /\ told' = "canceled" => outcome' = "canceled"
        /\ told' = "failed" => outcome' \notin {"ok", "canceled"}
    BY <2>1 DEF JobStatus
  <2>4. pc' = "step" /\ Steps[step'].after /\ step' = Len(Steps)
    BY <2>1, <2>2
  <2> QED BY <2>3, <2>4 DEF KnowInv, Executing
<1>4. CASE told' = "none"
  BY <1>4 DEF KnowInv
<1> QED BY <1>2, <1>3, <1>4

(* A step that keeps the outcome, tells nothing and does not lead back into *)
(* the scripts keeps what was told true.                                    *)
LEMMA StillKnows ==
    ASSUME KnowInv, UNCHANGED <<told, outcome>>, bad \subseteq bad',
           pc' \notin Executing \cup {"prepare"},
           Decided => Decided' /\ stopped' = stopped
    PROVE  KnowInv'
BY DEF KnowInv, Executing

(* Every step keeps what the after_script was told true. *)
LEMMA NextKnows == TypeInv /\ KnowInv /\ [Next]_vars => KnowInv'
<1> SUFFICES ASSUME TypeInv, KnowInv, [Next]_vars PROVE KnowInv'
  OBVIOUS
<1>0. DataInv
  BY DEF TypeInv
<1>1. CASE Outside \/ UNCHANGED vars
  <2>1. UNCHANGED <<pc, step, outcome, stopped, told, bad>>
    BY <1>1, OutsideFrame DEF vars, taskVars, historyVars
  <2> QED BY <2>1 DEF KnowInv, Decided
<1>2. CASE Panic
  BY <1>2 DEF Panic, KnowInv
<1>3. CASE Prepare \/ PullEnds \/ PullAborted \/ Create
  <2>1. /\ pc \in (Executing \cup {"prepare"}) \ {"steps", "step"}
        /\ told' = told /\ bad \subseteq bad'
    BY <1>3 DEF Prepare, PullEnds, PullAborted, Create, Continue, FailTo, Executing
  <2> QED BY <2>1 DEF KnowInv
<1>4. ASSUME NEW r \in Results, ScriptEnds(r)
      PROVE  KnowInv'
  <2>1. CASE HookEnds(r) \/ CheckoutEnds(r) \/ ResetEnds(r) \/ RestoreEnds(r)
    <3>1. /\ pc \in Executing \ {"steps", "step"}
          /\ told' = told /\ bad \subseteq bad'
      BY <2>1 DEF HookEnds, CheckoutEnds, ResetEnds, RestoreEnds, Continue,
         FailTo, Executing
    <3> QED BY <3>1 DEF KnowInv
  <2>2. CASE StepEnds(r)
    <3>1. /\ pc = "step" /\ pc' = "steps" /\ step' = step + 1
          /\ told' = told /\ bad \subseteq bad'
          /\ Steps[step].after => outcome' = outcome
      BY <2>2 DEF StepEnds, Ignored
    <3>2. step \in Nat /\ Len(Steps) \in Nat
      BY RunAssumption DEF TypeInv, PlaceInv
    <3> QED BY <3>1, <3>2 DEF KnowInv, Executing, Decided
  <2> QED BY <1>4, <2>1, <2>2 DEF ScriptEnds
<1>5. CASE StepsOver
  BY <1>5, StillKnows DEF StepsOver, historyVars, Executing, Decided
<1>6. CASE StepsAborted
  <2>1. /\ pc = "steps" /\ step <= Len(Steps) /\ told' = told /\ bad \subseteq bad'
    BY <1>6 DEF StepsAborted, FailTo
  <2>2. step \in Nat /\ Len(Steps) \in Nat
    BY RunAssumption DEF TypeInv, PlaceInv
  <2> QED BY <2>1, <2>2 DEF KnowInv
<1>7. CASE NextStep
  BY <1>7, NextStepKnows
<1>8. CASE Release \/ BeginUploads \/ CachesOver
  BY <1>8, StillKnows DEF Release, BeginUploads, CachesOver, historyVars,
     Executing, Decided
<1>9. CASE (\E a \in Artifacts : Upload(a)) \/ (\E c \in Caches : SaveCache(c))
             \/ Cleanup
  BY <1>9, StillKnows DEF Upload, SaveCache, Cleanup, historyVars, Executing,
     Decided
<1>10. CASE UploadsOver
  <2>1. /\ pc = "upload" /\ pc' = "cache" /\ UNCHANGED <<told, bad>>
        /\ outcome' = outcome \/ (outcome = "ok" /\ "upload" \in bad /\ outcome' = "script")
    BY <1>10 DEF UploadsOver, OrElse, historyVars
  <2> QED BY <2>1 DEF KnowInv, Executing, Decided
<1>11. CASE Judge
  <2>1. /\ pc = "judge" /\ pc' = "finish" /\ UNCHANGED <<told, bad>>
        /\ \/ outcome' = outcome
           \/ outcome = "canceled" /\ outcome' = "system" /\ stopped'
    BY <1>11, <1>0 DEF Judge, historyVars, DataInv
  <2> QED BY <2>1 DEF KnowInv, Executing, Decided
<1>12. CASE FinishTrace \/ Check
  BY <1>12, StillKnows DEF FinishTrace, Check, historyVars, Executing, Decided
<1>13. CASE ReportTaken \/ ReportUnanswered \/ ReportRejected
  <2>1. /\ pc = "report" /\ pc' \in {"report", "done"}
        /\ UNCHANGED <<outcome, stopped, told, bad>>
    BY <1>13 DEF ReportTaken, ReportUnanswered, ReportRejected, Retry, Return,
       historyVars
  <2> QED BY <2>1, StillKnows DEF Executing, Decided
<1> QED
  BY <1>0, NextCases, <1>1, <1>2, <1>3, <1>4, <1>5, <1>6, <1>7, <1>8, <1>9,
     <1>10, <1>11, <1>12, <1>13

-----------------------------------------------------------------------------
IInv == TypeInv /\ VerdictInv /\ CacheInv /\ SignalInv /\ KnowInv

(* The invariant of a run the theorems below rest on is inductive, one part *)
(* after the other.                                                         *)
THEOREM Invariant == Spec => []IInv
<1>1. Init => VerdictInv /\ CacheInv /\ SignalInv /\ KnowInv
  BY DEF Init, VerdictInv, CacheInv, SignalInv, KnowInv
<1>2. TypeInv /\ [Next]_vars => TypeInv'
  BY NextPlaces, NextData DEF TypeInv
<1>3. IInv /\ [Next]_vars => IInv'
  BY <1>2, NextVerdict, NextCaches, NextSignal, NextKnows DEF IInv
<1>4. Init => IInv
  BY <1>1, InitTypes DEF IInv
<1> QED BY <1>3, <1>4, PTL DEF Spec

(* VerdictIsEarned: the verdict is a success exactly when nothing that      *)
(* counts went wrong, whatever the steps, their `when` and allow_failure,   *)
(* the uploads, cancels, deadlines, aborts and panics.                      *)
THEOREM VerdictsEarned == Spec => []VerdictIsEarned
<1>1. IInv => VerdictIsEarned
  BY DEF IInv, VerdictInv, VerdictIsEarned, Decided
<1> QED BY Invariant, <1>1, PTL

(* AfterScriptKnows: the CI_JOB_STATUS the after_script saw is the verdict, *)
(* but for a failed upload, a panic or a shutdown after it.                 *)
THEOREM AfterScriptsKnow == Spec => []AfterScriptKnows
<1>1. IInv => AfterScriptKnows
  <2> SUFFICES ASSUME IInv, Decided, "panic" \notin bad
               PROVE  AfterScriptKnows
    BY DEF AfterScriptKnows
  <2> QED BY DEF IInv, KnowInv, AfterScriptKnows
<1> QED BY Invariant, <1>1, PTL

(* CachesMatchVerdict: a cache that was saved is one the reported verdict   *)
(* asks for, even when an upload changed the outcome.                       *)
THEOREM CachesMatch == Spec => []CachesMatchVerdict
<1>1. IInv => CachesMatchVerdict
  BY DEF IInv, CacheInv, CachesMatchVerdict
<1> QED BY Invariant, <1>1, PTL

(* CancelIsNotOurs: a verdict of "canceled" is one GitLab gave; a job the   *)
(* shutdown stopped fails as the runner's.                                  *)
THEOREM CancelsNotOurs == Spec => []CancelIsNotOurs
<1>1. IInv => CancelIsNotOurs
  BY DEF IInv, SignalInv, CancelIsNotOurs
<1> QED BY Invariant, <1>1, PTL

(* FinishedIsFinal: a run that returns without an error leaves the job in a *)
(* final state at GitLab, but for an abort after stopped_by_shutdown was    *)
(* read.                                                                    *)
THEOREM FinishedFinal == Spec => []FinishedIsFinal
<1>1. IInv => FinishedIsFinal
  BY DEF IInv, SignalInv, FinishedIsFinal
<1> QED BY Invariant, <1>1, PTL
=============================================================================
