--------------------------- MODULE JobRequestProofs ---------------------------
(***************************************************************************)
(* Proofs about JobRequest, for every set of jobs, every choice of those   *)
(* that can be parsed or identified, and every number of attempts.         *)
(***************************************************************************)
EXTENDS JobRequest, TLAPS

(* A request is tried at most as often as it may be.  *)
AttemptInv ==
    /\ at = "patch" => attempt \in 1..MaxPatches
    /\ at = "update" => attempt \in 1..MaxUpdates

(* A job whose answer arrived was assigned, for good. *)
AssignedInv ==
    /\ job # NoJob => job \in received
    /\ \A j \in received : state[j] # "pending"

(* Its log says why it is about to be failed, as far as that can be. *)
Settled(j) ==
    \/ j \in explained
    \/ <<"patch", j>> \in givenUp
    \/ state[j] = "canceled"

(* A job is only failed after that, by the request under way or a late one. *)
OrderInv ==
    /\ at = "update" => Settled(job)
    /\ \A j \in Jobs : <<"update", j>> \in late => Settled(j)

IInv ==
    /\ TypeOK /\ AttemptInv /\ AssignedInv /\ OrderInv
    /\ NotForgotten /\ FailedIsExplained

Kinds == {"patch", "update"}

-----------------------------------------------------------------------------
(* The loop starts with nothing assigned. *)
LEMMA InitIInv == ASSUME RequestAssumption PROVE Init => IInv
  <1> SUFFICES ASSUME Init PROVE IInv
    OBVIOUS
  <1>1. TypeOK
    <2>1. attempt \in 0..MaxPatches \union 0..MaxUpdates
      BY DEF Init, RequestAssumption
    <2>2. state \in [Jobs -> {"pending", "running", "failed", "canceled"}]
      BY DEF Init
    <2> QED
      BY <2>1, <2>2 DEF Init, TypeOK
  <1>2. AttemptInv /\ AssignedInv /\ OrderInv
    BY DEF Init, AttemptInv, AssignedInv, OrderInv
  <1>3. NotForgotten /\ FailedIsExplained
    BY DEF Init, NotForgotten, FailedIsExplained
  <1> QED
    BY <1>1, <1>2, <1>3 DEF IInv

(* What GitLab does with a request: it explains a job, or it fails one that  *)
(* runs; after an update the job does not run, after a patch of a running    *)
(* job its log has the explanation.                                          *)
LEMMA HandleEffect ==
  ASSUME TypeOK, NEW request \in Kinds, NEW j \in Jobs, Handle(request, j)
  PROVE  /\ state' \in [Jobs -> {"pending", "running", "failed", "canceled"}]
         /\ explained \subseteq explained' /\ explained' \subseteq Jobs
         /\ \A i \in Jobs : \/ state'[i] = state[i]
                            \/ /\ request = "update" /\ i = j
                               /\ state[i] = "running" /\ state'[i] = "failed"
         /\ request = "patch" /\ state[j] = "running" => j \in explained'
         /\ request = "update" => state'[j] # "running"
  <1>1. CASE state[j] # "running"
    BY <1>1 DEF Handle, TypeOK, gitlab
  <1>2. CASE state[j] = "running" /\ request = "patch"
    BY <1>2 DEF Handle, TypeOK
  <1>3. CASE state[j] = "running" /\ request = "update"
    BY <1>3 DEF Handle, TypeOK
  <1> QED
    BY <1>1, <1>2, <1>3 DEF Kinds

(* Where a request leads to. *)
LEMMA ThenIs == Then("patch") = "update" /\ Then("update") = "wait"
  BY DEF Then, Requests

(* Settled stays true: logs only grow and canceled is final. *)
LEMMA SettledStays ==
  ASSUME NEW j, Settled(j), explained \subseteq explained', givenUp \subseteq givenUp',
         state[j] = "canceled" => state'[j] = "canceled"
  PROVE  Settled(j)'
  BY DEF Settled

-----------------------------------------------------------------------------
(* The steps of the loop that only move on. *)
LEMMA LoopKeeps ==
  ASSUME RequestAssumption, IInv, Poll \/ Stop \/ Nothing \/ Shutdown
  PROVE  IInv'
  <1>1. TypeOK'
    BY DEF IInv, TypeOK, Poll, Stop, Nothing, Shutdown, gitlab, history
  <1>2. AttemptInv' /\ AssignedInv'
    BY DEF IInv, AttemptInv, AssignedInv, Poll, Stop, Nothing, Shutdown, gitlab, history
  <1>3. OrderInv'
    BY DEF IInv, OrderInv, Settled, Poll, Stop, Nothing, Shutdown, gitlab, history
  <1>4. NotForgotten' /\ FailedIsExplained'
    BY DEF IInv, NotForgotten, FailedIsExplained, Poll, Stop, Nothing, Shutdown,
           gitlab, history
  <1> QED
    BY <1>1, <1>2, <1>3, <1>4 DEF IInv

(* A job is assigned, and its answer arrives or does not. *)
LEMMA AssignKeeps ==
  ASSUME RequestAssumption, IInv, NEW j \in Jobs, Answer(j) \/ AnswerLost(j)
  PROVE  IInv'
  <1> USE DEF IInv
  <1>1. /\ at = "asking" /\ state[j] = "pending"
        /\ state' = [state EXCEPT ![j] = "running"]
        /\ UNCHANGED <<attempt, started, stop, explained, late, givenUp, refused>>
        /\ job = NoJob
    BY DEF Answer, AnswerLost, history, TypeOK
  <1>2. \/ received' = received \union {j} /\ job' = j /\ at' = "answered"
        \/ received' = received /\ job' = job /\ at' = "wait"
    BY DEF Answer, AnswerLost, history
  <1>3. TypeOK'
    BY <1>1, <1>2 DEF TypeOK, RequestAssumption
  <1>4. \A i \in Jobs : i # j => state'[i] = state[i]
    BY <1>1 DEF TypeOK
  <1>5. state'[j] = "running"
    BY <1>1 DEF TypeOK
  <1>6. AttemptInv' /\ AssignedInv'
    BY <1>1, <1>2, <1>4, <1>5 DEF AttemptInv, AssignedInv, TypeOK
  <1>7. OrderInv'
    BY <1>1, <1>2, <1>4 DEF OrderInv, Settled
  <1>8. j \notin received
    BY <1>1 DEF AssignedInv
  <1>9. NotForgotten'
    BY <1>1, <1>2, <1>4, <1>8 DEF NotForgotten, TypeOK, RequestAssumption
  <1>10. FailedIsExplained'
    BY <1>1, <1>4, <1>5 DEF FailedIsExplained
  <1> QED
    BY <1>3, <1>6, <1>7, <1>9, <1>10

(* What is done with an answer: it is executed, explained, or dropped. *)
LEMMA AnswerKeeps ==
  ASSUME RequestAssumption, IInv, Execute \/ Explain \/ Unidentified
  PROVE  IInv'
  <1> USE DEF IInv
  <1>1. /\ UNCHANGED <<stop, state, explained, late, received, givenUp, refused>>
        /\ at = "answered" /\ job \in Jobs
    BY DEF Execute, Explain, Unidentified, gitlab, history, TypeOK
  <1>2. \/ /\ job \in Parsable /\ started' = started \union {job}
           /\ at' = "wait" /\ job' = NoJob /\ attempt' = attempt
        \/ /\ job \in Identified \ Parsable /\ started' = started
           /\ at' = "patch" /\ job' = job /\ attempt' = 1
        \/ /\ job \notin Identified /\ started' = started
           /\ at' = "wait" /\ job' = NoJob /\ attempt' = attempt
    BY DEF Execute, Explain, Unidentified, gitlab, history, Requests
  <1>3. TypeOK'
    BY <1>1, <1>2 DEF TypeOK, RequestAssumption
  <1>4. AttemptInv' /\ AssignedInv'
    BY <1>1, <1>2 DEF AttemptInv, AssignedInv, RequestAssumption
  <1>5. OrderInv'
    BY <1>1, <1>2 DEF OrderInv, Settled
  <1>6. NotForgotten' /\ FailedIsExplained'
    BY <1>1, <1>2 DEF NotForgotten, FailedIsExplained
  <1> QED
    BY <1>3, <1>4, <1>5, <1>6

(* What a request does to GitLab, of a job it may be about. *)
LEMMA HandleKeeps ==
  ASSUME RequestAssumption, IInv, NEW request \in Kinds, NEW j \in Jobs,
         Handle(request, j), request = "update" => Settled(j),
         UNCHANGED <<started, received>>, givenUp \subseteq givenUp'
  PROVE  /\ \A i \in Jobs : Settled(i) => Settled(i)'
         /\ \A i \in received' : state'[i] # "pending"
         /\ FailedIsExplained'
  <1>1. TypeOK /\ AssignedInv /\ FailedIsExplained /\ received \subseteq Jobs
    BY DEF IInv, TypeOK
  <1>2. /\ explained \subseteq explained'
        /\ \A i \in Jobs : \/ state'[i] = state[i]
                           \/ /\ request = "update" /\ i = j
                              /\ state[i] = "running" /\ state'[i] = "failed"
    BY <1>1, HandleEffect
  <1>3. \A i \in Jobs : Settled(i) => Settled(i)'
    BY <1>2 DEF Settled
  <1>4. \A i \in received' : state'[i] # "pending"
    BY <1>1, <1>2 DEF AssignedInv
  <1>5. FailedIsExplained'
    BY <1>1, <1>2 DEF FailedIsExplained, Settled
  <1> QED
    BY <1>3, <1>4, <1>5

(* A request returned: the next one begins, or the loop polls again. *)
LEMMA ReturnsEffect ==
  ASSUME RequestAssumption, NEW request \in Kinds, Returns(request)
  PROVE  \/ /\ request = "patch" /\ at' = "update" /\ attempt' = 1 /\ job' = job
         \/ /\ request = "update" /\ at' = "wait" /\ attempt' = 0 /\ job' = NoJob
  BY ThenIs DEF Returns, Kinds

(* The request under way is about a job the runner was told of. *)
LEMMA RequestIsAbout ==
  ASSUME IInv, NEW request \in Kinds, at = request
  PROVE  /\ job \in Jobs /\ job \in received /\ job # NoJob
         /\ attempt \in 1..Attempts[request]
         /\ request = "update" => Settled(job)
  BY DEF IInv, TypeOK, AttemptInv, AssignedInv, OrderInv, Kinds, Attempts

(* A request that was answered. *)
LEMMA AnsweredKeeps ==
  ASSUME RequestAssumption, IInv, NEW request \in Kinds, Answered(request)
  PROVE  IInv'
  <1>1. /\ at = request /\ Handle(request, job) /\ Returns(request)
        /\ UNCHANGED <<started, stop, late, received, givenUp, refused>>
    BY DEF Answered, history
  <1>2. /\ job \in Jobs /\ job \in received /\ job # NoJob
        /\ request = "update" => Settled(job)
    BY <1>1, RequestIsAbout
  <1>3. TypeOK
    BY DEF IInv
  <1>4. /\ state' \in [Jobs -> {"pending", "running", "failed", "canceled"}]
        /\ explained' \subseteq Jobs
        /\ \A i \in Jobs : \/ state'[i] = state[i]
                           \/ /\ request = "update" /\ i = job
                              /\ state[i] = "running" /\ state'[i] = "failed"
        /\ request = "patch" /\ state[job] = "running" => job \in explained'
        /\ request = "update" => state'[job] # "running"
    BY <1>1, <1>2, <1>3, HandleEffect
  <1>5. \/ request = "patch" /\ at' = "update" /\ attempt' = 1 /\ job' = job
        \/ request = "update" /\ at' = "wait" /\ attempt' = 0 /\ job' = NoJob
    BY <1>1, ReturnsEffect
  <1>6. /\ \A i \in Jobs : Settled(i) => Settled(i)'
        /\ \A i \in received' : state'[i] # "pending"
        /\ FailedIsExplained'
    BY <1>1, <1>2, HandleKeeps
  <1>7. TypeOK'
    BY <1>1, <1>2, <1>3, <1>4, <1>5 DEF TypeOK, RequestAssumption
  <1>8. AttemptInv'
    BY <1>5 DEF AttemptInv, RequestAssumption
  <1>9. AssignedInv'
    BY <1>1, <1>2, <1>5, <1>6 DEF AssignedInv
  <1>10. ASSUME request = "patch" PROVE Settled(job)'
    <2>1. job' = job
      BY <1>5, <1>10
    <2>2. CASE state[job] = "running"
      BY <1>4, <1>10, <2>1, <2>2 DEF Settled
    <2>3. CASE state[job] = "failed"
      <3>1. Settled(job)
        BY <1>2, <2>3 DEF IInv, FailedIsExplained, Settled
      <3> QED
        BY <1>2, <1>6, <2>1, <3>1 DEF Settled
    <2>4. CASE state[job] = "canceled"
      BY <1>2, <1>4, <2>1, <2>4 DEF Settled
    <2>5. state[job] # "pending"
      BY <1>2 DEF IInv, AssignedInv
    <2> QED
      BY <1>2, <1>3, <2>2, <2>3, <2>4, <2>5 DEF TypeOK
  <1>11. OrderInv'
    BY <1>1, <1>3, <1>5, <1>6, <1>10 DEF IInv, OrderInv, TypeOK, Settled
  <1>12. NotForgotten'
    BY <1>1, <1>2, <1>3, <1>4, <1>5 DEF IInv, NotForgotten, TypeOK
  <1> QED
    BY <1>6, <1>7, <1>8, <1>9, <1>11, <1>12 DEF IInv

(* An attempt that failed: GitLab took it, or not, or may yet; it is tried   *)
(* again, or given up.                                                       *)
LEMMA FailsKeeps ==
  ASSUME RequestAssumption, IInv, NEW request \in Kinds, Fails(request)
  PROVE  IInv'
  <1>1. /\ at = request /\ UNCHANGED <<started, stop, received, refused>>
        /\ Retry(request)
        /\ givenUp' = givenUp \union {r \in {<<request, job>>} : attempt = Attempts[request]}
    BY DEF Fails
  <1>2. \/ UNCHANGED <<gitlab, late>>
        \/ Handle(request, job) /\ UNCHANGED late
        \/ late' = late \union {<<request, job>>} /\ UNCHANGED gitlab
    BY DEF Fails
  <1>3. /\ job \in Jobs /\ job \in received /\ job # NoJob
        /\ attempt \in 1..Attempts[request]
        /\ request = "update" => Settled(job)
    BY <1>1, RequestIsAbout
  <1>4. TypeOK
    BY DEF IInv
  <1>5. /\ state' \in [Jobs -> {"pending", "running", "failed", "canceled"}]
        /\ explained' \subseteq Jobs
        /\ \A i \in Jobs : \/ state'[i] = state[i]
                           \/ /\ request = "update" /\ i = job
                              /\ state[i] = "running" /\ state'[i] = "failed"
        /\ \A i \in Jobs : Settled(i) => Settled(i)'
        /\ \A i \in received' : state'[i] # "pending"
        /\ FailedIsExplained'
    <2>1. CASE Handle(request, job)
      BY <1>1, <1>3, <1>4, <2>1, HandleEffect, HandleKeeps
    <2>2. CASE UNCHANGED gitlab
      BY <1>1, <1>4, <2>2 DEF gitlab, IInv, TypeOK, AssignedInv, FailedIsExplained, Settled
    <2> QED
      BY <1>2, <2>1, <2>2 DEF gitlab
  <1>6. \/ /\ attempt < Attempts[request] /\ attempt' = attempt + 1
           /\ at' = at /\ job' = job /\ givenUp' = givenUp
        \/ /\ givenUp' = givenUp \union {<<request, job>>}
           /\ \/ /\ request = "patch" /\ at' = "update" /\ attempt' = 1 /\ job' = job
              \/ /\ request = "update" /\ at' = "wait" /\ attempt' = 0 /\ job' = NoJob
    <2>1. Attempts[request] \in Nat
      BY DEF Attempts, Kinds, RequestAssumption
    <2>2. CASE attempt < Attempts[request]
      BY <1>1, <1>3, <2>1, <2>2 DEF Retry
    <2>3. CASE ~(attempt < Attempts[request])
      <3>1. attempt = Attempts[request]
        BY <1>3, <2>1, <2>3
      <3>2. Returns(request)
        BY <1>1, <2>3 DEF Retry
      <3> QED
        BY <1>1, <3>1, <3>2, ReturnsEffect
    <2> QED
      BY <2>2, <2>3
  <1>7. /\ late \subseteq late' /\ late' \subseteq late \union {<<request, job>>}
        /\ givenUp \subseteq givenUp' /\ givenUp' \subseteq givenUp \union {<<request, job>>}
    BY <1>1, <1>2
  <1>8. TypeOK'
    <2>1. attempt' \in 0..MaxPatches \union 0..MaxUpdates
      BY <1>3, <1>6 DEF Attempts, Kinds, RequestAssumption
    <2> QED
      BY <1>1, <1>3, <1>4, <1>5, <1>6, <1>7, <2>1 DEF TypeOK, Kinds, RequestAssumption
  <1>9. AttemptInv'
    BY <1>1, <1>3, <1>6 DEF AttemptInv, Attempts, Kinds, RequestAssumption
  <1>10. AssignedInv'
    BY <1>1, <1>3, <1>5, <1>6 DEF AssignedInv
  <1>11. OrderInv'
    <2>1. at' = "update" => Settled(job)'
      <3>1. CASE request = "update"
        BY <1>1, <1>3, <1>5, <1>6, <3>1 DEF Settled
      <3>2. CASE request = "patch"
        BY <1>1, <1>6, <3>2 DEF Settled
      <3> QED
        BY <3>1, <3>2 DEF Kinds
    <2>2. ASSUME NEW j \in Jobs, <<"update", j>> \in late' PROVE Settled(j)'
      <3>1. Settled(j)
        BY <1>3, <1>7, <2>2 DEF IInv, OrderInv
      <3> QED
        BY <1>5, <3>1
    <2> QED
      BY <2>1, <2>2 DEF OrderInv
  <1>12. NotForgotten'
    BY <1>1, <1>3, <1>4, <1>5, <1>6, <1>7 DEF IInv, NotForgotten, TypeOK, Kinds
  <1> QED
    BY <1>5, <1>8, <1>9, <1>10, <1>11, <1>12 DEF IInv

(* An update that was refused: the loop goes on, GitLab did nothing. *)
LEMMA RefusedKeeps ==
  ASSUME RequestAssumption, IInv, Refused
  PROVE  IInv'
  <1>1. /\ at = "update" /\ refused' = refused \union {job} /\ Returns("update")
        /\ UNCHANGED <<started, stop, state, explained, late, received, givenUp>>
    BY DEF Refused, gitlab
  <1>2. job \in Jobs /\ job \in received /\ job # NoJob
    BY <1>1, RequestIsAbout DEF Kinds
  <1>3. at' = "wait" /\ attempt' = 0 /\ job' = NoJob
    BY <1>1, ReturnsEffect DEF Kinds
  <1>4. TypeOK'
    BY <1>1, <1>2, <1>3 DEF IInv, TypeOK, RequestAssumption
  <1>5. AttemptInv' /\ AssignedInv'
    BY <1>1, <1>3 DEF IInv, AttemptInv, AssignedInv
  <1>6. OrderInv'
    BY <1>1, <1>3 DEF IInv, OrderInv, Settled
  <1>7. NotForgotten' /\ FailedIsExplained'
    BY <1>1, <1>3 DEF IInv, NotForgotten, FailedIsExplained
  <1> QED
    BY <1>4, <1>5, <1>6, <1>7 DEF IInv

-----------------------------------------------------------------------------
(* A request that was given up arrives. *)
LEMMA ArriveKeeps ==
  ASSUME RequestAssumption, IInv, NEW r \in late, Arrive(r)
  PROVE  IInv'
  <1>1. TypeOK /\ OrderInv /\ NotForgotten
    BY DEF IInv
  <1>2. PICK request \in Kinds, j \in Jobs : r = <<request, j>>
    BY <1>1 DEF TypeOK, Kinds
  <1>3. /\ Handle(request, j) /\ late' \subseteq late
        /\ UNCHANGED <<at, job, attempt, started, stop, received, givenUp, refused>>
    BY <1>2 DEF Arrive, history
  <1>4. request = "update" => Settled(j)
    BY <1>1, <1>2 DEF OrderInv
  <1>5. /\ state' \in [Jobs -> {"pending", "running", "failed", "canceled"}]
        /\ explained' \subseteq Jobs
        /\ \A i \in Jobs : state'[i] = state[i] \/ state'[i] = "failed"
    BY <1>1, <1>3, HandleEffect
  <1>6. /\ \A i \in Jobs : Settled(i) => Settled(i)'
        /\ \A i \in received' : state'[i] # "pending"
        /\ FailedIsExplained'
    BY <1>3, <1>4, HandleKeeps
  <1>7. TypeOK'
    BY <1>1, <1>3, <1>5 DEF TypeOK
  <1>8. AttemptInv' /\ AssignedInv'
    BY <1>3, <1>6 DEF IInv, AttemptInv, AssignedInv
  <1>9. OrderInv'
    BY <1>1, <1>3, <1>6 DEF OrderInv, TypeOK, Settled
  <1>10. NotForgotten'
    BY <1>1, <1>3, <1>5 DEF NotForgotten, TypeOK
  <1> QED
    BY <1>6, <1>7, <1>8, <1>9, <1>10 DEF IInv

(* Somebody cancels a job. *)
LEMMA CancelKeeps ==
  ASSUME RequestAssumption, IInv, NEW j \in Jobs, Cancel(j)
  PROVE  IInv'
  <1>1. TypeOK
    BY DEF IInv
  <1>2. /\ state' = [state EXCEPT ![j] = "canceled"]
        /\ UNCHANGED <<at, job, attempt, started, stop, explained, late, received, givenUp, refused>>
    BY DEF Cancel, history
  <1>3. \A i \in Jobs : state'[i] = IF i = j THEN "canceled" ELSE state[i]
    BY <1>1, <1>2 DEF TypeOK
  <1>4. TypeOK'
    BY <1>1, <1>2 DEF TypeOK
  <1>5. AttemptInv' /\ AssignedInv'
    BY <1>1, <1>2, <1>3 DEF IInv, AttemptInv, AssignedInv, TypeOK
  <1>6. OrderInv'
    BY <1>1, <1>2, <1>3 DEF IInv, OrderInv, Settled, TypeOK
  <1>7. NotForgotten' /\ FailedIsExplained'
    BY <1>1, <1>2, <1>3 DEF IInv, NotForgotten, FailedIsExplained, TypeOK
  <1> QED
    BY <1>4, <1>5, <1>6, <1>7 DEF IInv

(* The invariant is inductive. *)
LEMMA NextIInv == ASSUME RequestAssumption PROVE IInv /\ [Next]_vars => IInv'
  <1> SUFFICES ASSUME IInv, [Next]_vars PROVE IInv'
    OBVIOUS
  <1>1. CASE Poll \/ Stop \/ Nothing \/ Shutdown
    BY <1>1, LoopKeeps
  <1>2. ASSUME NEW j \in Jobs, Answer(j) \/ AnswerLost(j) PROVE IInv'
    BY <1>2, AssignKeeps
  <1>3. CASE Execute \/ Explain \/ Unidentified
    BY <1>3, AnswerKeeps
  <1>4. ASSUME NEW request \in Kinds, Answered(request) PROVE IInv'
    BY <1>4, AnsweredKeeps
  <1>5. ASSUME NEW request \in Kinds, Fails(request) PROVE IInv'
    BY <1>5, FailsKeeps
  <1>6. ASSUME NEW r \in late, Arrive(r) PROVE IInv'
    BY <1>6, ArriveKeeps
  <1>7. ASSUME NEW j \in Jobs, Cancel(j) PROVE IInv'
    BY <1>7, CancelKeeps
  <1>8. CASE Refused
    BY <1>8, RefusedKeeps
  <1>9. CASE UNCHANGED vars
    BY <1>9 DEF vars, gitlab, history, IInv, TypeOK, AttemptInv, AssignedInv, OrderInv,
                Settled, NotForgotten, FailedIsExplained
  <1> QED
    BY <1>1, <1>2, <1>3, <1>4, <1>5, <1>6, <1>7, <1>8, <1>9 DEF Next, Step, Kinds

-----------------------------------------------------------------------------
(* The inductive invariant holds of every behaviour. *)
THEOREM Invariant == ASSUME RequestAssumption PROVE Spec => []IInv
  <1>1. Init => IInv
    BY InitIInv
  <1>2. IInv /\ [Next]_vars => IInv'
    BY NextIInv
  <1> QED
    BY <1>1, <1>2, PTL DEF Spec

(* Every variable keeps its type; attempts stay within their bounds. *)
THEOREM TypeCorrect == ASSUME RequestAssumption PROVE Spec => []TypeOK
  <1>1. IInv => TypeOK
    BY DEF IInv
  <1> QED
    BY <1>1, Invariant, PTL

(* request_job forgets no job: one whose answer arrived is left running only *)
(* when it was started, cannot be named, when each of the updates that would *)
(* fail it failed, or when GitLab answered one of them with a status that    *)
(* update_job does not try again.                                            *)
THEOREM JobsNotForgotten == ASSUME RequestAssumption PROVE Spec => []NotForgotten
  <1>1. IInv => NotForgotten
    BY DEF IInv
  <1> QED
    BY <1>1, Invariant, PTL

(* request_job explains before it fails: a job it failed has the reason in    *)
(* its log, whatever was lost or came late, unless each attempt to write it  *)
(* failed.                                                                   *)
THEOREM FailuresExplained == ASSUME RequestAssumption PROVE Spec => []FailedIsExplained
  <1>1. IInv => FailedIsExplained
    BY DEF IInv
  <1> QED
    BY <1>1, Invariant, PTL

=============================================================================
