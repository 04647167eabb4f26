------------------------- MODULE RunnerDaemonProofs -------------------------
(***************************************************************************)
(* Proofs about RunnerDaemon, for every value of its constants.  Each part *)
(* of the inductive invariant is shown inductive on its own, given the     *)
(* parts before it: first permits, then slot ids, then workspaces.         *)
(***************************************************************************)
EXTENDS RunnerDaemon, FiniteSetTheorems, WellFoundedInduction, TLAPS

(* The permits are conserved among finitely many tasks, and a stopped       *)
(* daemon has them all.                                                     *)
PermitInv ==
    /\ IsFiniteSet(Holders)
    /\ PermitConservation
    /\ loop = "Stopped" => permits = Concurrent

(* ConcurrencySlots holds the ids of the tasks that have a slot, no others. *)
IdsExact ==
    /\ runnerIds = {slot[j].runner : j \in SlotOwners}
    /\ \A p \in Projects :
         projectIds[p] = {slot[j].project : j \in {i \in SlotOwners : ProjectOf[i] = p}}

SlotInv == IdsExact /\ DistinctIds /\ IdsBelowConcurrent

(* What an eviction knows of the jobs registered before it: they never      *)
(* register again, and while they are registered it has their workspace in  *)
(* its copy and never as its victim.                                        *)
EvictionInv ==
    \A e \in Evictors :
      /\ epc[e] # "looking" => victim[e] = None
      /\ \A j \in before[e] :
          /\ pc[j] \in Registers \cup {"reporting", "released", "done"}
          /\ j \in Registered => Workspace(j) \in seen[e] /\ victim[e] # Workspace(j)

(* A directory with files of a job is one of that job's names. *)
LeftByInv ==
    \A f \in leftBy :
        \E k \in Jobs, n \in Nat :
            f = << IF ProtectionOf[k] = "unknown"
                     THEN <<"job", k>>
                     ELSE <<"project", ProjectOf[k], n, ProtectionOf[k]>>, k>>

IInv == /\ TypeOK
        /\ PermitInv
        /\ SlotInv
        /\ WorkspaceExclusive
        /\ EvictionInv
        /\ LeftByInv

-----------------------------------------------------------------------------
(* lowest_free *)

(* A nonempty set of natural numbers has a least element: the interval      *)
(* 0..x is minimal among those of its elements under strict inclusion.      *)
LEMMA LeastNumber ==
    ASSUME NEW T \in SUBSET Nat, T # {}
    PROVE  \E x \in T : \A y \in T : x <= y
<1> DEFINE I == {0..i : i \in T}
<1>1. I # {} /\ I \subseteq FiniteSubsetsOf(Nat)
  <2>1. \A i \in T : (0..i) \subseteq Nat /\ IsFiniteSet(0..i)
    BY FS_Interval
  <2> QED BY <2>1 DEF FiniteSubsetsOf
<1>2. \E m \in I : \A y \in I : ~(<<y, m>> \in StrictSubsetOrdering(Nat))
  <2> HIDE DEF I
  <2> QED BY <1>1, WFMin, FS_StrictSubsetOrderingWellFounded, Zenon
<1>3. PICK x \in T : \A y \in I : ~(<<y, 0..x>> \in StrictSubsetOrdering(Nat))
  BY <1>2
<1>4. ASSUME NEW y \in T, ~(x <= y) PROVE FALSE
  <2>1. 0..y \in I /\ 0..y \in SUBSET Nat /\ 0..x \in SUBSET Nat
    OBVIOUS
  <2>2. 0..y \subseteq 0..x /\ 0..y # 0..x
    BY <1>4
  <2> QED BY <2>1, <2>2, <1>3 DEF StrictSubsetOrdering
<1> QED BY <1>4

(* ConcurrencySlots::lowest_free returns an id that is not taken, no larger *)
(* than the number of taken ids, with every smaller id taken.               *)
THEOREM LowestFreeId ==
    ASSUME NEW used \in SUBSET Nat, IsFiniteSet(used)
    PROVE  /\ LowestFree(used) \in 0..Cardinality(used)
           /\ LowestFree(used) \notin used
           /\ \A k \in 0..(LowestFree(used) - 1) : k \in used
<1> DEFINE n == Cardinality(used)
           free == {i \in 0..n : i \notin used}
<1>1. n \in Nat
  BY FS_CardinalityType
<1>2. free # {}
  <2>1. SUFFICES ASSUME free = {} PROVE FALSE
    OBVIOUS
  <2>2. 0..n \in SUBSET used
    BY <2>1
  <2>3. Cardinality(0..n) <= n
    BY <2>2, FS_Subset
  <2> QED BY <2>3, <1>1, FS_Interval
<1>3. PICK i \in free : \A y \in free : i <= y
  <2>1. free \in SUBSET Nat
    BY <1>1
  <2> HIDE DEF free
  <2> QED BY <1>2, <2>1, LeastNumber
<1>4. i \in 0..n /\ i \notin used /\ \A k \in 0..(i - 1) : k \in used
  BY <1>3, <1>1
<1> HIDE DEF n
<1> QED BY <1>4 DEF LowestFree, n

-----------------------------------------------------------------------------
(* Type correctness and permits *)

(* Initially every permit is free. *)
LEMMA InitPermits == Init => TypeOK /\ PermitInv
<1> SUFFICES ASSUME Init PROVE TypeOK /\ PermitInv
  OBVIOUS
<1> USE DaemonAssumption
<1>1. TypeOK
  BY DEF Init, TypeOK, AtGitLab, NoSlot, Rank
<1>2. Holders = {}
  BY DEF Init, Holders, HasPermit, HasSlot
<1> QED BY <1>1, <1>2, FS_EmptySet DEF Init, PermitInv, PermitConservation

(* A step of a task between two of its places that hold the permit. *)
LEMMA HoldersKept ==
    ASSUME TypeOK, NEW j \in Jobs, NEW from \in HasPermit, NEW to \in HasPermit,
           Step(j, from, to)
    PROVE  /\ Holders' = Holders
           /\ pc' \in [Jobs -> AtGitLab \cup HasPermit \cup {"done"}]
BY DEF TypeOK, Step, Holders

(* The image of a finite set is no larger than the set. *)
LEMMA ImageCardinality ==
    ASSUME NEW S, IsFiniteSet(S), NEW f, DOMAIN f = S
    PROVE  /\ IsFiniteSet({f[x] : x \in S})
           /\ Cardinality({f[x] : x \in S}) <= Cardinality(S)
<1> DEFINE T == {f[x] : x \in S}
           g == [x \in S |-> f[x]]
<1>1. g \in Surjection(S, T)
  BY DEF Surjection
<1> QED BY <1>1, FS_Surjection

(* A task about to take its slot finds ids that no other task has, below    *)
(* `concurrent`: it holds a permit itself, so fewer than `concurrent` tasks *)
(* have a slot.                                                             *)
LEMMA FreshIds ==
    ASSUME TypeOK, PermitInv, SlotInv, NEW j \in Jobs, pc[j] = "spawned"
    PROVE  /\ LowestFree(runnerIds) \in 0..(Concurrent - 1)
           /\ LowestFree(runnerIds) \notin runnerIds
           /\ LowestFree(projectIds[ProjectOf[j]]) \in 0..(Concurrent - 1)
           /\ LowestFree(projectIds[ProjectOf[j]]) \notin projectIds[ProjectOf[j]]
<1> DEFINE P == {i \in SlotOwners : ProjectOf[i] = ProjectOf[j]}
<1> USE DaemonAssumption
<1>1. SlotOwners \subseteq Holders \ {j} /\ j \in Holders
  BY DEF SlotOwners, Holders, HasPermit, HasSlot
<1>2. /\ Cardinality(Holders) \in Nat
      /\ Cardinality(Holders) <= Concurrent
  BY FS_CardinalityType DEF PermitInv, PermitConservation, TypeOK
<1>3. IsFiniteSet(Holders \ {j}) /\ Cardinality(Holders \ {j}) = Cardinality(Holders) - 1
  BY <1>1, FS_RemoveElement DEF PermitInv
<1>4. /\ IsFiniteSet(SlotOwners) /\ Cardinality(SlotOwners) \in Nat
      /\ Cardinality(SlotOwners) <= Concurrent - 1
  BY <1>1, <1>2, <1>3, FS_Subset, FS_CardinalityType
<1>5. /\ IsFiniteSet(P) /\ Cardinality(P) \in Nat
      /\ Cardinality(P) <= Concurrent - 1
  BY <1>4, FS_Subset, FS_CardinalityType
<1>6. IsFiniteSet(runnerIds) /\ Cardinality(runnerIds) <= Concurrent - 1
  <2> DEFINE f == [i \in SlotOwners |-> slot[i].runner]
  <2>1. runnerIds = {f[i] : i \in SlotOwners}
    BY DEF SlotInv, IdsExact
  <2>2. IsFiniteSet(runnerIds) /\ Cardinality(runnerIds) <= Cardinality(SlotOwners)
    BY <2>1, <1>4, ImageCardinality
  <2> QED BY <2>2, <1>4, FS_CardinalityType
<1>7. /\ IsFiniteSet(projectIds[ProjectOf[j]])
      /\ Cardinality(projectIds[ProjectOf[j]]) <= Concurrent - 1
  <2> DEFINE f == [i \in P |-> slot[i].project]
  <2>1. projectIds[ProjectOf[j]] = {f[i] : i \in P}
    BY DEF SlotInv, IdsExact
  <2>a. DOMAIN f = P
    OBVIOUS
  <2> HIDE DEF P, f
  <2>2. /\ IsFiniteSet(projectIds[ProjectOf[j]])
        /\ Cardinality(projectIds[ProjectOf[j]]) <= Cardinality(P)
    BY <2>1, <2>a, <1>5, ImageCardinality
  <2> QED BY <2>2, <1>5, FS_CardinalityType
<1>8. runnerIds \in SUBSET Nat /\ projectIds[ProjectOf[j]] \in SUBSET Nat
  BY DEF TypeOK
<1> QED BY <1>6, <1>7, <1>8, LowestFreeId, FS_CardinalityType

(* Every step keeps the types and the permits. *)
LEMMA NextPermits ==
    ASSUME TypeOK, PermitInv, SlotInv, [Next]_vars
    PROVE  TypeOK' /\ PermitInv'
<1> USE DaemonAssumption
<1> DEFINE Places == AtGitLab \cup HasPermit \cup {"done"}
<1>0. Cardinality(Holders) \in Nat
  BY FS_CardinalityType DEF PermitInv
<1>1. CASE LoopStep
  <2> USE <1>0 DEF slotVars, diskVars, evictVars
  <2>1. CASE AcquirePermit
    BY <2>1 DEF AcquirePermit, Holders, TypeOK, PermitInv, PermitConservation
  <2>2. CASE WaitBreak
    BY <2>2 DEF WaitBreak, Holders, TypeOK, PermitInv, PermitConservation
  <2>3. ASSUME NEW j \in Jobs, ReceiveJob(j) PROVE TypeOK' /\ PermitInv'
    <3>1. Holders' = Holders \cup {j} /\ j \notin Holders
      BY <2>3 DEF ReceiveJob, Holders, HasPermit, HasSlot, TypeOK
    <3>2. IsFiniteSet(Holders') /\ Cardinality(Holders') = Cardinality(Holders) + 1
      BY <3>1, FS_AddElement DEF PermitInv
    <3>3. pc' \in [Jobs -> Places]
      BY <2>3 DEF ReceiveJob, HasPermit, TypeOK
    <3>4. TypeOK'
      BY <2>3, <3>3 DEF ReceiveJob, TypeOK
    <3>5. PermitInv'
      BY <2>3, <3>2 DEF ReceiveJob, PermitInv, PermitConservation, TypeOK
    <3> QED BY <3>4, <3>5
  <2>4. ASSUME NEW j \in Jobs, LoseJob(j) PROVE TypeOK' /\ PermitInv'
    <3>1. Holders' = Holders
      BY <2>4 DEF LoseJob, Holders, HasPermit, HasSlot, TypeOK
    <3>2. pc' \in [Jobs -> Places]
      BY <2>4 DEF LoseJob, AtGitLab, TypeOK
    <3>3. PermitInv'
      BY <2>4, <3>1 DEF LoseJob, PermitInv, PermitConservation, TypeOK
    <3>4. permits' \in 0..Concurrent
      BY <2>4 DEF LoseJob, PermitInv, PermitConservation, TypeOK
    <3>5. TypeOK'
      BY <2>4, <3>2, <3>4 DEF LoseJob, TypeOK
    <3> QED BY <3>3, <3>5
  <2>5. CASE ReceiveNothing
    BY <2>5 DEF ReceiveNothing, Holders, TypeOK, PermitInv, PermitConservation
  <2>6. CASE IdleElapsed
    BY <2>6 DEF IdleElapsed, Holders, TypeOK, PermitInv, PermitConservation
  <2>7. CASE IdleBreak
    BY <2>7 DEF IdleBreak, Holders, TypeOK, PermitInv, PermitConservation
  <2>8. CASE Stop
    BY <2>8 DEF Stop, Holders, TypeOK, PermitInv, PermitConservation
  <2> QED BY <1>1, <2>1, <2>2, <2>3, <2>4, <2>5, <2>6, <2>7, <2>8 DEF LoopStep
<1>2. ASSUME NEW j \in Jobs, TaskStep(j) PROVE TypeOK' /\ PermitInv'
  <2> USE DEF loopVars, slotVars, diskVars, evictVars
  <2>0. /\ {"spawned", "slotted", "registered", "made", "running", "ran",
            "cleaned", "reporting", "released"} = HasPermit
      BY DEF HasPermit, HasSlot
  <2>a. ASSUME Holders' = Holders, UNCHANGED loopVars PROVE PermitInv'
    BY <2>a DEF PermitInv, PermitConservation
  <2>1. CASE AcquireSlot(j)
    <3>1. Holders' = Holders /\ pc' \in [Jobs -> Places]
      BY <2>1, <2>0, HoldersKept DEF AcquireSlot
    <3>2. LowestFree(runnerIds) \in Nat /\ LowestFree(projectIds[ProjectOf[j]]) \in Nat
      BY <2>1, FreshIds DEF AcquireSlot, Step
    <3>3. slot' \in [Jobs -> [runner : Nat, project : Nat]]
      BY <2>1, <3>2 DEF AcquireSlot, TypeOK
    <3>4. runnerIds' \in SUBSET Nat /\ projectIds' \in [Projects -> SUBSET Nat]
      BY <2>1, <3>2 DEF AcquireSlot, TypeOK
    <3>5. TypeOK'
      BY <2>1, <3>1, <3>3, <3>4 DEF AcquireSlot, TypeOK
    <3> QED BY <2>1, <2>a, <3>1, <3>5 DEF AcquireSlot
  <2>2. CASE Register(j)
    <3>1. Holders' = Holders /\ pc' \in [Jobs -> Places]
      BY <2>2, <2>0, HoldersKept DEF Register
    <3>2. TypeOK'
      BY <2>2, <3>1 DEF Register, SpawnEviction, TypeOK
    <3> QED BY <2>2, <2>a, <3>1, <3>2 DEF Register
  <2>3. CASE MakeWorkspace(j)
    <3>1. Holders' = Holders /\ pc' \in [Jobs -> Places]
      BY <2>3, <2>0, HoldersKept DEF MakeWorkspace
    <3>2. TypeOK'
      BY <2>3, <3>1 DEF MakeWorkspace, TypeOK
    <3> QED BY <2>3, <2>a, <3>1, <3>2 DEF MakeWorkspace
  <2>4. CASE MarkUsed(j)
    <3>1. Holders' = Holders /\ pc' \in [Jobs -> Places]
      BY <2>4, <2>0, HoldersKept DEF MarkUsed
    <3>2. TypeOK'
      BY <2>4, <3>1 DEF MarkUsed, TypeOK
    <3> QED BY <2>4, <2>a, <3>1, <3>2 DEF MarkUsed
  <2>5. CASE PrepareFails(j)
    <3>1. Holders' = Holders /\ pc' \in [Jobs -> Places]
      BY <2>5, <2>0, HoldersKept DEF PrepareFails
    <3>2. TypeOK'
      BY <2>5, <3>1 DEF PrepareFails, TypeOK
    <3> QED BY <2>5, <2>a, <3>1, <3>2 DEF PrepareFails
  <2>6. CASE Finish(j)
    <3>1. Holders' = Holders /\ pc' \in [Jobs -> Places]
      BY <2>6, <2>0, HoldersKept DEF Finish
    <3>2. TypeOK'
      BY <2>6, <3>1 DEF Finish, TypeOK
    <3> QED BY <2>6, <2>a, <3>1, <3>2 DEF Finish
  <2>7. CASE Cleanup(j)
    <3>1. Holders' = Holders /\ pc' \in [Jobs -> Places]
      BY <2>7, <2>0, HoldersKept DEF Cleanup
    <3>2. TypeOK'
      BY <2>7, <3>1 DEF Cleanup, Delete, TypeOK
    <3> QED BY <2>7, <2>a, <3>1, <3>2 DEF Cleanup
  <2>8. CASE Leave(j)
    <3>1. Holders' = Holders /\ pc' \in [Jobs -> Places]
      BY <2>8, <2>0, HoldersKept DEF Leave
    <3>2. TypeOK'
      BY <2>8, <3>1 DEF Leave, TypeOK
    <3> QED BY <2>8, <2>a, <3>1, <3>2 DEF Leave
  <2>9. CASE ReleaseSlot(j)
    <3>1. Holders' = Holders /\ pc' \in [Jobs -> Places]
      BY <2>9, <2>0, HoldersKept DEF ReleaseSlot
    <3>2. /\ slot' \in [Jobs -> [runner : Nat, project : Nat]]
          /\ runnerIds' \in SUBSET Nat
          /\ projectIds' \in [Projects -> SUBSET Nat]
      BY <2>9 DEF ReleaseSlot, TypeOK, NoSlot
    <3>3. TypeOK'
      BY <2>9, <3>1, <3>2 DEF ReleaseSlot, TypeOK
    <3> QED BY <2>9, <2>a, <3>1, <3>3 DEF ReleaseSlot
  <2>10. CASE EndTask(j)
    <3>1. Holders' = Holders \ {j} /\ j \in Holders
      BY <2>10 DEF EndTask, Step, Holders, HasPermit, HasSlot, TypeOK
    <3>2. IsFiniteSet(Holders') /\ Cardinality(Holders') = Cardinality(Holders) - 1
      BY <3>1, FS_RemoveElement DEF PermitInv
    <3>3. pc' \in [Jobs -> Places]
      BY <2>10 DEF EndTask, Step, TypeOK
    <3>4. Cardinality(Holders') \in Nat
      BY <3>2, FS_CardinalityType
    <3>5. PermitInv' /\ permits' \in 0..Concurrent
      BY <2>10, <1>0, <3>2, <3>4 DEF EndTask, PermitInv, PermitConservation, TypeOK
    <3>6. TypeOK'
      BY <2>10, <3>3, <3>5 DEF EndTask, TypeOK
    <3> QED BY <3>5, <3>6
  <2> QED BY <1>2, <2>1, <2>2, <2>3, <2>4, <2>5, <2>6, <2>7, <2>8, <2>9, <2>10
          DEF TaskStep
<1>3. ASSUME NEW e \in Evictors, EvictorStep(e) PROVE TypeOK' /\ PermitInv'
  <2>1. UNCHANGED <<loopVars, pc>> /\ Holders' = Holders
    BY <1>3 DEF EvictorStep, CopyInUse, Judge, Evict, EndEviction, Holders
  <2>2. PermitInv'
    BY <2>1 DEF PermitInv, PermitConservation, loopVars
  <2> USE DEF loopVars, slotVars, diskVars, TypeOK
  <2>3. CASE CopyInUse(e)
    <3>1. Registered \in SUBSET Jobs
      BY DEF Registered
    <3> QED BY <2>2, <2>3, <3>1 DEF CopyInUse
  <2>4. ASSUME NEW w \in todo[e], Judge(e, w) PROVE TypeOK'
    BY <2>4 DEF Judge
  <2>5. CASE Evict(e)
    BY <2>2, <2>5 DEF Evict, Delete
  <2>6. CASE EndEviction(e)
    BY <2>2, <2>6 DEF EndEviction
  <2> QED BY <1>3, <2>2, <2>3, <2>4, <2>5, <2>6 DEF EvictorStep
<1>4. ASSUME NEW mode \in {"Graceful", "Abort"}, RequestShutdown(mode)
      PROVE  TypeOK' /\ PermitInv'
  BY <1>4 DEF RequestShutdown, slotVars, diskVars, evictVars, Rank, TypeOK,
              PermitInv, PermitConservation, Holders
<1>5. CASE IntervalPasses
  BY <1>5 DEF IntervalPasses, loopVars, slotVars, diskVars, evictVars, TypeOK,
              PermitInv, PermitConservation, Holders
<1>6. ASSUME NEW w \in present, Age(w) PROVE TypeOK' /\ PermitInv'
  BY <1>6 DEF Age, loopVars, slotVars, diskVars, evictVars, TypeOK,
              PermitInv, PermitConservation, Holders
<1>7. CASE UNCHANGED vars
  BY <1>7 DEF vars, loopVars, slotVars, diskVars, evictVars, TypeOK,
              PermitInv, PermitConservation, Holders
<1> QED BY <1>1, <1>2, <1>3, <1>4, <1>5, <1>6, <1>7 DEF Next, Stopped

-----------------------------------------------------------------------------
(* Slot ids *)

(* Initially no task has a slot. *)
LEMMA InitSlots == Init => SlotInv
<1> SUFFICES ASSUME Init PROVE SlotInv
  OBVIOUS
<1>1. SlotOwners = {}
  BY DEF Init, SlotOwners, HasSlot
<1> QED BY <1>1 DEF Init, SlotInv, IdsExact, DistinctIds, IdsBelowConcurrent

(* A step after which the same tasks have the same ids. *)
LEMMA SlotsKept ==
    ASSUME SlotInv, UNCHANGED slotVars, SlotOwners' = SlotOwners
    PROVE  SlotInv'
BY DEF SlotInv, IdsExact, DistinctIds, IdsBelowConcurrent, slotVars

(* A step of a task that neither takes nor gives back a slot. *)
LEMMA SlotOwnersKept ==
    ASSUME TypeOK, NEW j \in Jobs, NEW from, NEW to,
           from \in HasSlot <=> to \in HasSlot,
           pc[j] = from, pc' = [pc EXCEPT ![j] = to]
    PROVE  SlotOwners' = SlotOwners
BY DEF TypeOK, SlotOwners

(* Every step keeps the ids of the slots distinct and recorded. *)
LEMMA NextSlots ==
    ASSUME TypeOK, PermitInv, SlotInv, [Next]_vars
    PROVE  SlotInv'
<1> USE DaemonAssumption
<1>1. CASE LoopStep
  <2>1. UNCHANGED slotVars
    BY <1>1 DEF LoopStep, AcquirePermit, WaitBreak, ReceiveJob, LoseJob,
                ReceiveNothing, IdleElapsed, IdleBreak, Stop
  <2>2. ASSUME NEW j \in Jobs, ReceiveJob(j) \/ LoseJob(j)
        PROVE  SlotOwners' = SlotOwners
    BY <2>2, SlotOwnersKept DEF ReceiveJob, LoseJob, HasSlot
  <2>3. CASE UNCHANGED pc
    BY <2>1, <2>3, SlotsKept DEF SlotOwners
  <2> QED BY <1>1, <2>1, <2>2, <2>3, SlotsKept
          DEF LoopStep, AcquirePermit, WaitBreak, ReceiveNothing, IdleElapsed,
              IdleBreak, Stop
<1>2. ASSUME NEW j \in Jobs, TaskStep(j) PROVE SlotInv'
  <2>1. CASE AcquireSlot(j)
    <3> DEFINE p == ProjectOf[j]
               id == LowestFree(runnerIds)
               pid == LowestFree(projectIds[p])
    <3>1. /\ id \in 0..(Concurrent - 1) /\ id \notin runnerIds
          /\ pid \in 0..(Concurrent - 1) /\ pid \notin projectIds[p]
      BY <2>1, FreshIds DEF AcquireSlot, Step
    <3>2. /\ slot' = [slot EXCEPT ![j] = [runner |-> id, project |-> pid]]
          /\ runnerIds' = runnerIds \cup {id}
          /\ projectIds' = [projectIds EXCEPT ![p] = @ \cup {pid}]
      BY <2>1 DEF AcquireSlot
    <3> HIDE DEF id, pid
    <3>3. SlotOwners' = SlotOwners \cup {j} /\ j \notin SlotOwners
      BY <2>1 DEF AcquireSlot, Step, SlotOwners, HasSlot, TypeOK
    <3>4. /\ slot'[j].runner = id /\ slot'[j].project = pid
          /\ \A i \in SlotOwners : slot'[i] = slot[i]
          /\ SlotOwners \subseteq Jobs
      BY <3>2, <3>3 DEF TypeOK, SlotOwners
    <3>5. \A i \in SlotOwners : slot[i].runner \in runnerIds
      BY DEF SlotInv, IdsExact
    <3>6. \A i \in SlotOwners : ProjectOf[i] = p => slot[i].project \in projectIds[p]
      BY DEF SlotInv, IdsExact
    <3>7. runnerIds' = {slot'[i].runner : i \in SlotOwners'}
      BY <3>2, <3>3, <3>4 DEF SlotInv, IdsExact
    <3>8. ASSUME NEW q \in Projects
          PROVE  projectIds'[q] = {slot'[k].project : k \in {i \in SlotOwners' : ProjectOf[i] = q}}
      <4>1. CASE q = p
        BY <4>1, <3>2, <3>3, <3>4 DEF SlotInv, IdsExact, TypeOK
      <4>2. CASE q # p
        BY <4>2, <3>2, <3>3, <3>4 DEF SlotInv, IdsExact, TypeOK
      <4> QED BY <4>1, <4>2
    <3>9. DistinctIds'
      BY <3>1, <3>3, <3>4, <3>5, <3>6 DEF SlotInv, DistinctIds
    <3>10. IdsBelowConcurrent'
      BY <3>1, <3>3, <3>4 DEF SlotInv, IdsBelowConcurrent
    <3> QED BY <3>7, <3>8, <3>9, <3>10 DEF SlotInv, IdsExact
  <2>2. CASE ReleaseSlot(j)
    <3>1. SlotOwners' = SlotOwners \ {j} /\ j \in SlotOwners
      BY <2>2 DEF ReleaseSlot, Step, SlotOwners, HasSlot, TypeOK
    <3>2. /\ \A i \in SlotOwners \ {j} : slot'[i] = slot[i]
          /\ runnerIds' = runnerIds \ {slot[j].runner}
          /\ projectIds' = [projectIds EXCEPT ![ProjectOf[j]] = @ \ {slot[j].project}]
      BY <2>2 DEF ReleaseSlot, TypeOK, SlotOwners
    <3>3. runnerIds' = {slot'[i].runner : i \in SlotOwners'}
      BY <3>1, <3>2 DEF SlotInv, IdsExact, DistinctIds
    <3>4. ASSUME NEW q \in Projects
          PROVE  projectIds'[q] = {slot'[k].project : k \in {i \in SlotOwners' : ProjectOf[i] = q}}
      <4>1. CASE q = ProjectOf[j]
        <5>1. projectIds'[q] = projectIds[q] \ {slot[j].project}
          BY <4>1, <3>2 DEF TypeOK
        <5>2. projectIds[q] = {slot[k].project : k \in {i \in SlotOwners : ProjectOf[i] = q}}
          BY DEF SlotInv, IdsExact
        <5>3. \A k \in SlotOwners \ {j} : ProjectOf[k] = q => slot[k].project # slot[j].project
          BY <4>1, <3>1 DEF SlotInv, DistinctIds
        <5> QED BY <4>1, <5>1, <5>2, <5>3, <3>1, <3>2
      <4>2. CASE q # ProjectOf[j]
        BY <4>2, <3>1, <3>2 DEF SlotInv, IdsExact, TypeOK
      <4> QED BY <4>1, <4>2
    <3>5. DistinctIds' /\ IdsBelowConcurrent'
      BY <3>1, <3>2 DEF SlotInv, DistinctIds, IdsBelowConcurrent
    <3> QED BY <3>3, <3>4, <3>5 DEF SlotInv, IdsExact
  <2>3. CASE /\ UNCHANGED slotVars
             /\ \E from, to : /\ from \in HasSlot <=> to \in HasSlot
                              /\ Step(j, from, to)
    BY <2>3, SlotsKept, SlotOwnersKept DEF Step
  <2>4. CASE EndTask(j)
    <3>1. "released" \notin HasSlot /\ "done" \notin HasSlot
      BY DEF HasSlot
    <3> QED BY <2>3, <2>4, <3>1 DEF EndTask
  <2>5. {"slotted", "registered", "made", "running", "ran", "cleaned", "reporting"} = HasSlot
    BY DEF HasSlot
  <2> QED BY <1>2, <2>1, <2>2, <2>3, <2>4, <2>5
          DEF TaskStep, Register, MakeWorkspace, MarkUsed, PrepareFails, Finish,
              Cleanup, Leave
<1>3. CASE UNCHANGED <<pc, slotVars>>
  BY <1>3, SlotsKept DEF SlotOwners
<1> QED BY <1>1, <1>2, <1>3
        DEF Next, EvictorStep, CopyInUse, Judge, Evict, EndEviction, RequestShutdown,
            IntervalPasses, Age, Stopped, vars

-----------------------------------------------------------------------------
(* Workspaces *)

(* Initially no workspace is registered. *)
LEMMA InitWorkspaces == Init => WorkspaceExclusive
<1> SUFFICES ASSUME Init PROVE WorkspaceExclusive
  OBVIOUS
<1>1. Registered = {}
  BY DEF Init, Registered, Registers
<1> QED BY <1>1 DEF Init, WorkspaceExclusive

(* Two jobs that have a slot have workspaces of different names. *)
LEMMA DistinctWorkspaces ==
    ASSUME DistinctIds, NEW i \in SlotOwners, NEW j \in SlotOwners, i # j
    PROVE  Workspace(i) # Workspace(j)
<1>1. CASE ProtectionOf[i] = "unknown" /\ ProtectionOf[j] = "unknown"
  BY <1>1 DEF Workspace
<1>2. CASE ProtectionOf[i] = "unknown" /\ ProtectionOf[j] # "unknown"
  BY <1>2 DEF Workspace
<1>3. CASE ProtectionOf[i] # "unknown" /\ ProtectionOf[j] = "unknown"
  BY <1>3 DEF Workspace
<1>4. CASE ProtectionOf[i] # "unknown" /\ ProtectionOf[j] # "unknown"
  BY <1>4 DEF Workspace, DistinctIds
<1> QED BY <1>1, <1>2, <1>3, <1>4

(* A step that leaves the registered jobs, their ids and the set alone. *)
LEMMA WorkspacesKept ==
    ASSUME WorkspaceExclusive, Registered' = Registered, inUse' = inUse,
           \A j \in Registered : slot'[j] = slot[j]
    PROVE  WorkspaceExclusive'
<1>1. \A j \in Registered : Workspace(j)' = Workspace(j)
  BY DEF Workspace
<1> QED BY <1>1 DEF WorkspaceExclusive

(* Every step keeps workspaces apart and workspaces_in_use exact. *)
LEMMA NextWorkspaces ==
    ASSUME TypeOK, SlotInv, WorkspaceExclusive, [Next]_vars
    PROVE  WorkspaceExclusive'
<1>0. Registered \subseteq SlotOwners /\ Registered \subseteq Jobs
  BY DEF Registered, Registers, SlotOwners, HasSlot
<1>1. CASE LoopStep
  <2>1. UNCHANGED <<slotVars, inUse>>
    BY <1>1 DEF LoopStep, AcquirePermit, WaitBreak, ReceiveJob, LoseJob,
                ReceiveNothing, IdleElapsed, IdleBreak, Stop
  <2>2. ASSUME NEW j \in Jobs, ReceiveJob(j) \/ LoseJob(j)
        PROVE  Registered' = Registered
    BY <2>2 DEF ReceiveJob, LoseJob, Registered, Registers, TypeOK
  <2>3. CASE UNCHANGED pc
    BY <2>1, <2>3, WorkspacesKept DEF Registered, slotVars
  <2> QED BY <1>1, <2>1, <2>2, <2>3, WorkspacesKept
          DEF LoopStep, AcquirePermit, WaitBreak, ReceiveNothing, IdleElapsed,
              IdleBreak, Stop, slotVars
<1>2. ASSUME NEW j \in Jobs, TaskStep(j) PROVE WorkspaceExclusive'
  <2>1. CASE Register(j)
    <3>1. Registered' = Registered \cup {j} /\ j \notin Registered /\ j \in SlotOwners
      BY <2>1 DEF Register, Step, Registered, Registers, SlotOwners, HasSlot, TypeOK
    <3>2. \A i \in Jobs : Workspace(i)' = Workspace(i)
      BY <2>1 DEF Register, Workspace, slotVars
    <3>3. \A i \in Registered : Workspace(i) # Workspace(j)
      BY <1>0, <3>1, DistinctWorkspaces DEF SlotInv
    <3> QED BY <1>0, <2>1, <3>1, <3>2, <3>3 DEF Register, WorkspaceExclusive
  <2>2. CASE Leave(j)
    <3>1. Registered' = Registered \ {j} /\ j \in Registered
      BY <2>2 DEF Leave, Step, Registered, Registers, TypeOK
    <3>2. \A i \in Jobs : Workspace(i)' = Workspace(i)
      BY <2>2 DEF Leave, Workspace, slotVars
    <3> QED BY <1>0, <2>2, <3>1, <3>2 DEF Leave, WorkspaceExclusive
  <2>3. CASE AcquireSlot(j) \/ ReleaseSlot(j)
    <3>1. Registered' = Registered /\ j \notin Registered
      BY <2>3 DEF AcquireSlot, ReleaseSlot, Step, Registered, Registers, TypeOK
    <3>2. inUse' = inUse /\ \A i \in Registered : slot'[i] = slot[i]
      BY <1>0, <2>3, <3>1 DEF AcquireSlot, ReleaseSlot, TypeOK
    <3> QED BY <3>1, <3>2, WorkspacesKept
  <2>4. CASE MakeWorkspace(j) \/ MarkUsed(j) \/ PrepareFails(j) \/ Finish(j)
             \/ Cleanup(j) \/ EndTask(j)
    <3>1. Registered' = Registered
      BY <2>4 DEF MakeWorkspace, MarkUsed, PrepareFails, Finish, Cleanup, EndTask,
                  Step, Registered, Registers, TypeOK
    <3>2. inUse' = inUse /\ slot' = slot
      BY <2>4 DEF MakeWorkspace, MarkUsed, PrepareFails, Finish, Cleanup, EndTask,
                  slotVars
    <3> QED BY <3>1, <3>2, WorkspacesKept
  <2> QED BY <1>2, <2>1, <2>2, <2>3, <2>4 DEF TaskStep
<1>3. CASE UNCHANGED <<pc, slotVars, inUse>>
  BY <1>3, WorkspacesKept DEF Registered, slotVars
<1> QED BY <1>1, <1>2, <1>3
        DEF Next, EvictorStep, CopyInUse, Judge, Evict, EndEviction, RequestShutdown,
            IntervalPasses, Age, Stopped, vars

-----------------------------------------------------------------------------
(* Evictions *)

(* Initially no eviction runs and no job has left a file. *)
LEMMA InitEvictions == Init => EvictionInv /\ LeftByInv
BY DEF Init, EvictionInv, LeftByInv

(* A step that leaves the eviction tasks alone: jobs only move on, and a    *)
(* job that is registered keeps the name of its workspace.                  *)
LEMMA EvictionsKept ==
    ASSUME TypeOK, EvictionInv, UNCHANGED evictVars,
           NEW j \in Jobs, NEW to,
           pc' = [pc EXCEPT ![j] = to],
           pc[j] \in Registers \cup {"reporting", "released", "done"} =>
               to \in Registers \cup {"reporting", "released", "done"},
           to \in Registers => pc[j] \in Registers \/ pc[j] = "slotted",
           \A i \in Registered' : slot'[i] = slot[i]
    PROVE  EvictionInv'
<1>0. "slotted" \notin Registers \cup {"reporting", "released", "done"}
  BY DEF Registers
<1> SUFFICES ASSUME NEW e \in Evictors, NEW i \in before[e]
    PROVE  /\ pc'[i] \in Registers \cup {"reporting", "released", "done"}
           /\ i \in Registered' => Workspace(i)' \in seen[e] /\ victim[e] # Workspace(i)'
  BY DEF EvictionInv, evictVars
<1>1. i \in Jobs /\ pc[i] \in Registers \cup {"reporting", "released", "done"}
  BY DEF EvictionInv, TypeOK
<1>2. pc'[i] \in Registers \cup {"reporting", "released", "done"}
  BY <1>1 DEF TypeOK
<1>3. i \in Registered' => i \in Registered
  BY <1>0, <1>1 DEF Registered, TypeOK
<1>4. i \in Registered' => Workspace(i)' = Workspace(i)
  BY DEF Workspace
<1> QED BY <1>2, <1>3, <1>4 DEF EvictionInv

(* Every step keeps what the evictions know of the registered jobs. *)
LEMMA NextEvictions ==
    ASSUME TypeOK, WorkspaceExclusive, EvictionInv, [Next]_vars
    PROVE  EvictionInv'
<1>1. CASE LoopStep
  <2>1. CASE UNCHANGED pc
    BY <1>1, <2>1 DEF LoopStep, AcquirePermit, WaitBreak, ReceiveJob, LoseJob,
           ReceiveNothing, IdleElapsed, IdleBreak, Stop, EvictionInv, Registered,
           Workspace, slotVars, evictVars
  <2>2. ASSUME NEW j \in Jobs, ReceiveJob(j) \/ LoseJob(j) PROVE EvictionInv'
    <3>1. PICK to \in {"spawned", "lost", "rejected"} : pc' = [pc EXCEPT ![j] = to]
      BY <2>2 DEF ReceiveJob, LoseJob
    <3>2. pc[j] = "pending" /\ UNCHANGED <<evictVars, slot>>
      BY <2>2 DEF ReceiveJob, LoseJob, slotVars
    <3> QED BY <3>1, <3>2, EvictionsKept DEF Registers
  <2> QED BY <1>1, <2>1, <2>2 DEF LoopStep, AcquirePermit, WaitBreak,
          ReceiveNothing, IdleElapsed, IdleBreak, Stop
<1>2. ASSUME NEW j \in Jobs, TaskStep(j) PROVE EvictionInv'
  <2>1. CASE AcquireSlot(j) \/ ReleaseSlot(j)
    <3>1. PICK to \in {"slotted", "released"} : pc' = [pc EXCEPT ![j] = to]
      BY <2>1 DEF AcquireSlot, ReleaseSlot, Step
    <3>a. pc'[j] = to
      BY <3>1 DEF TypeOK
    <3>2. /\ \/ pc[j] = "spawned" /\ to = "slotted"
             \/ pc[j] = "reporting" /\ to = "released"
          /\ UNCHANGED evictVars
      BY <2>1, <3>a DEF AcquireSlot, ReleaseSlot, Step, TypeOK
    <3>3. \A i \in Jobs : i # j => slot'[i] = slot[i]
      BY <2>1 DEF AcquireSlot, ReleaseSlot, TypeOK
    <3>4. j \notin Registered' /\ Registered' \subseteq Jobs
      BY <3>1 DEF Registered, Registers, TypeOK
    <3> QED BY <3>1, <3>2, <3>3, <3>4, EvictionsKept DEF Registers
  <2>2. CASE Register(j)
    <3>1. \A e \in Evictors : before'[e] = before[e] /\ seen'[e] = seen[e] /\ victim'[e] = victim[e]
      BY <2>2 DEF Register, SpawnEviction, evictVars
    <3>a. \A e \in Evictors : epc'[e] # "looking" => epc[e] # "looking"
      BY <2>2 DEF Register, SpawnEviction, evictVars, TypeOK
    <3>2. \A e \in Evictors : j \notin before[e] /\ before[e] \subseteq Jobs
      BY <2>2 DEF Register, Step, EvictionInv, Registers, TypeOK
    <3>3. \A i \in Jobs : i # j => pc'[i] = pc[i] /\ Workspace(i)' = Workspace(i)
      BY <2>2 DEF Register, Step, Workspace, slotVars, TypeOK
    <3>4. \A i \in Jobs : i # j => (i \in Registered' <=> i \in Registered)
      BY <3>3 DEF Registered
    <3> QED BY <3>1, <3>a, <3>2, <3>3, <3>4 DEF EvictionInv
  <2>3. CASE MakeWorkspace(j) \/ MarkUsed(j) \/ PrepareFails(j) \/ Finish(j)
             \/ Cleanup(j) \/ Leave(j) \/ EndTask(j)
    <3>1. PICK to \in {"made", "running", "ran", "cleaned", "reporting", "done"} :
            pc' = [pc EXCEPT ![j] = to]
      BY <2>3 DEF MakeWorkspace, MarkUsed, PrepareFails, Finish, Cleanup, Leave,
                  EndTask, Step
    <3>2. UNCHANGED <<evictVars, slot>>
      BY <2>3 DEF MakeWorkspace, MarkUsed, PrepareFails, Finish, Cleanup, Leave,
                  EndTask, slotVars
    <3>3. to \in Registers => pc[j] \in Registers
      BY <2>3, <3>1 DEF MakeWorkspace, MarkUsed, PrepareFails, Finish, Cleanup, Leave,
                  EndTask, Step, Registers, TypeOK
    <3> QED BY <3>1, <3>2, <3>3, EvictionsKept DEF Registers
  <2> QED BY <1>2, <2>1, <2>2, <2>3 DEF TaskStep
<1>3. ASSUME NEW e \in Evictors, EvictorStep(e) PROVE EvictionInv'
  <2>0. UNCHANGED <<pc, slot>> /\ Registered' = Registered
    BY <1>3 DEF EvictorStep, CopyInUse, Judge, Evict, EndEviction, slotVars, Registered
  <2>1. \A j \in Jobs : Workspace(j)' = Workspace(j) /\ Workspace(j) # None
    BY <2>0 DEF Workspace, None
  <2>2. CASE CopyInUse(e)
    <3>1. ASSUME NEW d \in Evictors, d # e
          PROVE  before'[d] = before[d] /\ seen'[d] = seen[d] /\ victim'[d] = victim[d]
      BY <2>2, <3>1 DEF CopyInUse, TypeOK
    <3>2. seen'[e] = inUse /\ before'[e] = Registered /\ victim'[e] = victim[e]
      BY <2>2 DEF CopyInUse, TypeOK
    <3>3. \A j \in Registered : /\ Workspace(j) \in inUse
                                /\ pc[j] \in Registers
                                /\ j \in Jobs
      BY DEF WorkspaceExclusive, Registered
    <3>4. victim[e] = None
      BY <2>2 DEF CopyInUse, EvictionInv
    <3>5. \A d \in Evictors : before[d] \subseteq Jobs
      BY DEF TypeOK
    <3>6. \A d \in Evictors : epc'[d] = epc[d] \/ d = e
      BY <2>2 DEF CopyInUse, TypeOK
    <3>7. ASSUME NEW d \in Evictors, NEW j \in before'[d]
          PROVE  /\ pc'[j] \in Registers \cup {"reporting", "released", "done"}
                 /\ j \in Registered' => /\ Workspace(j)' \in seen'[d]
                                        /\ victim'[d] # Workspace(j)'
      <4>1. CASE d = e
        BY <4>1, <2>0, <2>1, <3>2, <3>3, <3>4
      <4>2. CASE d # e
        BY <4>2, <2>0, <2>1, <3>1, <3>5 DEF EvictionInv
      <4> QED BY <4>1, <4>2
    <3>8. \A d \in Evictors : epc'[d] # "looking" => victim'[d] = None
      BY <3>1, <3>2, <3>4, <3>6 DEF EvictionInv
    <3> QED BY <3>7, <3>8 DEF EvictionInv
  <2>3. ASSUME NEW w \in todo[e], Judge(e, w) PROVE EvictionInv'
    <3>1. UNCHANGED <<before, seen>>
      BY <2>3 DEF Judge
    <3>2. \A d \in Evictors : \/ victim'[d] = victim[d]
                              \/ victim'[d] = w /\ d = e /\ w \notin seen[e]
      BY <2>3 DEF Judge, TypeOK
    <3>a. epc' = epc /\ epc[e] = "looking"
      BY <2>3 DEF Judge
    <3>3. \A d \in Evictors : before[d] \subseteq Jobs
      BY DEF TypeOK
    <3> QED BY <2>0, <2>1, <3>1, <3>2, <3>a, <3>3 DEF EvictionInv
  <2>4. CASE Evict(e)
    <3>1. /\ UNCHANGED <<before, seen, epc>>
          /\ \A d \in Evictors : victim'[d] = victim[d] \/ victim'[d] = None
      BY <2>4 DEF Evict, TypeOK
    <3>2. \A d \in Evictors : before[d] \subseteq Jobs
      BY DEF TypeOK
    <3> QED BY <2>0, <2>1, <3>1, <3>2 DEF EvictionInv
  <2>5. CASE EndEviction(e)
    <3>1. /\ UNCHANGED victim /\ victim[e] = None
          /\ \A d \in Evictors : epc'[d] = epc[d] \/ d = e
          /\ \A d \in Evictors : \/ before'[d] = before[d] /\ seen'[d] = seen[d]
                                \/ before'[d] = {}
      BY <2>5 DEF EndEviction, TypeOK
    <3>2. \A d \in Evictors : before[d] \subseteq Jobs
      BY DEF TypeOK
    <3> QED BY <2>0, <2>1, <3>1, <3>2 DEF EvictionInv
  <2> QED BY <1>3, <2>2, <2>3, <2>4, <2>5 DEF EvictorStep
<1>4. CASE UNCHANGED <<pc, slotVars, evictVars>>
  BY <1>4 DEF EvictionInv, Registered, Workspace, slotVars, evictVars
<1> QED BY <1>1, <1>2, <1>3, <1>4
        DEF Next, RequestShutdown, IntervalPasses, Age, Stopped, vars

(* Every step keeps each file in a workspace its own job may use. *)
LEMMA NextLeftBy ==
    ASSUME TypeOK, LeftByInv, [Next]_vars
    PROVE  LeftByInv'
<1>1. ASSUME NEW j \in Jobs, MakeWorkspace(j) PROVE LeftByInv'
  <2>1. leftBy' = leftBy \cup {<<Workspace(j), j>>} /\ slot[j].project \in Nat
    BY <1>1 DEF MakeWorkspace, TypeOK
  <2>2. <<Workspace(j), j>> =
          << IF ProtectionOf[j] = "unknown"
               THEN <<"job", j>>
               ELSE <<"project", ProjectOf[j], slot[j].project, ProtectionOf[j]>>, j>>
    BY DEF Workspace
  <2>3. \A f \in leftBy' : f \in leftBy \/ f = <<Workspace(j), j>>
    BY <2>1
  <2> QED BY <2>1, <2>2, <2>3 DEF LeftByInv
<1>2. CASE leftBy' \subseteq leftBy
  BY <1>2 DEF LeftByInv
<1>3. ASSUME NEW j \in Jobs, TaskStep(j) PROVE MakeWorkspace(j) \/ leftBy' \subseteq leftBy
  BY <1>3 DEF TaskStep, AcquireSlot, Register, MarkUsed, PrepareFails, Finish, Cleanup,
     Delete, Leave, ReleaseSlot, EndTask, diskVars
<1>4. ASSUME LoopStep PROVE leftBy' \subseteq leftBy
  BY <1>4 DEF LoopStep, AcquirePermit, WaitBreak, ReceiveJob, LoseJob, ReceiveNothing,
     IdleElapsed, IdleBreak, Stop, diskVars
<1>5. ASSUME NEW e \in Evictors, EvictorStep(e) PROVE leftBy' \subseteq leftBy
  BY <1>5 DEF EvictorStep, CopyInUse, Judge, Evict, EndEviction, Delete, diskVars
<1> QED BY <1>1, <1>2, <1>3, <1>4, <1>5
        DEF Next, RequestShutdown, IntervalPasses, Age, Stopped, vars, diskVars

-----------------------------------------------------------------------------
(* Theorems *)

(* The inductive invariant: the permits, the ids, the workspaces and what   *)
(* the evictions know of them, each on top of the one before.               *)
THEOREM Invariant == Spec => []IInv
<1>1. Init => IInv
  BY InitPermits, InitSlots, InitWorkspaces, InitEvictions DEF IInv
<1>2. IInv /\ [Next]_vars => IInv'
  BY NextPermits, NextSlots, NextWorkspaces, NextEvictions, NextLeftBy DEF IInv
<1> QED BY <1>1, <1>2, PTL DEF Spec

(* TypeOK holds of every behaviour of the daemon. *)
THEOREM TypeCorrect == Spec => []TypeOK
<1>1. IInv => TypeOK
  BY DEF IInv
<1> QED BY <1>1, Invariant, PTL

(* The loop and the tasks never lose a permit nor make one up. *)
THEOREM PermitsConserved == Spec => []PermitConservation
<1>1. IInv => PermitConservation
  BY DEF IInv, PermitInv
<1> QED BY <1>1, Invariant, PTL

(* Jobs that hold a slot at the same time have distinct ids ... *)
THEOREM IdsDistinct == Spec => []DistinctIds
<1>1. IInv => DistinctIds
  BY DEF IInv, SlotInv
<1> QED BY <1>1, Invariant, PTL

(* ... all of them below `concurrent`. *)
THEOREM IdsBounded == Spec => []IdsBelowConcurrent
<1>1. IInv => IdsBelowConcurrent
  BY DEF IInv, SlotInv
<1> QED BY <1>1, Invariant, PTL

(* Registered jobs never share a workspace, and workspaces_in_use is exactly *)
(* the set of theirs.                                                        *)
THEOREM WorkspacesExclusive == Spec => []WorkspaceExclusive
<1>1. IInv => WorkspaceExclusive
  BY DEF IInv
<1> QED BY <1>1, Invariant, PTL

(* An eviction never takes the workspace of a job registered before it. *)
THEOREM EvictionsSpareRegistered == Spec => []EvictionSparesRegistered
<1>1. IInv => EvictionSparesRegistered
  BY DEF IInv, EvictionInv, EvictionSparesRegistered
<1> QED BY <1>1, Invariant, PTL

(* A job only ever works among files its own project left at the same       *)
(* protection level.                                                        *)
THEOREM LeftoversAreTrusted == Spec => []LeftoversTrusted
<1>1. ASSUME IInv PROVE LeftoversTrusted
  <2> SUFFICES ASSUME NEW i \in Jobs, NEW j \in Jobs, i \in Registered,
                      <<Workspace(i), j>> \in leftBy
      PROVE  \/ i = j
             \/ /\ ProjectOf[i] = ProjectOf[j]
                /\ ProtectionOf[i] = ProtectionOf[j]
                /\ ProtectionOf[i] # "unknown"
    BY DEF LeftoversTrusted
  <2>1. PICK n \in Nat :
          Workspace(i) = IF ProtectionOf[j] = "unknown"
                           THEN <<"job", j>>
                           ELSE <<"project", ProjectOf[j], n, ProtectionOf[j]>>
    BY <1>1 DEF IInv, LeftByInv
  <2>2. CASE ProtectionOf[i] = "unknown"
    BY <2>1, <2>2 DEF Workspace
  <2>3. CASE ProtectionOf[i] # "unknown"
    <3>1. ProtectionOf[j] # "unknown"
      BY <2>1, <2>3 DEF Workspace
    <3> QED BY <2>1, <2>3, <3>1 DEF Workspace
  <2> QED BY <2>2, <2>3
<1> QED BY <1>1, Invariant, PTL

(* A stopped daemon has no task left, and every permit, id and registration *)
(* is back.                                                                 *)
THEOREM StopsCleanly == Spec => []StopsClean
<1>1. ASSUME IInv PROVE StopsClean
  <2> SUFFICES ASSUME loop = "Stopped" PROVE
        Holders = {} /\ permits = Concurrent /\ runnerIds = {}
          /\ (\A p \in Projects : projectIds[p] = {}) /\ inUse = {}
    BY DEF StopsClean
  <2>1. permits = Concurrent /\ IsFiniteSet(Holders) /\ PermitConservation
    BY <1>1 DEF IInv, PermitInv
  <2>2. Holders = {}
    BY <2>1, DaemonAssumption, FS_CardinalityType, FS_EmptySet DEF PermitConservation
  <2>3. SlotOwners = {} /\ Registered = {}
    BY <2>2 DEF Holders, SlotOwners, Registered, HasPermit, HasSlot, Registers
  <2> QED BY <1>1, <2>1, <2>2, <2>3 DEF IInv, SlotInv, IdsExact, WorkspaceExclusive
<1> QED BY <1>1, Invariant, PTL

(* The initial states of the daemon are initial states of the pool ... *)
LEMMA PoolInit == Init => Pool!Init
BY DEF Init, Pool!Init, PoolState

(* The jobs the pool holds are the ones whose task has a permit. *)
LEMMA HeldIsHolders ==
    ASSUME TypeOK
    PROVE  Pool!Held = Holders
<1>1. ASSUME NEW j \in Jobs
      PROVE  PoolState(pc[j]) = "held" <=> pc[j] \in HasPermit
  <2>1. pc[j] \in AtGitLab \cup HasPermit \cup {"done"}
    BY DEF TypeOK
  <2> QED BY <2>1 DEF PoolState, AtGitLab, HasPermit, HasSlot
<1> QED BY <1>1 DEF Pool!Held, Holders

(* The pool's Cardinality is the one of FiniteSets. *)
LEMMA PoolCardinality == \A S : Pool!Cardinality(S) = Cardinality(S)
BY Zenon DEF Pool!Cardinality, Cardinality

(* ... and each of its steps is a step of the pool or changes nothing there. *)
LEMMA PoolStep ==
    ASSUME IInv, [Next]_vars
    PROVE  [Pool!Next]_<<[j \in Jobs |-> PoolState(pc[j])], loop # "Stopped">>
<1> DEFINE job == [j \in Jobs |-> PoolState(pc[j])]
           open == loop # "Stopped"
<1> USE DaemonAssumption
<1>0. TypeOK /\ PermitInv /\ Pool!Held = Holders
  BY HeldIsHolders DEF IInv
<1>1. ASSUME NEW j \in Jobs, NEW to, pc' = [pc EXCEPT ![j] = to]
      PROVE  job' = [job EXCEPT ![j] = PoolState(to)]
  BY <1>0, <1>1 DEF TypeOK
<1>2. ASSUME NEW j \in Jobs, ReceiveJob(j) \/ LoseJob(j)
      PROVE  Pool!Take(j) \/ Pool!Lose(j)
  <2>1. open /\ UNCHANGED open /\ job[j] = "waiting"
    BY <1>2 DEF ReceiveJob, LoseJob, PoolState
  <2>2. Pool!Cardinality(Pool!Held) < Concurrent
    <3>1. loop = "Request"
      BY <1>2 DEF ReceiveJob, LoseJob
    <3>2. Cardinality(Holders) < Concurrent
      BY <3>1, <1>0, FS_CardinalityType DEF PermitInv, PermitConservation, TypeOK
    <3> QED BY <3>2, <1>0, PoolCardinality
  <2>3. CASE ReceiveJob(j)
    <3>1. PoolState("spawned") = "held"
      BY DEF PoolState
    <3>2. job' = [job EXCEPT ![j] = "held"]
      BY <1>1, <2>3, <3>1 DEF ReceiveJob
    <3> QED BY <2>1, <2>2, <3>2 DEF Pool!Take
  <2>4. CASE LoseJob(j)
    <3>1. job' = [job EXCEPT ![j] = "lost"]
      BY <1>1, <2>4 DEF LoseJob, PoolState
    <3> QED BY <2>1, <2>2, <3>1 DEF Pool!Lose
  <2> QED BY <1>2, <2>3, <2>4
<1>3. CASE Stop
  <2>1. open /\ ~open' /\ job' = job
    BY <1>3 DEF Stop
  <2>2. Pool!Held = {}
    BY <1>0, <1>3, FS_CardinalityType, FS_EmptySet
       DEF Stop, PermitInv, PermitConservation, TypeOK
  <2> QED BY <2>1, <2>2 DEF Pool!Close, Pool!Next
<1>4. ASSUME NEW j \in Jobs, EndTask(j) PROVE Pool!End(j)
  <2>1. job[j] = "held" /\ UNCHANGED open
    BY <1>4 DEF EndTask, Step, PoolState
  <2>2. job' = [job EXCEPT ![j] = "ended"]
    BY <1>1, <1>4 DEF EndTask, Step, PoolState
  <2> QED BY <2>1, <2>2 DEF Pool!End
<1>5. ASSUME NEW j \in Jobs, TaskStep(j), ~EndTask(j) PROVE UNCHANGED <<job, open>>
  <2>1. PICK to \in HasPermit : pc' = [pc EXCEPT ![j] = to]
    BY <1>5 DEF TaskStep, AcquireSlot, Register, MakeWorkspace, MarkUsed, PrepareFails,
       Finish, Cleanup, Leave, ReleaseSlot, Step, HasPermit, HasSlot
  <2>2. pc[j] \in HasPermit /\ UNCHANGED loop
    BY <1>5 DEF TaskStep, AcquireSlot, Register, MakeWorkspace, MarkUsed, PrepareFails,
       Finish, Cleanup, Leave, ReleaseSlot, Step, HasPermit, HasSlot, loopVars
  <2>3. PoolState(to) = PoolState(pc[j])
    BY <2>1, <2>2 DEF PoolState, HasPermit, HasSlot
  <2>4. job' = [job EXCEPT ![j] = PoolState(to)]
    BY <1>1, <2>1
  <2> QED BY <2>2, <2>3, <2>4
<1>6. CASE UNCHANGED pc /\ UNCHANGED open
  BY <1>6
<1> QED BY <1>2, <1>3, <1>4, <1>5, <1>6
        DEF Next, LoopStep, AcquirePermit, WaitBreak, ReceiveNothing, IdleElapsed,
            IdleBreak, EvictorStep, CopyInUse, Judge, Evict, EndEviction,
            RequestShutdown, IntervalPasses, Age, Stopped, vars, loopVars, Pool!Next

(* The daemon implements the job pool: at most `concurrent` jobs at a time, *)
(* none taken twice, none after the stop.  (The pool's liveness, that every *)
(* job it holds ends, is checked by TLC.)                                   *)
THEOREM ImplementsPoolSafety == Spec => Pool!SafeSpec
<1>1. IInv /\ [Next]_vars => [Pool!Next]_(Pool!poolVars)
  BY PoolStep DEF Pool!poolVars
<1> QED BY PoolInit, <1>1, Invariant, PTL DEF Spec, Pool!SafeSpec
=============================================================================
