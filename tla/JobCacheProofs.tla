---------------------------- MODULE JobCacheProofs ----------------------------
(***************************************************************************)
(* Proofs about JobCache, for any number of hosts, jobs, archives and      *)
(* attempts, with any number of jobs of the key at once on a host, and any *)
(* number of jobs with other keys that evict in its directory.  What is    *)
(* claimed of a job ends when another one overtakes it, and what is        *)
(* claimed of a host while it is mixed (see JobCache).                     *)
(***************************************************************************)
EXTENDS JobCache, TLAPS

Assumptions == CacheAssumption

(* An ETag that S3 would answer with 304 is of an archive that is not newer. *)
HostInv ==
    \A h \in Hosts \ mixed :
        archive[h] # 0 /\ object # 0 /\ sidecar[h] = object => archive[h] >= object

(* Of its save: what is there is what it made, unless it was evicted. *)
SaveInv(j) ==
    /\ pc[j] \in {"hash", "send", "sending", "uploaded"} =>
         made[j] # 0 /\ Archive(j) \in {0, made[j]}
    /\ pc[j] \in {"send", "sending"} => version[j] = made[j]
    /\ pc[j] = "uploaded" => etag[j] \in {0, made[j]}

(* Of its download: the sidecar that is there is not that of an object that  *)
(* S3 has, but the one downloaded.                                           *)
DownloadInv(j) ==
    /\ pc[j] \in {"downloaded", "sidecar"} =>
         told[j] = version[j] /\ etag[j] \in {0, version[j]}
    /\ pc[j] = "downloaded" /\ HostOf[j] \notin mixed =>
         Sidecar(j) \in {0, version[j]} \/ Sidecar(j) # object
    /\ pc[j] = "sidecar" => Archive(j) \in {0, version[j]}

(* Of its restore: the ETag it sends is of an archive that is there, and so  *)
(* is what S3 told it to use, unless it was evicted; what it downloaded is.  *)
RestoreInv(j) ==
    j \notin evicted =>
        /\ pc[j] = "get" /\ etag[j] # 0 /\ HostOf[j] \notin mixed =>
             Archive(j) # 0 /\ (etag[j] = object => Archive(j) >= object)
        /\ pc[j] \in {"sidecar", "evict then extract"} /\ told[j] # 0 =>
             Archive(j) # 0 /\ Archive(j) >= told[j]
        /\ pc[j] \in {"extract", "open"} /\ told[j] # 0 /\ HostOf[j] \notin mixed =>
             Archive(j) # 0 /\ Archive(j) >= told[j]

JobInv(j) == j \notin overtaken => SaveInv(j) /\ DownloadInv(j) /\ RestoreInv(j)

(* An archive that was not sent is known to nobody, was made once, and is    *)
(* sent by no other job.                                                     *)
Unknown(j) ==
    /\ object # made[j]
    /\ \A h \in Hosts : sidecar[h] # made[j]
    /\ \A k \in Jobs :
         /\ etag[k] # made[j]
         /\ k # j /\ Unsent(k) => made[k] # made[j] /\ (pc[k] # "hash" => version[k] # made[j])

UnsentInv == \A j \in Jobs \ overtaken : Unsent(j) => Unknown(j)

OthersInv == \A j \in Others : pc[j] \in {"idle", "evict", "remove", "remove sidecar"}

IInv ==
    /\ TypeOK /\ HostInv /\ (\A j \in Jobs \ Others : JobInv(j))
    /\ UnsentInv /\ OthersInv

-----------------------------------------------------------------------------
(* Nothing is in use at the start. *)
LEMMA InitIInv == ASSUME Assumptions PROVE Init => IInv
  <1> SUFFICES ASSUME Init PROVE IInv
    OBVIOUS
  <1> USE DEF Assumptions, CacheAssumption
  <1>1. /\ archive \in [Hosts -> 0 .. saves] /\ sidecar \in [Hosts -> 0 .. saves]
        /\ old \in [Hosts -> BOOLEAN] /\ \A h \in Hosts : ~old[h]
    BY DEF Init
  <1>2. /\ version \in [Jobs -> 0 .. saves] /\ etag \in [Jobs -> 0 .. saves]
        /\ made \in [Jobs -> 0 .. saves] /\ told \in [Jobs -> 0 .. saves]
        /\ object \in 0 .. saves /\ saves \in Versions
    BY DEF Init, Versions
  <1>3. tries \in [Jobs -> 0 .. Attempts]
    BY DEF Init
  <1>4. /\ pc = [j \in Jobs |-> "idle"] /\ evicted = {} /\ object = 0
        /\ overtaken = {} /\ mixed = {}
    BY DEF Init
  <1>5. TypeOK
    BY <1>1, <1>2, <1>3, <1>4 DEF TypeOK
  <1>6. HostInv /\ UnsentInv /\ OthersInv
    BY <1>4 DEF HostInv, UnsentInv, OthersInv, Unsent
  <1>7. \A j \in Jobs : JobInv(j)
    BY <1>4 DEF JobInv, SaveInv, DownloadInv, RestoreInv
  <1> QED
    BY <1>5, <1>6, <1>7 DEF IInv

(* What others do does not touch a job: they may only remove what is on its  *)
(* host, and change the object to one the host knows nothing of; or they     *)
(* overtake it.                                                              *)
LEMMA JobFrame ==
  ASSUME Assumptions, TypeOK, NEW j \in Jobs, JobInv(j),
         pc'[j] = pc[j], version'[j] = version[j], etag'[j] = etag[j],
         made'[j] = made[j], told'[j] = told[j],
         \/ ~InUse(j)
         \/ j \in overtaken'
         \/ /\ \/ archive'[HostOf[j]] = archive[HostOf[j]]
               \/ archive'[HostOf[j]] = 0 /\ j \in evicted'
            /\ sidecar'[HostOf[j]] \in {0, sidecar[HostOf[j]]}
            /\ \/ object' \in {0, object}
               \/ object' # sidecar[HostOf[j]] /\ object' # etag[j]
               \/ HostOf[j] \in mixed'
            /\ j \in evicted => j \in evicted'
            /\ j \in overtaken => j \in overtaken'
            /\ HostOf[j] \in mixed => HostOf[j] \in mixed'
  PROVE  JobInv(j)'
  <1> SUFFICES ASSUME j \notin overtaken' PROVE SaveInv(j)' /\ DownloadInv(j)' /\ RestoreInv(j)'
    BY DEF JobInv
  <1>1. CASE ~InUse(j)
    BY <1>1 DEF InUse, SaveInv, DownloadInv, RestoreInv
  <1>2. CASE InUse(j)
    <2>1. j \notin overtaken /\ SaveInv(j) /\ DownloadInv(j) /\ RestoreInv(j)
      BY <1>2 DEF JobInv
    <2>2. SaveInv(j)'
      BY <1>2, <2>1 DEF SaveInv, Archive
    <2>3. DownloadInv(j)'
      BY <1>2, <2>1 DEF DownloadInv, Archive, Sidecar
    <2>4. RestoreInv(j)'
      <3> SUFFICES ASSUME j \notin evicted' PROVE RestoreInv(j)'
        BY DEF RestoreInv
      <3> QED
        BY <1>2, <2>1 DEF RestoreInv, Archive
    <2> QED
      BY <2>2, <2>3, <2>4
  <1> QED
    BY <1>1, <1>2

(* A step of job i that leaves files and object as they are, or removes a    *)
(* sidecar; when it comes to send an archive that another job made, that     *)
(* one is overtaken.                                                         *)
LEMMA LocalKeeps ==
  ASSUME Assumptions, IInv, TypeOK', NEW i \in Jobs,
         UNCHANGED <<archive, object, mixed>>, \A h \in Hosts : sidecar'[h] \in {0, sidecar[h]},
         \A k \in Jobs : k # i =>
           /\ pc'[k] = pc[k] /\ version'[k] = version[k] /\ etag'[k] = etag[k]
           /\ made'[k] = made[k] /\ told'[k] = told[k] /\ (k \in evicted => k \in evicted')
           /\ (k \in overtaken => k \in overtaken'),
         Unsent(i)' => Unsent(i) /\ made'[i] = made[i] /\ (i \in overtaken => i \in overtaken'),
         Unsent(i)' /\ pc'[i] # "hash" =>
           \/ version'[i] = version[i] /\ pc[i] # "hash"
           \/ \A k \in Jobs : k # i /\ Unsent(k) /\ made[k] = version'[i] => k \in overtaken',
         etag'[i] \in {0, etag[i], object, sidecar[HostOf[i]]},
         i \notin Others => JobInv(i)',
         i \in Others => pc'[i] \in {"idle", "evict", "remove", "remove sidecar"}
  PROVE  IInv'
  <1>1. /\ TypeOK /\ HostInv /\ (\A j \in Jobs \ Others : JobInv(j)) /\ UnsentInv /\ OthersInv
    BY DEF IInv
  <1>2. HostInv'
    BY <1>1 DEF HostInv
  <1>3. ASSUME NEW j \in Jobs \ Others PROVE JobInv(j)'
    <2>1. CASE j = i
      BY <2>1
    <2>2. CASE j # i
      <3>1. HostOf[j] \in Hosts
        BY DEF Assumptions, CacheAssumption
      <3> QED
        BY <1>1, <2>2, <3>1, JobFrame
    <2> QED
      BY <2>1, <2>2
  <1>4. UnsentInv'
    <2> SUFFICES ASSUME NEW j \in Jobs, j \notin overtaken', Unsent(j)' PROVE Unknown(j)'
      BY DEF UnsentInv
    <2>1. Unsent(j) /\ made'[j] = made[j] /\ j \notin overtaken
      BY DEF Unsent
    <2>2. /\ object # made[j] /\ (\A h \in Hosts : sidecar[h] # made[j])
          /\ \A k \in Jobs :
               /\ etag[k] # made[j]
               /\ k # j /\ Unsent(k) =>
                    made[k] # made[j] /\ (pc[k] # "hash" => version[k] # made[j])
      BY <1>1, <2>1 DEF UnsentInv, Unknown
    <2>3. j \notin Others
      BY <1>1, <2>1 DEF OthersInv, Unsent
    <2>4. made[j] # 0
      BY <1>1, <2>1, <2>3 DEF JobInv, SaveInv, Unsent
    <2>5. HostOf[i] \in Hosts
      BY DEF Assumptions, CacheAssumption
    <2>6. \A k \in Jobs : etag'[k] # made[j]
      BY <2>2, <2>4, <2>5
    <2>7. ASSUME NEW k \in Jobs, k # j, Unsent(k)'
          PROVE  made'[k] # made'[j] /\ (pc'[k] # "hash" => version'[k] # made'[j])
      <3>1. Unsent(k) /\ made'[k] = made[k]
        BY <2>7 DEF Unsent
      <3>2. made[k] # made[j] /\ (pc[k] # "hash" => version[k] # made[j])
        BY <2>2, <2>7, <3>1
      <3>3. CASE k # i
        BY <2>1, <3>1, <3>2, <3>3
      <3>4. CASE k = i
        <4>1. ASSUME pc'[i] # "hash" PROVE version'[i] # made[j]
          BY <2>1, <2>7, <3>2, <3>4, <4>1
        <4> QED
          BY <2>1, <3>1, <3>2, <3>4, <4>1
      <3> QED
        BY <3>3, <3>4
    <2>8. \A h \in Hosts : sidecar'[h] # made[j]
      BY <2>2, <2>4
    <2> QED
      BY <2>1, <2>2, <2>6, <2>7, <2>8 DEF Unknown
  <1>5. OthersInv'
    BY <1>1 DEF OthersInv, Assumptions, CacheAssumption
  <1> QED
    BY <1>2, <1>3, <1>4, <1>5 DEF IInv

-----------------------------------------------------------------------------
Positions ==
    {"idle", "fetch", "get", "downloaded", "sidecar", "evict then extract", "extract",
     "open", "staged", "hash", "send", "sending", "uploaded", "evict", "remove",
     "remove sidecar"}

LEMMA SavesIsNat == ASSUME Assumptions, TypeOK PROVE saves \in Nat /\ 0 \in 0 .. saves
  <1>1. saves \in 0 .. MaxSaves
    BY DEF TypeOK, Versions
  <1>2. MaxSaves \in Nat
    BY DEF Assumptions, CacheAssumption
  <1> QED
    BY ONLY <1>1, <1>2

(* A step changes only what job i has. *)
Own(i) ==
    /\ pc' = [pc EXCEPT ![i] = pc'[i]] /\ version' = [version EXCEPT ![i] = version'[i]]
    /\ etag' = [etag EXCEPT ![i] = etag'[i]] /\ made' = [made EXCEPT ![i] = made'[i]]
    /\ told' = [told EXCEPT ![i] = told'[i]] /\ tries' = [tries EXCEPT ![i] = tries'[i]]

LEMMA OwnOnly ==
  ASSUME TypeOK, NEW i \in Jobs, Own(i)
  PROVE  \A k \in Jobs : k # i =>
           /\ pc'[k] = pc[k] /\ version'[k] = version[k] /\ etag'[k] = etag[k]
           /\ made'[k] = made[k] /\ told'[k] = told[k] /\ tries'[k] = tries[k]
  <1>1. \A k \in Jobs : k # i => pc'[k] = pc[k]
    BY Zenon DEF TypeOK, Own
  <1>2. \A k \in Jobs : k # i => version'[k] = version[k] /\ etag'[k] = etag[k]
    BY Zenon DEF TypeOK, Own
  <1>3. \A k \in Jobs : k # i => made'[k] = made[k] /\ told'[k] = told[k]
    BY Zenon DEF TypeOK, Own
  <1>4. \A k \in Jobs : k # i => tries'[k] = tries[k]
    BY Zenon DEF TypeOK, Own
  <1> QED
    BY <1>1, <1>2, <1>3, <1>4

(* The types of what a job has. *)
LEMMA TypeKeeps ==
  ASSUME Assumptions, TypeOK, NEW i \in Jobs, UNCHANGED <<object, saves, archive>>,
         sidecar' \in [Hosts -> 0 .. saves],
         old' \in [Hosts -> BOOLEAN], \A h \in Hosts : old'[h] => old[h],
         Own(i), pc'[i] \in Positions, version'[i] \in 0 .. saves, etag'[i] \in 0 .. saves,
         made'[i] \in 0 .. saves, told'[i] \in 0 .. saves, tries'[i] \in 0 .. Attempts,
         evicted' \subseteq evicted, pc'[i] = "idle" => i \notin evicted',
         overtaken' \subseteq overtaken \cup {k \in Jobs \ (Others \cup {i}) : InUse(k)},
         pc'[i] \in {"idle", "fetch", "staged"} => i \notin overtaken', UNCHANGED mixed,
         pc'[i] \in {"downloaded", "sidecar", "send", "sending"} => version'[i] # 0
  PROVE  TypeOK'
  <1>1. /\ archive' \in [Hosts -> 0 .. saves'] /\ sidecar' \in [Hosts -> 0 .. saves']
        /\ object' \in 0 .. saves' /\ saves' \in Versions
    BY DEF TypeOK
  <1>2. \A h \in Hosts : old'[h] => archive'[h] # 0
    BY DEF TypeOK
  <1>3. pc' \in [Jobs -> Positions]
    BY DEF TypeOK, Positions, Own
  <1>4. version' \in [Jobs -> 0 .. saves'] /\ etag' \in [Jobs -> 0 .. saves']
    BY DEF TypeOK, Own
  <1>5. made' \in [Jobs -> 0 .. saves'] /\ told' \in [Jobs -> 0 .. saves']
    BY DEF TypeOK, Own
  <1>6. tries' \in [Jobs -> 0 .. Attempts]
    BY DEF TypeOK, Own
  <1>7. evicted' \subseteq {j \in Jobs \ Others : pc'[j] # "idle"}
    <2> SUFFICES ASSUME NEW j \in evicted' PROVE j \in Jobs \ Others /\ pc'[j] # "idle"
      OBVIOUS
    <2>1. j \in Jobs \ Others /\ pc[j] # "idle"
      BY DEF TypeOK
    <2> QED
      BY <2>1, OwnOnly
  <1>8. \A j \in Jobs : pc'[j] \in {"downloaded", "sidecar", "send", "sending"} => version'[j] # 0
    BY OwnOnly DEF TypeOK
  <1>9. overtaken' \subseteq {j \in Jobs \ Others : pc'[j] \notin {"idle", "fetch", "staged"}}
    <2> SUFFICES ASSUME NEW j \in overtaken'
                 PROVE  j \in Jobs \ Others /\ pc'[j] \notin {"idle", "fetch", "staged"}
      OBVIOUS
    <2>1. j \in Jobs \ Others /\ (j # i => pc[j] \notin {"idle", "fetch", "staged"})
      BY DEF TypeOK, InUse
    <2> QED
      BY <2>1, OwnOnly
  <1>10. mixed' \subseteq Hosts
    BY DEF TypeOK
  <1> QED
    BY <1>1, <1>2, <1>3, <1>4, <1>5, <1>6, <1>7, <1>8, <1>9, <1>10 DEF TypeOK, Positions, Versions

(* A step of a job that goes on and changes neither files nor object. *)
LEMMA GoesOnKeeps ==
  ASSUME Assumptions, IInv, NEW i \in Jobs,
         UNCHANGED <<archive, sidecar, object, saves, made, evicted, mixed>>,
         overtaken \ {i} \subseteq overtaken',
         overtaken' \subseteq overtaken \cup {k \in Jobs \ (Others \cup {i}) : InUse(k)},
         pc'[i] \in {"fetch", "staged"} => i \notin overtaken',
         pc'[i] \in {"hash", "send", "sending"} => (i \in overtaken => i \in overtaken'),
         pc'[i] \in {"send", "sending"} =>
           \/ version'[i] = version[i] /\ pc[i] # "hash"
           \/ \A k \in Jobs : k # i /\ Unsent(k) /\ made[k] = version'[i] => k \in overtaken',
         old' \in [Hosts -> BOOLEAN], \A h \in Hosts : old'[h] => old[h],
         Own(i), pc'[i] \in Positions \ {"idle"}, version'[i] \in 0 .. saves,
         etag'[i] \in {0, etag[i], object, sidecar[HostOf[i]]},
         told'[i] \in 0 .. saves, tries'[i] \in 0 .. Attempts,
         pc'[i] \in {"downloaded", "sidecar", "send", "sending"} => version'[i] # 0,
         pc'[i] \in {"hash", "send", "sending"} => Unsent(i),
         i \notin Others => JobInv(i)',
         i \in Others => pc'[i] \in {"evict", "remove", "remove sidecar"}
  PROVE  IInv'
  <1>1. TypeOK
    BY DEF IInv
  <1>2. HostOf[i] \in Hosts /\ 0 \in 0 .. saves
    BY <1>1, SavesIsNat DEF Assumptions, CacheAssumption
  <1>3. etag[i] \in 0 .. saves /\ object \in 0 .. saves /\ sidecar[HostOf[i]] \in 0 .. saves
    BY <1>1, <1>2 DEF TypeOK
  <1>4. etag'[i] \in 0 .. saves
    BY <1>2, <1>3
  <1>5. made'[i] \in 0 .. saves
    BY <1>1 DEF TypeOK
  <1>6. TypeOK'
    <2>1. sidecar' \in [Hosts -> 0 .. saves]
      BY <1>1 DEF TypeOK
    <2> QED
      BY <1>1, <1>4, <1>5, <2>1, TypeKeeps
  <1>7. Unsent(i)' => Unsent(i) /\ (i \in overtaken => i \in overtaken')
    BY DEF Unsent
  <1>8. Unsent(i)' /\ pc'[i] # "hash" => pc'[i] \in {"send", "sending"}
    BY DEF Unsent
  <1>9. \A k \in Jobs : k # i =>
          /\ pc'[k] = pc[k] /\ version'[k] = version[k] /\ etag'[k] = etag[k]
          /\ made'[k] = made[k] /\ told'[k] = told[k] /\ (k \in evicted => k \in evicted')
          /\ (k \in overtaken => k \in overtaken')
    BY <1>1, OwnOnly
  <1> QED
    BY <1>1, <1>6, <1>7, <1>8, <1>9, LocalKeeps

(* A job that is done with the cache. *)
LEMMA DoneKeeps ==
  ASSUME Assumptions, IInv, NEW i \in Jobs, Done(i), UNCHANGED <<archive, old, object, saves>>,
         sidecar' \in [Hosts -> 0 .. saves], \A h \in Hosts : sidecar'[h] \in {0, sidecar[h]}
  PROVE  IInv'
  <1>1. /\ pc' = [pc EXCEPT ![i] = "idle"] /\ version' = [version EXCEPT ![i] = 0]
        /\ etag' = [etag EXCEPT ![i] = 0] /\ made' = [made EXCEPT ![i] = 0]
        /\ tries' = [tries EXCEPT ![i] = 0] /\ told' = [told EXCEPT ![i] = 0]
        /\ evicted' = evicted \ {i} /\ overtaken' = overtaken \ {i} /\ mixed' = mixed
    BY DEF Done, Goes
  <1>2. TypeOK
    BY DEF IInv
  <1>3. /\ pc'[i] = "idle" /\ version'[i] = 0 /\ etag'[i] = 0 /\ made'[i] = 0
        /\ tries'[i] = 0 /\ told'[i] = 0
    BY <1>1, <1>2 DEF TypeOK
  <1>4. 0 \in 0 .. saves /\ 0 \in 0 .. Attempts
    BY <1>2, SavesIsNat DEF Assumptions, CacheAssumption
  <1>5. old' \in [Hosts -> BOOLEAN]
    BY <1>1, <1>2 DEF TypeOK
  <1>6. Own(i)
    BY <1>1, <1>3 DEF Own
  <1>7. TypeOK'
    BY <1>1, <1>2, <1>3, <1>4, <1>5, <1>6, TypeKeeps DEF Positions
  <1>8. JobInv(i)'
    BY <1>3 DEF JobInv, SaveInv, DownloadInv, RestoreInv
  <1> QED
    BY <1>1, <1>2, <1>3, <1>6, <1>7, <1>8, OwnOnly, LocalKeeps DEF Unsent

LEMMA LeaveKeeps ==
  ASSUME Assumptions, IInv, NEW i \in Jobs, Done(i), UNCHANGED <<hostVars, object, saves>>
  PROVE  IInv'
  <1>1. sidecar \in [Hosts -> 0 .. saves] /\ UNCHANGED <<archive, sidecar, old, object, saves>>
    BY DEF IInv, TypeOK, hostVars
  <1> QED
    BY <1>1, DoneKeeps

-----------------------------------------------------------------------------
(* The steps that only go on. *)

LEMMA StartRestoreKeeps ==
  ASSUME Assumptions, IInv, NEW i \in Jobs \ Others, StartRestore(i) PROVE IInv'
  <1>1. TypeOK /\ HostInv /\ i \in Jobs /\ JobInv(i)
    BY DEF IInv, Assumptions, CacheAssumption
  <1>2. /\ pc[i] = "idle"
        /\ pc' = [pc EXCEPT ![i] = "fetch"]
        /\ tries' = [tries EXCEPT ![i] = Attempts]
        /\ UNCHANGED <<archive, sidecar, old, object, saves, version, etag, made, told, evicted, overtaken, mixed>>
    BY DEF company, StartRestore, Goes, hostVars
  <1>3. /\ pc'[i] = "fetch" /\ tries'[i] = Attempts /\ version'[i] = version[i]
        /\ etag'[i] = etag[i] /\ made'[i] = made[i] /\ told'[i] = told[i]
    BY <1>1, <1>2 DEF TypeOK
  <1>4. Own(i)
    BY <1>1, <1>2, <1>3, Zenon DEF TypeOK, Own
  <1>5. old' \in [Hosts -> BOOLEAN] /\ \A h \in Hosts : old'[h] => old[h]
    BY <1>1, <1>2, Zenon DEF TypeOK
  <1>6. HostOf[i] \in Hosts /\ 0 \in 0 .. saves /\ Attempts \in 0 .. Attempts
    BY <1>1, SavesIsNat DEF Assumptions, CacheAssumption
  <1>7. /\ version'[i] \in 0 .. saves /\ told'[i] \in 0 .. saves /\ tries'[i] \in 0 .. Attempts
        /\ etag'[i] \in {0, etag[i], object, sidecar[HostOf[i]]}
    BY <1>1, <1>3, <1>6 DEF TypeOK, Archive, Sidecar
  <1>8. JobInv(i)'
    BY <1>1, <1>2, <1>3, <1>6 DEF JobInv, SaveInv, DownloadInv, RestoreInv, HostInv, Archive, Sidecar
  <1>9. pc'[i] \in {"downloaded", "sidecar", "send", "sending"} => version'[i] # 0
    BY <1>1, <1>2, <1>3 DEF TypeOK
  <1>10. i \notin overtaken'
    BY <1>1, <1>2 DEF TypeOK
  <1> QED
    BY <1>1, <1>2, <1>3, <1>4, <1>5, <1>7, <1>8, <1>9, <1>10, GoesOnKeeps DEF Positions

LEMMA FetchKeeps ==
  ASSUME Assumptions, IInv, NEW i \in Jobs \ Others, Fetch(i) PROVE IInv'
  <1>1. TypeOK /\ HostInv /\ i \in Jobs /\ JobInv(i)
    BY DEF IInv, Assumptions, CacheAssumption
  <1>2. /\ pc' = [pc EXCEPT ![i] = "get"]
        /\ etag' = [etag EXCEPT ![i] = (IF Archive(i) # 0 THEN Sidecar(i) ELSE 0)]
        /\ UNCHANGED <<archive, sidecar, old, object, saves, version, made, tries, told, evicted, overtaken, mixed>>
    BY DEF company, Fetch, Goes, hostVars
  <1>3. /\ pc'[i] = "get" /\ etag'[i] = (IF Archive(i) # 0 THEN Sidecar(i) ELSE 0) /\ version'[i] = version[i]
        /\ made'[i] = made[i] /\ tries'[i] = tries[i] /\ told'[i] = told[i]
    BY <1>1, <1>2 DEF TypeOK
  <1>4. Own(i)
    BY <1>1, <1>2, <1>3, Zenon DEF TypeOK, Own
  <1>5. old' \in [Hosts -> BOOLEAN] /\ \A h \in Hosts : old'[h] => old[h]
    BY <1>1, <1>2, Zenon DEF TypeOK
  <1>6. HostOf[i] \in Hosts /\ 0 \in 0 .. saves /\ Attempts \in 0 .. Attempts
    BY <1>1, SavesIsNat DEF Assumptions, CacheAssumption
  <1>7. /\ version'[i] \in 0 .. saves /\ told'[i] \in 0 .. saves /\ tries'[i] \in 0 .. Attempts
        /\ etag'[i] \in {0, etag[i], object, sidecar[HostOf[i]]}
    BY <1>1, <1>3, <1>6 DEF TypeOK, Archive, Sidecar
  <1>8. JobInv(i)'
    BY <1>1, <1>2, <1>3, <1>6 DEF JobInv, SaveInv, DownloadInv, RestoreInv, HostInv, Archive, Sidecar
  <1>9. pc'[i] \in {"downloaded", "sidecar", "send", "sending"} => version'[i] # 0
    BY <1>1, <1>2, <1>3 DEF TypeOK
  <1> QED
    BY <1>1, <1>2, <1>3, <1>4, <1>5, <1>7, <1>8, <1>9, GoesOnKeeps DEF Positions

LEMMA GetNothingKeeps ==
  ASSUME Assumptions, IInv, NEW i \in Jobs \ Others, GetNothing(i) PROVE IInv'
  <1>1. TypeOK /\ HostInv /\ i \in Jobs /\ JobInv(i)
    BY DEF IInv, Assumptions, CacheAssumption
  <1>2. /\ pc[i] = "get"
        /\ pc' = [pc EXCEPT ![i] = "extract"]
        /\ told' = [told EXCEPT ![i] = object]
        /\ object = 0 \/ object = etag[i]
        /\ UNCHANGED <<archive, sidecar, old, object, saves, version, etag, made, tries, evicted, overtaken, mixed>>
    BY DEF company, GetNothing, Goes, hostVars
  <1>3. /\ pc'[i] = "extract" /\ told'[i] = object /\ version'[i] = version[i]
        /\ etag'[i] = etag[i] /\ made'[i] = made[i] /\ tries'[i] = tries[i]
    BY <1>1, <1>2 DEF TypeOK
  <1>4. Own(i)
    BY <1>1, <1>2, <1>3, Zenon DEF TypeOK, Own
  <1>5. old' \in [Hosts -> BOOLEAN] /\ \A h \in Hosts : old'[h] => old[h]
    BY <1>1, <1>2, Zenon DEF TypeOK
  <1>6. HostOf[i] \in Hosts /\ 0 \in 0 .. saves /\ Attempts \in 0 .. Attempts
    BY <1>1, SavesIsNat DEF Assumptions, CacheAssumption
  <1>7. /\ version'[i] \in 0 .. saves /\ told'[i] \in 0 .. saves /\ tries'[i] \in 0 .. Attempts
        /\ etag'[i] \in {0, etag[i], object, sidecar[HostOf[i]]}
    BY <1>1, <1>3, <1>6 DEF TypeOK, Archive, Sidecar
  <1>8. JobInv(i)'
    BY <1>1, <1>2, <1>3, <1>6 DEF JobInv, SaveInv, DownloadInv, RestoreInv, HostInv, Archive, Sidecar
  <1>9. pc'[i] \in {"downloaded", "sidecar", "send", "sending"} => version'[i] # 0
    BY <1>1, <1>2, <1>3 DEF TypeOK
  <1> QED
    BY <1>1, <1>2, <1>3, <1>4, <1>5, <1>7, <1>8, <1>9, GoesOnKeeps DEF Positions

LEMMA GetObjectKeeps ==
  ASSUME Assumptions, IInv, NEW i \in Jobs \ Others, GetObject(i) PROVE IInv'
  <1>1. TypeOK /\ HostInv /\ i \in Jobs /\ JobInv(i)
    BY DEF IInv, Assumptions, CacheAssumption
  <1>2. /\ pc' = [pc EXCEPT ![i] = "downloaded"]
        /\ version' = [version EXCEPT ![i] = object]
        /\ told' = [told EXCEPT ![i] = object]
        /\ object # 0 /\ \E e \in {0, object} : etag' = [etag EXCEPT ![i] = e]
        /\ UNCHANGED <<archive, sidecar, old, object, saves, made, tries, evicted, overtaken, mixed>>
    BY DEF company, GetObject, Goes, Has, hostVars
  <1>3. /\ pc'[i] = "downloaded" /\ version'[i] = object /\ told'[i] = object
        /\ etag'[i] \in {0, object} /\ made'[i] = made[i] /\ tries'[i] = tries[i]
    BY <1>1, <1>2 DEF TypeOK
  <1>4. Own(i)
    BY <1>1, <1>2, <1>3, Zenon DEF TypeOK, Own
  <1>5. old' \in [Hosts -> BOOLEAN] /\ \A h \in Hosts : old'[h] => old[h]
    BY <1>1, <1>2, Zenon DEF TypeOK
  <1>6. HostOf[i] \in Hosts /\ 0 \in 0 .. saves /\ Attempts \in 0 .. Attempts
    BY <1>1, SavesIsNat DEF Assumptions, CacheAssumption
  <1>7. /\ version'[i] \in 0 .. saves /\ told'[i] \in 0 .. saves /\ tries'[i] \in 0 .. Attempts
        /\ etag'[i] \in {0, etag[i], object, sidecar[HostOf[i]]}
    BY <1>1, <1>3, <1>6 DEF TypeOK, Archive, Sidecar
  <1>8. JobInv(i)'
    BY <1>1, <1>2, <1>3, <1>6 DEF JobInv, SaveInv, DownloadInv, RestoreInv, HostInv, Archive, Sidecar
  <1>9. pc'[i] \in {"downloaded", "sidecar", "send", "sending"} => version'[i] # 0
    BY <1>1, <1>2, <1>3 DEF TypeOK
  <1> QED
    BY <1>1, <1>2, <1>3, <1>4, <1>5, <1>7, <1>8, <1>9, GoesOnKeeps DEF Positions

LEMMA GetFailsKeeps ==
  ASSUME Assumptions, IInv, NEW i \in Jobs \ Others, GetFails(i) PROVE IInv'
  <1>1. TypeOK /\ HostInv /\ i \in Jobs /\ JobInv(i)
    BY DEF IInv, Assumptions, CacheAssumption
  <1>2. /\ pc' = [pc EXCEPT ![i] = "extract"]
        /\ told' = [told EXCEPT ![i] = 0]
        /\ UNCHANGED <<archive, sidecar, old, object, saves, version, etag, made, tries, evicted, overtaken, mixed>>
    BY DEF company, GetFails, Goes, hostVars
  <1>3. /\ pc'[i] = "extract" /\ told'[i] = 0 /\ version'[i] = version[i]
        /\ etag'[i] = etag[i] /\ made'[i] = made[i] /\ tries'[i] = tries[i]
    BY <1>1, <1>2 DEF TypeOK
  <1>4. Own(i)
    BY <1>1, <1>2, <1>3, Zenon DEF TypeOK, Own
  <1>5. old' \in [Hosts -> BOOLEAN] /\ \A h \in Hosts : old'[h] => old[h]
    BY <1>1, <1>2, Zenon DEF TypeOK
  <1>6. HostOf[i] \in Hosts /\ 0 \in 0 .. saves /\ Attempts \in 0 .. Attempts
    BY <1>1, SavesIsNat DEF Assumptions, CacheAssumption
  <1>7. /\ version'[i] \in 0 .. saves /\ told'[i] \in 0 .. saves /\ tries'[i] \in 0 .. Attempts
        /\ etag'[i] \in {0, etag[i], object, sidecar[HostOf[i]]}
    BY <1>1, <1>3, <1>6 DEF TypeOK, Archive, Sidecar
  <1>8. JobInv(i)'
    BY <1>1, <1>2, <1>3, <1>6 DEF JobInv, SaveInv, DownloadInv, RestoreInv, HostInv, Archive, Sidecar
  <1>9. pc'[i] \in {"downloaded", "sidecar", "send", "sending"} => version'[i] # 0
    BY <1>1, <1>2, <1>3 DEF TypeOK
  <1> QED
    BY <1>1, <1>2, <1>3, <1>4, <1>5, <1>7, <1>8, <1>9, GoesOnKeeps DEF Positions

LEMMA EvictThenExtractKeeps ==
  ASSUME Assumptions, IInv, NEW i \in Jobs \ Others, EvictThenExtract(i) PROVE IInv'
  <1>1. TypeOK /\ HostInv /\ i \in Jobs /\ JobInv(i)
    BY DEF IInv, Assumptions, CacheAssumption
  <1>2. /\ pc[i] = "evict then extract"
        /\ pc' = [pc EXCEPT ![i] = "extract"]
        /\ UNCHANGED <<archive, sidecar, old, object, saves, version, etag, made, tries, told, evicted, overtaken, mixed>>
    BY DEF company, EvictThenExtract, Goes, hostVars, jobVars, fileVars
  <1>3. /\ pc'[i] = "extract" /\ version'[i] = version[i] /\ etag'[i] = etag[i]
        /\ made'[i] = made[i] /\ tries'[i] = tries[i] /\ told'[i] = told[i]
    BY <1>1, <1>2 DEF TypeOK
  <1>4. Own(i)
    BY <1>1, <1>2, <1>3, Zenon DEF TypeOK, Own
  <1>5. old' \in [Hosts -> BOOLEAN] /\ \A h \in Hosts : old'[h] => old[h]
    BY <1>1, <1>2, Zenon DEF TypeOK
  <1>6. HostOf[i] \in Hosts /\ 0 \in 0 .. saves /\ Attempts \in 0 .. Attempts
    BY <1>1, SavesIsNat DEF Assumptions, CacheAssumption
  <1>7. /\ version'[i] \in 0 .. saves /\ told'[i] \in 0 .. saves /\ tries'[i] \in 0 .. Attempts
        /\ etag'[i] \in {0, etag[i], object, sidecar[HostOf[i]]}
    BY <1>1, <1>3, <1>6 DEF TypeOK, Archive, Sidecar
  <1>8. JobInv(i)'
    BY <1>1, <1>2, <1>3, <1>6 DEF JobInv, SaveInv, DownloadInv, RestoreInv, HostInv, Archive, Sidecar
  <1>9. pc'[i] \in {"downloaded", "sidecar", "send", "sending"} => version'[i] # 0
    BY <1>1, <1>2, <1>3 DEF TypeOK
  <1> QED
    BY <1>1, <1>2, <1>3, <1>4, <1>5, <1>7, <1>8, <1>9, GoesOnKeeps DEF Positions

LEMMA TouchKeeps ==
  ASSUME Assumptions, IInv, NEW i \in Jobs \ Others, Touch(i) PROVE IInv'
  <1>1. TypeOK /\ HostInv /\ i \in Jobs /\ JobInv(i)
    BY DEF IInv, Assumptions, CacheAssumption
  <1>2. /\ pc[i] = "extract"
        /\ pc' = [pc EXCEPT ![i] = "open"]
        /\ old' = [old EXCEPT ![HostOf[i]] = FALSE]
        /\ UNCHANGED <<archive, sidecar, object, saves, version, etag, made, tries, told, evicted, overtaken, mixed>>
    BY DEF company, Touch, Goes, jobVars, fileVars
  <1>3. /\ pc'[i] = "open" /\ version'[i] = version[i] /\ etag'[i] = etag[i]
        /\ made'[i] = made[i] /\ tries'[i] = tries[i] /\ told'[i] = told[i]
    BY <1>1, <1>2 DEF TypeOK
  <1>4. Own(i)
    BY <1>1, <1>2, <1>3, Zenon DEF TypeOK, Own
  <1>5. old' \in [Hosts -> BOOLEAN] /\ \A h \in Hosts : old'[h] => old[h]
    BY <1>1, <1>2, Zenon DEF TypeOK
  <1>6. HostOf[i] \in Hosts /\ 0 \in 0 .. saves /\ Attempts \in 0 .. Attempts
    BY <1>1, SavesIsNat DEF Assumptions, CacheAssumption
  <1>7. /\ version'[i] \in 0 .. saves /\ told'[i] \in 0 .. saves /\ tries'[i] \in 0 .. Attempts
        /\ etag'[i] \in {0, etag[i], object, sidecar[HostOf[i]]}
    BY <1>1, <1>3, <1>6 DEF TypeOK, Archive, Sidecar
  <1>8. JobInv(i)'
    BY <1>1, <1>2, <1>3, <1>6 DEF JobInv, SaveInv, DownloadInv, RestoreInv, HostInv, Archive, Sidecar
  <1>9. pc'[i] \in {"downloaded", "sidecar", "send", "sending"} => version'[i] # 0
    BY <1>1, <1>2, <1>3 DEF TypeOK
  <1> QED
    BY <1>1, <1>2, <1>3, <1>4, <1>5, <1>7, <1>8, <1>9, GoesOnKeeps DEF Positions

LEMMA StartSaveKeeps ==
  ASSUME Assumptions, IInv, NEW i \in Jobs \ Others, StartSave(i) PROVE IInv'
  <1>1. TypeOK /\ HostInv /\ i \in Jobs /\ JobInv(i)
    BY DEF IInv, Assumptions, CacheAssumption
  <1>2. /\ pc[i] = "idle"
        /\ pc' = [pc EXCEPT ![i] = "staged"]
        /\ UNCHANGED <<archive, sidecar, old, object, saves, version, etag, made, tries, told, evicted, overtaken, mixed>>
    BY DEF company, StartSave, Goes, hostVars, jobVars, fileVars
  <1>3. /\ pc'[i] = "staged" /\ version'[i] = version[i] /\ etag'[i] = etag[i]
        /\ made'[i] = made[i] /\ tries'[i] = tries[i] /\ told'[i] = told[i]
    BY <1>1, <1>2 DEF TypeOK
  <1>4. Own(i)
    BY <1>1, <1>2, <1>3, Zenon DEF TypeOK, Own
  <1>5. old' \in [Hosts -> BOOLEAN] /\ \A h \in Hosts : old'[h] => old[h]
    BY <1>1, <1>2, Zenon DEF TypeOK
  <1>6. HostOf[i] \in Hosts /\ 0 \in 0 .. saves /\ Attempts \in 0 .. Attempts
    BY <1>1, SavesIsNat DEF Assumptions, CacheAssumption
  <1>7. /\ version'[i] \in 0 .. saves /\ told'[i] \in 0 .. saves /\ tries'[i] \in 0 .. Attempts
        /\ etag'[i] \in {0, etag[i], object, sidecar[HostOf[i]]}
    BY <1>1, <1>3, <1>6 DEF TypeOK, Archive, Sidecar
  <1>8. JobInv(i)'
    BY <1>1, <1>2, <1>3, <1>6 DEF JobInv, SaveInv, DownloadInv, RestoreInv, HostInv, Archive, Sidecar
  <1>9. pc'[i] \in {"downloaded", "sidecar", "send", "sending"} => version'[i] # 0
    BY <1>1, <1>2, <1>3 DEF TypeOK
  <1>10. i \notin overtaken'
    BY <1>1, <1>2 DEF TypeOK
  <1> QED
    BY <1>1, <1>2, <1>3, <1>4, <1>5, <1>7, <1>8, <1>9, <1>10, GoesOnKeeps DEF Positions

LEMMA HashArchiveKeeps ==
  ASSUME Assumptions, IInv, NEW i \in Jobs \ Others, HashArchive(i) PROVE IInv'
  <1>1. TypeOK /\ HostInv /\ i \in Jobs /\ JobInv(i)
    BY DEF IInv, Assumptions, CacheAssumption
  <1>2. /\ pc[i] = "hash"
        /\ pc' = [pc EXCEPT ![i] = "send"]
        /\ version' = [version EXCEPT ![i] = Archive(i)]
        /\ Archive(i) # 0
        /\ overtaken' = overtaken \cup {k \in Jobs \ {i} : Unsent(k) /\ made[k] = Archive(i)}
        /\ UNCHANGED <<archive, sidecar, old, object, saves, etag, made, tries, told, evicted, mixed>>
    BY DEF HashArchive, Goes, Has, hostVars
  <1>3. /\ pc'[i] = "send" /\ version'[i] = Archive(i) /\ etag'[i] = etag[i]
        /\ made'[i] = made[i] /\ tries'[i] = tries[i] /\ told'[i] = told[i]
    BY <1>1, <1>2 DEF TypeOK
  <1>4. Own(i)
    BY <1>1, <1>2, <1>3, Zenon DEF TypeOK, Own
  <1>5. old' \in [Hosts -> BOOLEAN] /\ \A h \in Hosts : old'[h] => old[h]
    BY <1>1, <1>2, Zenon DEF TypeOK
  <1>6. HostOf[i] \in Hosts /\ 0 \in 0 .. saves /\ Attempts \in 0 .. Attempts
    BY <1>1, SavesIsNat DEF Assumptions, CacheAssumption
  <1>7. /\ version'[i] \in 0 .. saves /\ told'[i] \in 0 .. saves /\ tries'[i] \in 0 .. Attempts
        /\ etag'[i] \in {0, etag[i], object, sidecar[HostOf[i]]}
    BY <1>1, <1>3, <1>6 DEF TypeOK, Archive, Sidecar
  <1>8. JobInv(i)'
    BY <1>1, <1>2, <1>3, <1>6 DEF JobInv, SaveInv, DownloadInv, RestoreInv, HostInv, Archive, Sidecar
  <1>9. pc'[i] \in {"downloaded", "sidecar", "send", "sending"} => version'[i] # 0
    BY <1>1, <1>2, <1>3 DEF TypeOK
  <1>10. overtaken' \subseteq overtaken \cup {k \in Jobs \ (Others \cup {i}) : InUse(k)}
    BY <1>2 DEF IInv, OthersInv, Unsent, InUse
  <1>11. \A k \in Jobs : k # i /\ Unsent(k) /\ made[k] = version'[i] => k \in overtaken'
    BY <1>2, <1>3
  <1> QED
    BY <1>1, <1>2, <1>3, <1>4, <1>5, <1>7, <1>8, <1>9, <1>10, <1>11, GoesOnKeeps DEF Positions, Unsent

LEMMA OpenArchiveKeeps ==
  ASSUME Assumptions, IInv, NEW i \in Jobs \ Others, OpenArchive(i) PROVE IInv'
  <1>1. TypeOK /\ HostInv /\ i \in Jobs /\ JobInv(i)
    BY DEF IInv, Assumptions, CacheAssumption
  <1>2. /\ pc[i] = "send"
        /\ pc' = [pc EXCEPT ![i] = "sending"]
        /\ UNCHANGED <<archive, sidecar, old, object, saves, version, etag, made, tries, told, evicted, overtaken, mixed>>
    BY DEF company, OpenArchive, Goes, hostVars, jobVars, fileVars
  <1>3. /\ pc'[i] = "sending" /\ version'[i] = version[i] /\ etag'[i] = etag[i]
        /\ made'[i] = made[i] /\ tries'[i] = tries[i] /\ told'[i] = told[i]
    BY <1>1, <1>2 DEF TypeOK
  <1>4. Own(i)
    BY <1>1, <1>2, <1>3, Zenon DEF TypeOK, Own
  <1>5. old' \in [Hosts -> BOOLEAN] /\ \A h \in Hosts : old'[h] => old[h]
    BY <1>1, <1>2, Zenon DEF TypeOK
  <1>6. HostOf[i] \in Hosts /\ 0 \in 0 .. saves /\ Attempts \in 0 .. Attempts
    BY <1>1, SavesIsNat DEF Assumptions, CacheAssumption
  <1>7. /\ version'[i] \in 0 .. saves /\ told'[i] \in 0 .. saves /\ tries'[i] \in 0 .. Attempts
        /\ etag'[i] \in {0, etag[i], object, sidecar[HostOf[i]]}
    BY <1>1, <1>3, <1>6 DEF TypeOK, Archive, Sidecar
  <1>8. JobInv(i)'
    BY <1>1, <1>2, <1>3, <1>6 DEF JobInv, SaveInv, DownloadInv, RestoreInv, HostInv, Archive, Sidecar
  <1>9. pc'[i] \in {"downloaded", "sidecar", "send", "sending"} => version'[i] # 0
    BY <1>1, <1>2, <1>3 DEF TypeOK
  <1> QED
    BY <1>1, <1>2, <1>3, <1>4, <1>5, <1>7, <1>8, <1>9, GoesOnKeeps DEF Positions, Unsent

LEMMA StartOtherKeeps ==
  ASSUME Assumptions, IInv, NEW i \in Others, StartOther(i) PROVE IInv'
  <1>1. TypeOK /\ HostInv /\ i \in Jobs
    BY DEF IInv, Assumptions, CacheAssumption
  <1>2. /\ pc' = [pc EXCEPT ![i] = "evict"]
        /\ UNCHANGED <<archive, sidecar, old, object, saves, version, etag, made, tries, told, evicted, overtaken, mixed>>
    BY DEF company, StartOther, Goes, hostVars, jobVars, fileVars
  <1>3. /\ pc'[i] = "evict" /\ version'[i] = version[i] /\ etag'[i] = etag[i]
        /\ made'[i] = made[i] /\ tries'[i] = tries[i] /\ told'[i] = told[i]
    BY <1>1, <1>2 DEF TypeOK
  <1>4. Own(i)
    BY <1>1, <1>2, <1>3, Zenon DEF TypeOK, Own
  <1>5. old' \in [Hosts -> BOOLEAN] /\ \A h \in Hosts : old'[h] => old[h]
    BY <1>1, <1>2, Zenon DEF TypeOK
  <1>6. HostOf[i] \in Hosts /\ 0 \in 0 .. saves /\ Attempts \in 0 .. Attempts
    BY <1>1, SavesIsNat DEF Assumptions, CacheAssumption
  <1>7. /\ version'[i] \in 0 .. saves /\ told'[i] \in 0 .. saves /\ tries'[i] \in 0 .. Attempts
        /\ etag'[i] \in {0, etag[i], object, sidecar[HostOf[i]]}
    BY <1>1, <1>3, <1>6 DEF TypeOK, Archive, Sidecar
  <1> QED
    BY <1>1, <1>2, <1>3, <1>4, <1>5, <1>7, GoesOnKeeps DEF Positions

(* Age of the archive read, or a job with another key is done. *)
LEMMA EvictKeeps ==
  ASSUME Assumptions, IInv, NEW i \in Jobs, Evict(i) PROVE IInv'
  <1>1. CASE Done(i)
    BY <1>1, LeaveKeeps DEF Evict
  <1>2. CASE ~Done(i)
    <2>1. TypeOK /\ (i \notin Others => JobInv(i))
      BY DEF IInv
    <2>2. /\ pc' = [pc EXCEPT ![i] = "remove"]
          /\ UNCHANGED <<archive, sidecar, old, object, saves, version, etag, made, tries, told, evicted, overtaken, mixed>>
      BY <1>2 DEF company, Evict, Goes, hostVars, jobVars, fileVars
    <2>3. /\ pc'[i] = "remove" /\ version'[i] = version[i] /\ etag'[i] = etag[i]
          /\ tries'[i] = tries[i] /\ told'[i] = told[i]
      BY <2>1, <2>2 DEF TypeOK
    <2>4. Own(i)
      BY <2>1, <2>2, <2>3, Zenon DEF TypeOK, Own
    <2>5. old' \in [Hosts -> BOOLEAN] /\ \A h \in Hosts : old'[h] => old[h]
      BY <2>1, <2>2, Zenon DEF TypeOK
    <2>6. /\ version'[i] \in 0 .. saves /\ told'[i] \in 0 .. saves /\ tries'[i] \in 0 .. Attempts
      BY <2>1, <2>3 DEF TypeOK
    <2>7. JobInv(i)'
      BY <2>3 DEF JobInv, SaveInv, DownloadInv, RestoreInv
    <2> QED
      BY <2>1, <2>2, <2>3, <2>4, <2>5, <2>6, <2>7, GoesOnKeeps DEF Positions
  <1> QED
    BY <1>1, <1>2

LEMMA ExtractFailsKeeps ==
  ASSUME Assumptions, IInv, NEW i \in Jobs \ Others, ExtractFails(i) PROVE IInv'
  <1>1. CASE ~(tries[i] > 1)
    BY <1>1, LeaveKeeps DEF ExtractFails
  <1>2. CASE tries[i] > 1
    <2>1. TypeOK
      BY DEF IInv
    <2>2. /\ pc' = [pc EXCEPT ![i] = "fetch"] /\ tries' = [tries EXCEPT ![i] = tries[i] - 1]
          /\ version' = [version EXCEPT ![i] = 0]
          /\ UNCHANGED <<archive, sidecar, old, object, saves, etag, made, told, evicted, mixed>>
          /\ overtaken' = overtaken \ {i}
      BY <1>2, <2>1 DEF ExtractFails, Goes, Has, hostVars
    <2>3. /\ pc'[i] = "fetch" /\ version'[i] = 0 /\ etag'[i] = etag[i]
          /\ tries'[i] = tries[i] - 1 /\ told'[i] = told[i]
      BY <2>1, <2>2 DEF TypeOK
    <2>4. Own(i)
      BY <2>1, <2>2, <2>3, Zenon DEF TypeOK, Own
    <2>5. old' \in [Hosts -> BOOLEAN] /\ \A h \in Hosts : old'[h] => old[h]
      BY <2>1, <2>2, Zenon DEF TypeOK
    <2>6. tries[i] \in 0 .. Attempts /\ Attempts \in Nat
      BY <2>1 DEF TypeOK, Assumptions, CacheAssumption
    <2>a. tries'[i] \in 0 .. Attempts
      BY ONLY <1>2, <2>3, <2>6
    <2>b. told[i] \in 0 .. saves
      BY <2>1 DEF TypeOK
    <2>7. version'[i] \in 0 .. saves /\ told'[i] \in 0 .. saves /\ tries'[i] \in 0 .. Attempts
      BY <2>1, <2>3, <2>a, <2>b, SavesIsNat
    <2>8. JobInv(i)'
      BY <2>3 DEF JobInv, SaveInv, DownloadInv, RestoreInv
    <2> QED
      BY <2>1, <2>2, <2>3, <2>4, <2>5, <2>7, <2>8, GoesOnKeeps DEF Positions
  <1> QED
    BY <1>1, <1>2

-----------------------------------------------------------------------------
(* The steps that change the files of a host, or the object.               *)

(* A job that writes on its host overtakes the others there; those of other  *)
(* hosts are as they were.                                                   *)
LEMMA ElsewhereKeeps ==
  ASSUME Assumptions, IInv, NEW i \in Jobs \ Others, Own(i), object' = object,
         \A h \in Hosts : h # HostOf[i] =>
           /\ archive'[h] = archive[h] /\ sidecar'[h] = sidecar[h]
           /\ (h \in mixed => h \in mixed'),
         evicted' = evicted, overtaken' = overtaken \cup Company(i),
         NEW k \in Jobs \ Others, k # i
  PROVE  JobInv(k)'
  <1>1. TypeOK /\ JobInv(k)
    BY DEF IInv
  <1>2. HostOf[k] \in Hosts
    BY DEF Assumptions, CacheAssumption
  <1>3. /\ pc'[k] = pc[k] /\ version'[k] = version[k] /\ etag'[k] = etag[k]
        /\ made'[k] = made[k] /\ told'[k] = told[k]
    BY <1>1, OwnOnly
  <1>4. HostOf[k] = HostOf[i] /\ InUse(k) => k \in overtaken'
    BY DEF Company
  <1> QED
    BY <1>1, <1>2, <1>3, <1>4, JobFrame

(* What a write does to the job, to the others and to the host. *)
LEMMA OvertakesTypes ==
  ASSUME TypeOK, NEW i \in Jobs, NEW whole \in BOOLEAN, Overtakes(i, whole), Own(i),
         HostOf[i] \in Hosts, pc'[i] \notin {"idle", "fetch", "staged"}
  PROVE  /\ overtaken' = overtaken \cup Company(i) /\ i \notin Company(i)
         /\ overtaken' \subseteq {j \in Jobs \ Others : pc'[j] \notin {"idle", "fetch", "staged"}}
         /\ mixed' \subseteq Hosts
         /\ \A h \in Hosts : h # HostOf[i] => (h \in mixed <=> h \in mixed')
         /\ i \in overtaken => HostOf[i] \in mixed'
         /\ ~whole /\ HostOf[i] \in mixed => HostOf[i] \in mixed'
  <1>1. overtaken' = overtaken \cup Company(i) /\ i \notin Company(i)
    BY DEF Overtakes, Company
  <1>2. ASSUME NEW j \in overtaken'
        PROVE  j \in Jobs \ Others /\ pc'[j] \notin {"idle", "fetch", "staged"}
    <2>1. j \in Jobs \ Others /\ (j # i => pc[j] \notin {"idle", "fetch", "staged"})
      BY <1>1, <1>2 DEF TypeOK, Company, InUse
    <2> QED
      BY <2>1, OwnOnly
  <1>3. mixed \subseteq Hosts
    BY DEF TypeOK
  <1> QED
    BY <1>1, <1>2, <1>3 DEF Overtakes

LEMMA UnsentKeeps ==
  ASSUME Assumptions, IInv, NEW i \in Jobs, Own(i), object' = object,
         ~Unsent(i)', etag'[i] \in {0, etag[i]}, overtaken \subseteq overtaken',
         \A h \in Hosts : sidecar'[h] \in {0, sidecar[h], etag[i]}
  PROVE  UnsentInv'
  <1>1. TypeOK /\ UnsentInv /\ OthersInv
    BY DEF IInv
  <1> SUFFICES ASSUME NEW j \in Jobs, j \notin overtaken', Unsent(j)' PROVE Unknown(j)'
    BY DEF UnsentInv
  <1>2. \A k \in Jobs : k # i =>
          /\ pc'[k] = pc[k] /\ etag'[k] = etag[k] /\ made'[k] = made[k]
          /\ version'[k] = version[k]
    BY <1>1, OwnOnly
  <1>3. \A k \in Jobs : Unsent(k)' =>
          /\ Unsent(k) /\ made'[k] = made[k] /\ version'[k] = version[k] /\ pc'[k] = pc[k]
    BY <1>2 DEF Unsent
  <1>4. /\ object # made[j] /\ (\A h \in Hosts : sidecar[h] # made[j])
        /\ \A k \in Jobs :
             /\ etag[k] # made[j]
             /\ k # j /\ Unsent(k) => made[k] # made[j] /\ (pc[k] # "hash" => version[k] # made[j])
    BY <1>1, <1>3 DEF UnsentInv, Unknown
  <1>5. made[j] # 0
    BY <1>1, <1>3 DEF OthersInv, Unsent, IInv, JobInv, SaveInv
  <1>6. \A k \in Jobs : etag'[k] # made[j]
    BY <1>2, <1>4, <1>5
  <1>7. \A h \in Hosts : sidecar'[h] # made[j]
    BY <1>4, <1>5
  <1>8. \A k \in Jobs : k # j /\ Unsent(k)' =>
          made'[k] # made[j] /\ (pc'[k] # "hash" => version'[k] # made[j])
    BY <1>3, <1>4
  <1> QED
    BY <1>3, <1>4, <1>6, <1>7, <1>8 DEF Unknown

LEMMA OthersKeep ==
  ASSUME IInv, NEW i \in Jobs, Own(i), Others \subseteq Jobs,
         i \in Others => pc'[i] \in {"idle", "evict", "remove", "remove sidecar"}
  PROVE  OthersInv'
  <1>1. TypeOK /\ OthersInv
    BY DEF IInv
  <1> QED
    BY <1>1, OwnOnly DEF OthersInv

LEMMA PutDownloadKeeps ==
  ASSUME Assumptions, IInv, NEW i \in Jobs \ Others, SaveDownload(i), pc[i] = "downloaded"
  PROVE  IInv'
  <1>1. TypeOK /\ HostInv /\ JobInv(i)
    BY DEF IInv
  <1>2. /\ pc[i] = "downloaded" /\ pc' = [pc EXCEPT ![i] = "sidecar"]
        /\ archive' = [archive EXCEPT ![HostOf[i]] = version[i]]
        /\ old' = [old EXCEPT ![HostOf[i]] = FALSE]
        /\ Overtakes(i, FALSE)
        /\ UNCHANGED <<sidecar, object, saves, version, etag, made, tries, told, evicted>>
    BY DEF SaveDownload, PutArchive, Goes, fileVars
  <1>3. HostOf[i] \in Hosts /\ version[i] \in 0 .. saves /\ version[i] # 0
    BY <1>1 DEF TypeOK, Assumptions, CacheAssumption
  <1>4. /\ pc'[i] = "sidecar" /\ version'[i] = version[i] /\ etag'[i] = etag[i]
        /\ made'[i] = made[i] /\ told'[i] = told[i] /\ tries'[i] = tries[i]
        /\ archive'[HostOf[i]] = version[i]
    BY <1>1, <1>2, <1>3 DEF TypeOK
  <1>5. Own(i)
    BY <1>1, <1>2, <1>4, Zenon DEF TypeOK, Own
  <1>6. \A h \in Hosts : h # HostOf[i] => archive'[h] = archive[h] /\ sidecar'[h] = sidecar[h]
    BY <1>1, <1>2 DEF TypeOK
  <1>7. \A h \in Hosts : old'[h] => archive'[h] # 0
    BY <1>1, <1>2, <1>3, <1>4, <1>6, Zenon DEF TypeOK
  <1>b. /\ overtaken' = overtaken \cup Company(i) /\ i \notin Company(i)
        /\ overtaken' \subseteq {j \in Jobs \ Others : pc'[j] \notin {"idle", "fetch", "staged"}}
        /\ mixed' \subseteq Hosts
        /\ \A h \in Hosts : h # HostOf[i] => (h \in mixed <=> h \in mixed')
        /\ i \in overtaken => HostOf[i] \in mixed'
        /\ HostOf[i] \in mixed => HostOf[i] \in mixed'
    BY <1>1, <1>2, <1>3, <1>4, <1>5, OvertakesTypes
  <1>8. TypeOK'
    BY <1>1, <1>2, <1>3, <1>7, <1>b DEF TypeOK
  <1>a. version[i] \in Nat /\ version[i] >= version[i]
    <2>1. saves \in Nat
      BY <1>1, SavesIsNat
    <2> QED
      BY ONLY <1>3, <2>1
  <1>9. HostInv'
    <2>1. HostOf[i] \notin mixed' /\ object # 0 /\ sidecar[HostOf[i]] = object =>
            object = version[i]
      BY <1>1, <1>2, <1>b DEF JobInv, DownloadInv, Sidecar
    <2> QED
      BY <1>1, <1>2, <1>4, <1>6, <1>a, <1>b, <2>1 DEF HostInv
  <1>10. JobInv(i)'
    <2>1. i \notin overtaken => told[i] = version[i] /\ etag[i] \in {0, version[i]}
      BY <1>1, <1>2 DEF JobInv, DownloadInv
    <2> QED
      BY <1>b, <1>2, <1>3, <1>4, <1>a, <2>1 DEF JobInv, SaveInv, DownloadInv, RestoreInv, Archive, Sidecar
  <1>11. ASSUME NEW k \in Jobs \ Others PROVE JobInv(k)'
    BY <1>2, <1>5, <1>6, <1>10, <1>b, ElsewhereKeeps
  <1>12. UnsentInv'
    BY <1>2, <1>4, <1>5, <1>b, UnsentKeeps DEF Unsent
  <1>13. OthersInv'
    BY <1>5, OthersKeep DEF Assumptions, CacheAssumption
  <1> QED
    BY <1>8, <1>9, <1>11, <1>12, <1>13 DEF IInv

LEMMA PutSidecarKeeps ==
  ASSUME Assumptions, IInv, NEW i \in Jobs \ Others,
         \/ SaveDownload(i) /\ pc[i] = "sidecar"
         \/ SaveSidecar(i)
  PROVE  IInv'
  <1>1. TypeOK /\ HostInv /\ JobInv(i)
    BY DEF IInv
  <1>2. /\ sidecar' = [sidecar EXCEPT ![HostOf[i]] = etag[i]]
        /\ UNCHANGED <<archive, old, object, saves, version, etag, made, tries, told, evicted>>
        /\ \/ /\ pc[i] = "sidecar" /\ pc' = [pc EXCEPT ![i] = "evict then extract"]
              /\ Overtakes(i, TRUE)
           \/ /\ pc[i] = "uploaded" /\ pc' = [pc EXCEPT ![i] = "evict"]
              /\ Overtakes(i, FALSE)
    BY DEF SaveDownload, SaveSidecar, PutSidecar, Goes, fileVars
  <1>3. HostOf[i] \in Hosts /\ etag[i] \in 0 .. saves
    BY <1>1 DEF TypeOK, Assumptions, CacheAssumption
  <1>4. /\ \/ pc[i] = "sidecar" /\ pc'[i] = "evict then extract"
           \/ pc[i] = "uploaded" /\ pc'[i] = "evict"
        /\ version'[i] = version[i] /\ etag'[i] = etag[i]
        /\ made'[i] = made[i] /\ told'[i] = told[i] /\ tries'[i] = tries[i]
        /\ sidecar'[HostOf[i]] = etag[i]
    BY <1>1, <1>2, <1>3 DEF TypeOK
  <1>5. pc' = [pc EXCEPT ![i] = pc'[i]]
    BY <1>1, <1>2 DEF TypeOK
  <1>6. Own(i)
    BY <1>1, <1>2, <1>4, <1>5, Zenon DEF TypeOK, Own
  <1>7. \A h \in Hosts : h # HostOf[i] => archive'[h] = archive[h] /\ sidecar'[h] = sidecar[h]
    BY <1>1, <1>2 DEF TypeOK
  <1>b. /\ overtaken' = overtaken \cup Company(i) /\ i \notin Company(i)
        /\ overtaken' \subseteq {j \in Jobs \ Others : pc'[j] \notin {"idle", "fetch", "staged"}}
        /\ mixed' \subseteq Hosts
        /\ \A h \in Hosts : h # HostOf[i] => (h \in mixed <=> h \in mixed')
        /\ i \in overtaken => HostOf[i] \in mixed'
    BY <1>1, <1>2, <1>3, <1>4, <1>6, OvertakesTypes
  <1>8. TypeOK'
    <2>1. pc' \in [Jobs -> Positions]
      BY <1>1, <1>4, <1>5 DEF TypeOK, Positions
    <2>2. \A k \in Jobs : k # i => pc'[k] = pc[k]
      BY <1>1, <1>6, OwnOnly
    <2>3. evicted \subseteq {j \in Jobs \ Others : pc'[j] # "idle"}
      BY <1>1, <1>4, <2>2 DEF TypeOK
    <2>4. \A j \in Jobs : pc'[j] \in {"downloaded", "sidecar", "send", "sending"} => version[j] # 0
      BY <1>1, <1>4, <2>2 DEF TypeOK
    <2>5. sidecar' \in [Hosts -> 0 .. saves]
      BY <1>1, <1>2, <1>3 DEF TypeOK
    <2> QED
      BY <1>1, <1>2, <1>b, <2>1, <2>3, <2>4, <2>5 DEF TypeOK, Positions
  <1>9. HostInv'
    <2>1. HostOf[i] \notin mixed' /\ archive[HostOf[i]] # 0 /\ object # 0 /\ etag[i] = object =>
            archive[HostOf[i]] >= object
      <3>1. HostOf[i] \notin mixed' /\ Archive(i) # 0 /\ etag[i] # 0 => Archive(i) = etag[i]
        BY <1>1, <1>4, <1>b DEF JobInv, SaveInv, DownloadInv
      <3>2. saves \in Nat
        BY <1>1, SavesIsNat
      <3>3. etag[i] >= etag[i]
        BY ONLY <1>3, <3>2
      <3> QED
        BY <3>1, <3>3 DEF Archive
    <2> QED
      BY <1>1, <1>2, <1>4, <1>7, <1>b, <2>1 DEF HostInv
  <1>10. JobInv(i)'
    BY <1>1, <1>2, <1>4, <1>b DEF JobInv, SaveInv, DownloadInv, RestoreInv, Archive, Sidecar
  <1>11. ASSUME NEW k \in Jobs \ Others PROVE JobInv(k)'
    BY <1>2, <1>6, <1>7, <1>10, <1>b, ElsewhereKeeps
  <1>12. UnsentInv'
    <2>1. \A h \in Hosts : sidecar'[h] \in {0, sidecar[h], etag[i]}
      BY <1>4, <1>7
    <2> QED
      BY <1>2, <1>4, <1>6, <1>b, <2>1, UnsentKeeps DEF Unsent
  <1>13. OthersInv'
    BY <1>6, OthersKeep DEF Assumptions, CacheAssumption
  <1> QED
    BY <1>8, <1>9, <1>11, <1>12, <1>13 DEF IInv

(* A new archive is newer than all there is. *)
LEMMA SaveArchiveKeeps ==
  ASSUME Assumptions, IInv, NEW i \in Jobs \ Others, SaveArchive(i) PROVE IInv'
  <1>1. TypeOK /\ HostInv /\ UnsentInv /\ JobInv(i)
    BY DEF IInv
  <1>2. /\ pc[i] = "staged" /\ pc' = [pc EXCEPT ![i] = "hash"]
        /\ saves < MaxSaves /\ saves' = saves + 1
        /\ made' = [made EXCEPT ![i] = saves']
        /\ archive' = [archive EXCEPT ![HostOf[i]] = saves']
        /\ old' = [old EXCEPT ![HostOf[i]] = FALSE]
        /\ Overtakes(i, TRUE)
        /\ UNCHANGED <<sidecar, object, version, etag, tries, told, evicted>>
    BY DEF SaveArchive, PutArchive, Goes
  <1>3. HostOf[i] \in Hosts /\ saves \in Nat /\ MaxSaves \in Nat
    BY <1>1, SavesIsNat DEF Assumptions, CacheAssumption
  <1>4. /\ pc'[i] = "hash" /\ version'[i] = version[i] /\ etag'[i] = etag[i]
        /\ made'[i] = saves' /\ told'[i] = told[i] /\ tries'[i] = tries[i]
        /\ archive'[HostOf[i]] = saves'
    BY <1>1, <1>2, <1>3 DEF TypeOK
  <1>5. Own(i)
    BY <1>1, <1>2, <1>4, Zenon DEF TypeOK, Own
  <1>6. \A h \in Hosts : h # HostOf[i] => archive'[h] = archive[h] /\ sidecar'[h] = sidecar[h]
    BY <1>1, <1>2 DEF TypeOK
  <1>7. /\ saves' \in 0 .. saves' /\ saves' \in 0 .. MaxSaves /\ saves' # 0
        /\ \A v \in 0 .. saves : v \in 0 .. saves' /\ v # saves' /\ v <= saves' /\ saves' >= v
    BY ONLY <1>2, <1>3
  <1>b. /\ overtaken' = overtaken \cup Company(i) /\ i \notin Company(i)
        /\ overtaken' \subseteq {j \in Jobs \ Others : pc'[j] \notin {"idle", "fetch", "staged"}}
        /\ mixed' \subseteq Hosts
        /\ \A h \in Hosts : h # HostOf[i] => (h \in mixed <=> h \in mixed')
    BY <1>1, <1>2, <1>3, <1>4, <1>5, OvertakesTypes
  <1>8. TypeOK'
    <2>1. \A h \in Hosts : old'[h] => archive'[h] # 0
      BY <1>1, <1>2, <1>4, <1>6, <1>7, Zenon DEF TypeOK
    <2>2. archive' \in [Hosts -> 0 .. saves'] /\ sidecar' \in [Hosts -> 0 .. saves']
      BY <1>1, <1>2, <1>3, <1>7 DEF TypeOK
    <2>3. old' \in [Hosts -> BOOLEAN]
      BY <1>1, <1>2 DEF TypeOK
    <2>4. object' \in 0 .. saves' /\ saves' \in Versions
      BY <1>1, <1>2, <1>7 DEF TypeOK, Versions
    <2>5. pc' \in [Jobs -> Positions]
      BY <1>1, <1>2 DEF TypeOK, Positions
    <2>6. version' \in [Jobs -> 0 .. saves'] /\ etag' \in [Jobs -> 0 .. saves']
      BY <1>1, <1>2, <1>7 DEF TypeOK
    <2>7. made' \in [Jobs -> 0 .. saves'] /\ told' \in [Jobs -> 0 .. saves']
      BY <1>1, <1>2, <1>7 DEF TypeOK
    <2>8. evicted' \subseteq {j \in Jobs \ Others : pc'[j] # "idle"}
      BY <1>1, <1>2, <1>4, <1>5, OwnOnly DEF TypeOK
    <2>9. \A j \in Jobs : pc'[j] \in {"downloaded", "sidecar", "send", "sending"} => version'[j] # 0
      BY <1>1, <1>2, <1>4, <1>5, OwnOnly DEF TypeOK
    <2>10. tries' \in [Jobs -> 0 .. Attempts]
      BY <1>1, <1>2 DEF TypeOK
    <2> QED
      BY <1>b, <2>1, <2>2, <2>3, <2>4, <2>5, <2>6, <2>7, <2>8, <2>9, <2>10 DEF TypeOK, Positions
  <1>9. HostInv'
    BY <1>1, <1>2, <1>4, <1>6, <1>7, <1>b DEF HostInv, TypeOK
  <1>10. JobInv(i)'
    BY <1>4, <1>7 DEF JobInv, SaveInv, DownloadInv, RestoreInv, Archive
  <1>11. ASSUME NEW k \in Jobs \ Others PROVE JobInv(k)'
    BY <1>2, <1>5, <1>6, <1>10, <1>b, ElsewhereKeeps
  <1>12. UnsentInv'
    <2> SUFFICES ASSUME NEW j \in Jobs, j \notin overtaken', Unsent(j)' PROVE Unknown(j)'
      BY DEF UnsentInv
    <2>1. \A k \in Jobs : k # i =>
            /\ pc'[k] = pc[k] /\ made'[k] = made[k] /\ (Unsent(k)' => Unsent(k))
      BY <1>1, <1>5, OwnOnly DEF Unsent
    <2>2. CASE j = i
      <3>1. object # saves' /\ \A h \in Hosts : sidecar[h] # saves'
        BY <1>1, <1>7 DEF TypeOK
      <3>2. \A k \in Jobs :
              etag[k] # saves' /\ version[k] # saves' /\ (k # i => made[k] # saves')
        BY <1>1, <1>7 DEF TypeOK
      <3> QED
        BY <1>2, <1>4, <2>1, <2>2, <3>1, <3>2 DEF Unknown
    <2>3. CASE j # i
      <3>1. Unknown(j)
        BY <1>1, <1>b, <2>1, <2>3 DEF UnsentInv
      <3>2. made[j] # saves'
        BY <1>1, <1>7 DEF TypeOK
      <3> QED
        BY <1>2, <1>4, <2>1, <2>3, <3>1, <3>2 DEF Unknown
    <2> QED
      BY <2>2, <2>3
  <1>13. OthersInv'
    BY <1>5, OthersKeep DEF Assumptions, CacheAssumption
  <1> QED
    BY <1>8, <1>9, <1>11, <1>12, <1>13 DEF IInv

(* Nobody knows the ETag of the object before this; or the job that puts it  *)
(* was overtaken, and the hosts that know it are mixed.                      *)
LEMMA PutKeeps ==
  ASSUME Assumptions, IInv, NEW i \in Jobs \ Others, PutObject(i) \/ PutFails(i)
  PROVE  IInv'
  <1>1. TypeOK /\ HostInv /\ UnsentInv /\ OthersInv /\ JobInv(i)
    BY DEF IInv
  <1>2. /\ Unsent(i)
        /\ \/ object' = object /\ mixed' = mixed
           \/ pc[i] = "sending" /\ Stores(i)
        /\ UNCHANGED <<archive, sidecar, old, saves, version, made, tries, told, evicted, overtaken>>
    BY DEF PutObject, PutFails, Unsent, hostVars, fileVars
  <1>3. \/ pc[i] = "sending" /\ pc' = [pc EXCEPT ![i] = "uploaded"]
           /\ \E e \in {0, version[i]} : etag' = [etag EXCEPT ![i] = e]
        \/ pc' = [pc EXCEPT ![i] = "evict"] /\ etag' = etag
    BY DEF PutObject, PutFails, Goes, fileVars
  <1>4. /\ \/ pc[i] = "sending" /\ pc'[i] = "uploaded" /\ etag'[i] \in {0, version[i]}
           \/ pc'[i] = "evict" /\ etag'[i] = etag[i]
        /\ version'[i] = version[i] /\ made'[i] = made[i]
        /\ told'[i] = told[i] /\ tries'[i] = tries[i]
    BY <1>1, <1>2, <1>3 DEF TypeOK
  <1>5. pc' = [pc EXCEPT ![i] = pc'[i]] /\ etag' = [etag EXCEPT ![i] = etag'[i]]
    BY <1>1, <1>3 DEF TypeOK
  <1>6. Own(i)
    BY <1>1, <1>2, <1>4, <1>5, Zenon DEF TypeOK, Own
  <1>7. i \notin overtaken =>
          /\ made[i] # 0 /\ (pc[i] = "sending" => version[i] = made[i])
          /\ Unknown(i)
    BY <1>1, <1>2 DEF JobInv, SaveInv, Unsent, UnsentInv
  <1>a. /\ object' = object \/ (pc[i] = "sending" /\ object' = version[i])
        /\ mixed \subseteq mixed' /\ mixed' \subseteq Hosts
    <2>1. mixed \subseteq Hosts
      BY <1>1 DEF TypeOK
    <2>2. Known(version[i]) \subseteq Hosts
      BY DEF Known
    <2>3. \/ object' = object /\ mixed' = mixed
          \/ /\ pc[i] = "sending" /\ object' = version[i]
             /\ mixed' = mixed \cup (IF i \in overtaken THEN Known(version[i]) ELSE {})
      BY <1>2 DEF Stores
    <2> QED
      BY <2>1, <2>2, <2>3
  <1>b. object' # object => \A h \in Hosts : h \notin mixed' =>
          sidecar[h] # object' /\ \A k \in Jobs : HostOf[k] = h => etag[k] # object'
    <2>1. CASE i \in overtaken
      BY <1>2, <2>1 DEF Stores, Known
    <2>2. CASE i \notin overtaken
      BY <1>2, <1>7, <2>2 DEF Stores, Unknown
    <2> QED
      BY <2>1, <2>2
  <1>8. TypeOK'
    <2>1. version[i] \in 0 .. saves /\ etag[i] \in 0 .. saves /\ 0 \in 0 .. saves
      BY <1>1, SavesIsNat DEF TypeOK
    <2>2. object' \in 0 .. saves /\ etag'[i] \in 0 .. saves
      BY <1>1, <1>a, <1>4, <2>1 DEF TypeOK
    <2>3. etag' \in [Jobs -> 0 .. saves] /\ pc' \in [Jobs -> Positions]
      BY <1>1, <1>4, <1>5, <2>2 DEF TypeOK, Positions
    <2>4. \A k \in Jobs : k # i => pc'[k] = pc[k]
      BY <1>1, <1>6, OwnOnly
    <2>5. evicted \subseteq {j \in Jobs \ Others : pc'[j] # "idle"}
      BY <1>1, <1>4, <2>4 DEF TypeOK
    <2>6. \A j \in Jobs : pc'[j] \in {"downloaded", "sidecar", "send", "sending"} => version[j] # 0
      BY <1>1, <1>4, <2>4 DEF TypeOK
    <2>7. overtaken \subseteq {j \in Jobs \ Others : pc'[j] \notin {"idle", "fetch", "staged"}}
      BY <1>1, <1>4, <2>4 DEF TypeOK
    <2> QED
      BY <1>1, <1>2, <1>a, <2>2, <2>3, <2>5, <2>6, <2>7 DEF TypeOK, Positions
  <1>9. HostInv'
    BY <1>1, <1>2, <1>a, <1>b DEF HostInv
  <1>10. JobInv(i)'
    <2>1. i \notin overtaken /\ pc'[i] = "uploaded" =>
            made'[i] # 0 /\ Archive(i)' \in {0, made'[i]} /\ etag'[i] \in {0, made'[i]}
      BY <1>1, <1>2, <1>4, <1>7 DEF JobInv, SaveInv, Archive
    <2> QED
      BY <1>2, <1>4, <2>1 DEF JobInv, SaveInv, DownloadInv, RestoreInv
  <1>11. ASSUME NEW k \in Jobs \ Others PROVE JobInv(k)'
    <2>1. CASE k = i
      BY <1>10, <2>1
    <2>2. CASE k # i
      <3>1. JobInv(k) /\ HostOf[k] \in Hosts
        BY DEF IInv, Assumptions, CacheAssumption
      <3>2. /\ pc'[k] = pc[k] /\ version'[k] = version[k] /\ etag'[k] = etag[k]
            /\ made'[k] = made[k] /\ told'[k] = told[k]
        BY <1>1, <1>6, <2>2, OwnOnly
      <3>3. \/ object' = object
            \/ object' # sidecar[HostOf[k]] /\ object' # etag[k]
            \/ HostOf[k] \in mixed'
        BY <1>b, <3>1
      <3> QED
        BY <1>1, <1>2, <1>a, <3>1, <3>2, <3>3, JobFrame
    <2> QED
      BY <2>1, <2>2
  <1>12. UnsentInv'
    <2> SUFFICES ASSUME NEW j \in Jobs, j \notin overtaken, Unsent(j)' PROVE Unknown(j)'
      BY <1>2 DEF UnsentInv
    <2>1. j # i
      BY <1>4 DEF Unsent
    <2>2. \A k \in Jobs : k # i =>
            pc'[k] = pc[k] /\ (Unsent(k)' => Unsent(k)) /\ etag'[k] = etag[k]
      BY <1>1, <1>6, OwnOnly DEF Unsent
    <2>3. ~Unsent(i)'
      BY <1>4 DEF Unsent
    <2>4. Unsent(j) /\ Unknown(j)
      BY <1>1, <2>1, <2>2 DEF UnsentInv
    <2>5. made[j] # 0 /\ etag[i] # made[j] /\ (pc[i] = "sending" => version[i] # made[j])
      BY <1>1, <1>2, <2>1, <2>4 DEF Unknown, OthersInv, Unsent, IInv, JobInv, SaveInv
    <2>6. object' # made[j] /\ etag'[i] # made[j]
      BY <1>4, <1>a, <2>4, <2>5 DEF Unknown
    <2> QED
      BY <1>2, <2>2, <2>3, <2>4, <2>6 DEF Unknown
  <1>13. OthersInv'
    BY <1>6, OthersKeep DEF Assumptions, CacheAssumption
  <1> QED
    BY <1>8, <1>9, <1>11, <1>12, <1>13 DEF IInv

-----------------------------------------------------------------------------
(* Eviction, and the environment.                                          *)

LEMMA RemoveArchiveKeeps ==
  ASSUME Assumptions, IInv, NEW i \in Jobs, RemoveArchive(i) PROVE IInv'
  <1>1. TypeOK /\ HostInv /\ \A j \in Jobs \ Others : JobInv(j)
    BY DEF IInv
  <1>2. /\ pc[i] = "remove" /\ pc' = [pc EXCEPT ![i] = "remove sidecar"]
        /\ archive' = [archive EXCEPT ![HostOf[i]] = 0]
        /\ old' = [old EXCEPT ![HostOf[i]] = FALSE]
        /\ evicted' = evicted \cup {k \in Jobs \ Others : HostOf[k] = HostOf[i] /\ pc[k] # "idle"}
        /\ UNCHANGED <<sidecar, object, saves, version, etag, made, tries, told, overtaken, mixed>>
    BY DEF RemoveArchive, PutArchive, Goes, company
  <1>3. HostOf[i] \in Hosts /\ 0 \in 0 .. saves
    BY <1>1, SavesIsNat DEF Assumptions, CacheAssumption
  <1>4. /\ pc'[i] = "remove sidecar" /\ version'[i] = version[i] /\ etag'[i] = etag[i]
        /\ made'[i] = made[i] /\ told'[i] = told[i] /\ tries'[i] = tries[i]
        /\ archive'[HostOf[i]] = 0
    BY <1>1, <1>2, <1>3 DEF TypeOK
  <1>5. Own(i)
    BY <1>1, <1>2, <1>4, Zenon DEF TypeOK, Own
  <1>6. \A h \in Hosts : h # HostOf[i] => archive'[h] = archive[h]
    BY <1>1, <1>2 DEF TypeOK
  <1>7. TypeOK'
    <2>1. \A h \in Hosts : h # HostOf[i] => old'[h] = old[h]
      BY <1>1, <1>2, Zenon DEF TypeOK
    <2>2. ~old'[HostOf[i]]
      BY <1>1, <1>2, <1>3, Zenon DEF TypeOK
    <2>3. \A h \in Hosts : old'[h] => archive'[h] # 0
      BY <1>1, <1>6, <2>1, <2>2 DEF TypeOK
    <2>4. archive' \in [Hosts -> 0 .. saves]
      BY <1>1, <1>2, <1>3 DEF TypeOK
    <2>5. old' \in [Hosts -> BOOLEAN]
      BY <1>1, <1>2 DEF TypeOK
    <2>6. pc' \in [Jobs -> Positions]
      BY <1>1, <1>2 DEF TypeOK, Positions
    <2>7. \A k \in Jobs : k # i => pc'[k] = pc[k]
      BY <1>1, <1>5, OwnOnly
    <2>8. evicted' \subseteq {j \in Jobs \ Others : pc'[j] # "idle"}
      BY <1>1, <1>2, <1>4, <2>7 DEF TypeOK
    <2>9. \A j \in Jobs : pc'[j] \in {"downloaded", "sidecar", "send", "sending"} => version[j] # 0
      BY <1>1, <1>4, <2>7 DEF TypeOK
    <2>10. overtaken \subseteq {j \in Jobs \ Others : pc'[j] \notin {"idle", "fetch", "staged"}}
      BY <1>1, <1>4, <2>7 DEF TypeOK
    <2> QED
      BY <1>1, <1>2, <2>3, <2>4, <2>5, <2>6, <2>8, <2>9, <2>10 DEF TypeOK, Positions
  <1>8. HostInv'
    BY <1>1, <1>2, <1>4, <1>6 DEF HostInv
  <1>9. ASSUME NEW k \in Jobs \ Others PROVE JobInv(k)'
    <2>1. CASE k = i
      BY <1>4, <2>1 DEF JobInv, SaveInv, DownloadInv, RestoreInv
    <2>2. CASE k # i
      <3>1. /\ pc'[k] = pc[k] /\ version'[k] = version[k] /\ etag'[k] = etag[k]
            /\ made'[k] = made[k] /\ told'[k] = told[k]
        BY <1>1, <1>5, <2>2, OwnOnly
      <3>2. HostOf[k] \in Hosts
        BY DEF Assumptions, CacheAssumption
      <3>3. \/ archive'[HostOf[k]] = archive[HostOf[k]]
            \/ archive'[HostOf[k]] = 0 /\ (InUse(k) => k \in evicted')
        BY <1>2, <1>4, <1>6, <3>2 DEF InUse
      <3>4. k \in evicted => k \in evicted'
        BY <1>2
      <3> QED
        BY <1>1, <1>2, <3>1, <3>3, <3>4, JobFrame
    <2> QED
      BY <2>1, <2>2
  <1>10. UnsentInv'
    BY <1>2, <1>4, <1>5, UnsentKeeps DEF Unsent
  <1>11. OthersInv'
    BY <1>4, <1>5, OthersKeep DEF Assumptions, CacheAssumption
  <1> QED
    BY <1>7, <1>8, <1>9, <1>10, <1>11 DEF IInv

LEMMA RemoveSidecarKeeps ==
  ASSUME Assumptions, IInv, NEW i \in Jobs, RemoveSidecar(i) PROVE IInv'
  <1>1. TypeOK
    BY DEF IInv
  <1>2. Done(i) /\ sidecar' = [sidecar EXCEPT ![HostOf[i]] = 0] /\ UNCHANGED <<archive, old, object, saves>>
    BY DEF RemoveSidecar, PutSidecar
  <1>3. sidecar' \in [Hosts -> 0 .. saves] /\ \A g \in Hosts : sidecar'[g] \in {0, sidecar[g]}
    BY <1>1, <1>2, SavesIsNat DEF TypeOK
  <1> QED
    BY <1>2, <1>3, DoneKeeps

(* All jobs of a host are gone at once. *)
LEMMA KillKeeps ==
  ASSUME Assumptions, IInv, NEW h \in Hosts, Kill(h) PROVE IInv'
  <1>1. TypeOK /\ HostInv /\ UnsentInv /\ OthersInv /\ \A j \in Jobs \ Others : JobInv(j)
    BY DEF IInv
  <1>2. /\ pc' = [j \in Jobs |-> IF HostOf[j] = h THEN "idle" ELSE pc[j]]
        /\ evicted' = {j \in evicted : HostOf[j] # h}
        /\ overtaken' = {j \in overtaken : HostOf[j] # h}
        /\ UNCHANGED <<archive, sidecar, old, object, saves, mixed>>
    BY DEF Kill, hostVars
  <1>3. /\ version' = [j \in Jobs |-> IF HostOf[j] = h THEN 0 ELSE version[j]]
        /\ etag' = [j \in Jobs |-> IF HostOf[j] = h THEN 0 ELSE etag[j]]
        /\ made' = [j \in Jobs |-> IF HostOf[j] = h THEN 0 ELSE made[j]]
        /\ tries' = [j \in Jobs |-> IF HostOf[j] = h THEN 0 ELSE tries[j]]
        /\ told' = [j \in Jobs |-> IF HostOf[j] = h THEN 0 ELSE told[j]]
    BY DEF Kill
  <1>4. \A j \in Jobs : HostOf[j] = h => pc'[j] = "idle" /\ etag'[j] = 0
    BY <1>2, <1>3
  <1>5. \A j \in Jobs : HostOf[j] # h =>
          /\ pc'[j] = pc[j] /\ version'[j] = version[j] /\ etag'[j] = etag[j]
          /\ made'[j] = made[j] /\ told'[j] = told[j]
    BY <1>2, <1>3
  <1>6. TypeOK'
    <2>1. 0 \in 0 .. saves /\ 0 \in 0 .. Attempts
      BY <1>1, SavesIsNat DEF Assumptions, CacheAssumption
    <2>2. pc' \in [Jobs -> Positions]
      BY <1>1, <1>2 DEF TypeOK, Positions
    <2>3. version' \in [Jobs -> 0 .. saves] /\ etag' \in [Jobs -> 0 .. saves]
      BY <1>1, <1>3, <2>1 DEF TypeOK
    <2>4. made' \in [Jobs -> 0 .. saves] /\ told' \in [Jobs -> 0 .. saves]
      BY <1>1, <1>3, <2>1 DEF TypeOK
    <2>5. tries' \in [Jobs -> 0 .. Attempts]
      BY <1>1, <1>3, <2>1 DEF TypeOK
    <2>6. evicted' \subseteq {j \in Jobs \ Others : pc'[j] # "idle"}
      BY <1>1, <1>2 DEF TypeOK
    <2>7. \A j \in Jobs : pc'[j] \in {"downloaded", "sidecar", "send", "sending"} => version'[j] # 0
      BY <1>1, <1>4, <1>5 DEF TypeOK
    <2>8. overtaken' \subseteq {j \in Jobs \ Others : pc'[j] \notin {"idle", "fetch", "staged"}}
      BY <1>1, <1>2 DEF TypeOK
    <2> QED
      BY <1>1, <1>2, <2>2, <2>3, <2>4, <2>5, <2>6, <2>7, <2>8 DEF TypeOK, Positions
  <1>7. HostInv'
    BY <1>1, <1>2 DEF HostInv
  <1>8. ASSUME NEW k \in Jobs \ Others PROVE JobInv(k)'
    <2>1. CASE HostOf[k] = h
      BY <1>4, <2>1 DEF JobInv, SaveInv, DownloadInv, RestoreInv
    <2>2. CASE HostOf[k] # h
      BY <1>1, <1>2, <1>5, <2>2, JobFrame
    <2> QED
      BY <2>1, <2>2
  <1>9. UnsentInv'
    <2> SUFFICES ASSUME NEW j \in Jobs, j \notin overtaken', Unsent(j)' PROVE Unknown(j)'
      BY DEF UnsentInv
    <2>1. \A k \in Jobs : Unsent(k)' =>
            /\ Unsent(k) /\ HostOf[k] # h
            /\ made'[k] = made[k] /\ version'[k] = version[k] /\ pc'[k] = pc[k]
      BY <1>4, <1>5 DEF Unsent
    <2>2. j \notin overtaken /\ Unsent(j) /\ Unknown(j) /\ made'[j] = made[j]
      BY <1>1, <1>2, <2>1 DEF UnsentInv
    <2>3. made[j] # 0
      BY <1>1, <2>2 DEF OthersInv, Unsent, JobInv, SaveInv
    <2>4. \A k \in Jobs : etag'[k] # made[j]
      BY <1>4, <1>5, <2>2, <2>3 DEF Unknown
    <2> QED
      BY <1>2, <2>1, <2>2, <2>4 DEF Unknown
  <1>10. OthersInv'
    BY <1>1, <1>4, <1>5 DEF OthersInv, Assumptions, CacheAssumption
  <1> QED
    BY <1>6, <1>7, <1>8, <1>9, <1>10 DEF IInv

(* An archive gets old, or the object expires. *)
LEMMA TimeKeeps ==
  ASSUME Assumptions, IInv, (\E h \in Hosts : Age(h)) \/ Expire PROVE IInv'
  <1>1. TypeOK /\ HostInv /\ UnsentInv /\ OthersInv /\ \A j \in Jobs \ Others : JobInv(j)
    BY DEF IInv
  <1>2. /\ UNCHANGED <<archive, sidecar, saves, pc, version, etag, made, tries, told, evicted, overtaken, mixed>>
        /\ object' \in {0, object}
    BY DEF Age, Expire, hostVars, jobVars, fileVars, company
  <1>3. TypeOK'
    <2>1. old' \in [Hosts -> BOOLEAN] /\ \A h \in Hosts : old'[h] => archive[h] # 0
      <3>1. CASE \E h \in Hosts : Age(h)
        <4>1. PICK h \in Hosts : archive[h] # 0 /\ old' = [old EXCEPT ![h] = TRUE]
          BY <3>1 DEF Age
        <4> QED
          BY <1>1, <4>1, Zenon DEF TypeOK
      <3>2. CASE Expire
        BY <1>1, <3>2, Zenon DEF TypeOK, Expire, hostVars
      <3> QED
        BY <3>1, <3>2
    <2>2. object' \in 0 .. saves
      BY <1>1, <1>2, SavesIsNat DEF TypeOK
    <2> QED
      BY <1>1, <1>2, <2>1, <2>2 DEF TypeOK
  <1>4. HostInv'
    BY <1>1, <1>2 DEF HostInv
  <1>5. ASSUME NEW k \in Jobs \ Others PROVE JobInv(k)'
    BY <1>1, <1>2, JobFrame
  <1>6. UnsentInv'
    <2> SUFFICES ASSUME NEW j \in Jobs, j \notin overtaken, Unsent(j)' PROVE Unknown(j)'
      BY <1>2 DEF UnsentInv
    <2>1. Unsent(j) /\ Unknown(j)
      BY <1>1, <1>2 DEF UnsentInv, Unsent
    <2>2. made[j] # 0
      BY <1>1, <2>1 DEF OthersInv, Unsent, JobInv, SaveInv
    <2> QED
      BY <1>2, <2>1, <2>2 DEF Unknown, Unsent
  <1>7. OthersInv'
    BY <1>1, <1>2 DEF OthersInv
  <1> QED
    BY <1>3, <1>4, <1>5, <1>6, <1>7 DEF IInv

-----------------------------------------------------------------------------
LEMMA JobStepKeeps ==
  ASSUME Assumptions, IInv, NEW i \in Jobs \ Others, Restore(i) \/ SaveCache(i)
  PROVE  IInv'
  <1>1. CASE \/ StartRestore(i) \/ Fetch(i) \/ GetNothing(i) \/ GetObject(i) \/ GetFails(i)
             \/ EvictThenExtract(i) \/ Touch(i) \/ StartSave(i) \/ HashArchive(i) \/ OpenArchive(i)
    BY <1>1, StartRestoreKeeps, FetchKeeps, GetNothingKeeps, GetObjectKeeps, GetFailsKeeps,
       EvictThenExtractKeeps, TouchKeeps, StartSaveKeeps, HashArchiveKeeps, OpenArchiveKeeps
  <1>2. CASE Miss(i) \/ Extract(i)
    BY <1>2, LeaveKeeps DEF Miss, Extract
  <1>3. CASE ExtractFails(i)
    BY <1>3, ExtractFailsKeeps
  <1>4. CASE SaveDownload(i)
    <2>1. pc[i] = "downloaded" \/ pc[i] = "sidecar"
      BY <1>4 DEF SaveDownload
    <2> QED
      BY <1>4, <2>1, PutDownloadKeeps, PutSidecarKeeps
  <1>5. CASE SaveSidecar(i)
    BY <1>5, PutSidecarKeeps
  <1>6. CASE SaveArchive(i)
    BY <1>6, SaveArchiveKeeps
  <1>7. CASE PutObject(i) \/ PutFails(i)
    BY <1>7, PutKeeps
  <1> QED
    BY <1>1, <1>2, <1>3, <1>4, <1>5, <1>6, <1>7 DEF Restore, SaveCache

LEMMA NextKeeps == ASSUME Assumptions, IInv, [Next]_vars PROVE IInv'
  <1>1. ASSUME NEW i \in Jobs \ Others, Restore(i) \/ SaveCache(i) PROVE IInv'
    BY <1>1, JobStepKeeps
  <1>2. ASSUME NEW i \in Others, StartOther(i) PROVE IInv'
    BY <1>2, StartOtherKeeps
  <1>3. ASSUME NEW i \in Jobs, Evicting(i) PROVE IInv'
    BY <1>3, EvictKeeps, RemoveArchiveKeeps, RemoveSidecarKeeps DEF Evicting
  <1>4. ASSUME NEW i \in Jobs, Drop(i) PROVE IInv'
    BY <1>4, LeaveKeeps DEF Drop
  <1>5. ASSUME NEW h \in Hosts, Kill(h) PROVE IInv'
    BY <1>5, KillKeeps
  <1>6. CASE (\E h \in Hosts : Age(h)) \/ Expire
    BY <1>6, TimeKeeps
  <1>7. CASE UNCHANGED vars
    <2>1. UNCHANGED <<archive, sidecar, old, object, saves, pc, version, etag, made, tries, told, evicted, overtaken, mixed>>
      BY <1>7 DEF vars, hostVars, jobVars, fileVars, company
    <2>2. TypeOK'
      BY <2>1 DEF IInv, TypeOK
    <2>3. HostInv' /\ UnsentInv' /\ OthersInv'
      BY <2>1 DEF IInv, HostInv, UnsentInv, Unknown, Unsent, OthersInv
    <2>4. \A j \in Jobs \ Others : JobInv(j)'
      BY <2>1 DEF IInv, JobInv, SaveInv, DownloadInv, RestoreInv, Archive, Sidecar
    <2> QED
      BY <2>2, <2>3, <2>4 DEF IInv
  <1> QED
    BY <1>1, <1>2, <1>3, <1>4, <1>5, <1>6, <1>7 DEF Next

(* The inductive invariant holds in every state of a run. *)
THEOREM Invariant == ASSUME Assumptions PROVE Spec => []IInv
  <1>1. Init => IInv
    BY InitIInv
  <1>2. IInv /\ [Next]_vars => IInv'
    BY NextKeeps
  <1> QED
    BY <1>1, <1>2, PTL DEF Spec

(* Types: what is in hand, on a host or in S3 is an archive that some save   *)
(* made.                                                                     *)
THEOREM TypeCorrect == ASSUME Assumptions PROVE Spec => []TypeOK
  <1>1. IInv => TypeOK
    BY DEF IInv
  <1> QED
    BY <1>1, Invariant, PTL

(* A host that is not mixed never has an ETag that S3 would answer with 304  *)
(* beside an archive that is older than the object, whatever was dropped,    *)
(* killed, evicted or failed to upload before.                               *)
THEOREM NotModifiedCurrent == ASSUME Assumptions PROVE Spec => []NotModifiedIsCurrent
  <1>1. IInv => NotModifiedIsCurrent
    BY DEF IInv, HostInv, NotModifiedIsCurrent, CurrentOn
  <1> QED
    BY <1>1, Invariant, PTL

LEMMA ExtractsCurrent == ASSUME Assumptions, IInv, [Next]_vars PROVE RestoresCurrent
  <1> SUFFICES ASSUME NEW j \in Jobs, j \notin evicted, j \notin overtaken, HostOf[j] \notin mixed
               PROVE  (Miss(j) => told[j] = 0) /\ (Extract(j) => Archive(j) >= told[j])
    BY DEF RestoresCurrent
  <1>1. TypeOK
    BY DEF IInv
  <1>2. CASE j \in Others
    BY <1>2 DEF IInv, OthersInv, Miss, Extract
  <1>3. CASE j \notin Others
    <2>1. RestoreInv(j)
      BY <1>3 DEF IInv, JobInv
    <2>2. Miss(j) => told[j] = 0
      BY <2>1 DEF RestoreInv, Miss
    <2>3. CASE told[j] # 0
      BY <2>1, <2>2, <2>3 DEF RestoreInv, Extract
    <2>4. CASE told[j] = 0
      <3>1. saves \in Nat /\ Archive(j) \in 0 .. saves
        BY <1>1, SavesIsNat DEF TypeOK, Archive, Assumptions, CacheAssumption
      <3>2. Archive(j) >= told[j]
        BY ONLY <2>4, <3>1
      <3> QED
        BY <2>2, <3>2
    <2> QED
      BY <2>2, <2>3, <2>4
  <1> QED
    BY <1>2, <1>3

(* A restore that S3 answered extracts an archive, and none older than what  *)
(* S3 held then: of a job that was not overtaken, on a host that is not      *)
(* mixed, unless another job evicts it while it restores.                    *)
THEOREM RestoresAreCurrent == ASSUME Assumptions PROVE Spec => RestoredIsCurrent
  <1>1. IInv /\ [Next]_vars => [RestoresCurrent]_vars
    BY ExtractsCurrent
  <1> QED
    BY <1>1, Invariant, PTL DEF Spec, RestoredIsCurrent

LEMMA UploadIsSaved ==
  ASSUME Assumptions, IInv, [Next]_vars PROVE [UploadsSaved]_vars
  <1>1. TypeOK
    BY DEF IInv
  <1> SUFFICES ASSUME NEW j \in Jobs, j \notin overtaken, pc[j] # "uploaded", pc'[j] = "uploaded"
               PROVE  object' >= made[j]
    BY DEF UploadsSaved, UploadsOf
  <1>2. ASSUME NEW i \in Jobs, PutObject(i), i \notin Others PROVE object' >= made[j]
    <2>1. pc[i] = "sending" /\ object' = version[i] /\ pc' = [pc EXCEPT ![i] = "uploaded"]
      BY <1>2 DEF PutObject, Stores, Goes
    <2>2. j = i
      BY <1>1, <2>1 DEF TypeOK
    <2>3. object' = made[i]
      BY <1>2, <2>1, <2>2 DEF IInv, JobInv, SaveInv
    <2>4. made[i] \in 0 .. saves /\ saves \in Nat
      BY <1>1, SavesIsNat DEF TypeOK
    <2> QED
      BY ONLY <2>2, <2>3, <2>4
  <1>3. ASSUME NEW i \in Jobs, NEW next \in Positions \ {"uploaded"}, pc' = [pc EXCEPT ![i] = next]
        PROVE FALSE
    BY <1>1, <1>3 DEF TypeOK
  <1>4. ASSUME NEW i \in Jobs, Done(i) PROVE FALSE
    BY <1>3, <1>4 DEF Done, Goes, Positions
  <1>5. ASSUME NEW i \in Jobs \ Others, Restore(i) PROVE FALSE
    <2>1. CASE \/ StartRestore(i) \/ Fetch(i) \/ GetNothing(i) \/ GetObject(i) \/ GetFails(i)
               \/ SaveDownload(i) \/ EvictThenExtract(i) \/ Touch(i)
      <3>1. PICK next \in Positions \ {"uploaded"} : pc' = [pc EXCEPT ![i] = next]
        BY <2>1 DEF StartRestore, Fetch, GetNothing, GetObject, GetFails, SaveDownload,
           EvictThenExtract, Touch, Goes, Positions
      <3> QED
        BY <1>3, <3>1
    <2>2. CASE Miss(i) \/ Extract(i)
      BY <1>4, <2>2 DEF Miss, Extract
    <2>3. CASE ExtractFails(i)
      <3>1. Done(i) \/ pc' = [pc EXCEPT ![i] = "fetch"]
        BY <2>3 DEF ExtractFails, Goes
      <3> QED
        BY <1>3, <1>4, <3>1 DEF Positions
    <2> QED
      BY <1>5, <2>1, <2>2, <2>3 DEF Restore
  <1>6. ASSUME NEW i \in Jobs \ Others, SaveCache(i), ~PutObject(i) PROVE FALSE
    <2>1. PICK next \in Positions \ {"uploaded"} : pc' = [pc EXCEPT ![i] = next]
      BY <1>6 DEF SaveCache, StartSave, SaveArchive, HashArchive, OpenArchive, PutFails,
         SaveSidecar, Goes, Positions
    <2> QED
      BY <1>3, <2>1
  <1>7. ASSUME NEW i \in Others, StartOther(i) PROVE FALSE
    <2>1. i \in Jobs /\ pc' = [pc EXCEPT ![i] = "evict"]
      BY <1>7 DEF StartOther, Goes, Assumptions, CacheAssumption
    <2> QED
      BY <1>3, <2>1 DEF Positions
  <1>8. ASSUME NEW i \in Jobs, Evicting(i) \/ Drop(i) PROVE FALSE
    <2>1. \/ Done(i) \/ pc' = [pc EXCEPT ![i] = "remove"]
          \/ pc' = [pc EXCEPT ![i] = "remove sidecar"]
      BY <1>8 DEF Evicting, Evict, RemoveArchive, RemoveSidecar, Drop, Goes
    <2> QED
      BY <1>3, <1>4, <2>1 DEF Positions
  <1>9. ASSUME NEW h \in Hosts, Kill(h) PROVE FALSE
    BY <1>9 DEF Kill
  <1>10. CASE (\E h \in Hosts : Age(h)) \/ Expire \/ UNCHANGED vars
    BY <1>10 DEF Age, Expire, vars
  <1> QED
    BY <1>2, <1>5, <1>6, <1>7, <1>8, <1>9, <1>10 DEF Next

(* "Saved archives are written locally and uploaded": when the log says that *)
(* the cache of a job that was not overtaken was uploaded, S3 took the       *)
(* archive this job made, or has a newer one.                                *)
THEOREM SavesAreUploaded == ASSUME Assumptions PROVE Spec => SavedIsUploaded
  <1>1. IInv /\ [Next]_vars => [UploadsSaved]_vars
    BY UploadIsSaved
  <1> QED
    BY <1>1, Invariant, PTL DEF Spec, SavedIsUploaded

=============================================================================
