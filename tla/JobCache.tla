------------------------------ MODULE JobCache ------------------------------
(***************************************************************************)
(* The job cache: LocalCache of src/runner_daemon/job_cache.rs with an S3  *)
(* bucket behind it, as restore and upload_cache of mod.rs use it.         *)
(*                                                                         *)
(* One cache key.  On each host the archive and its sidecar, which holds   *)
(* the ETag of the S3 object the archive stands for, are two files,        *)
(* replaced one after the other.  Archives are numbered in the order they  *)
(* are put in place (0: none), and the ETag of an object is its number.    *)
(* Jobs run one after another on a host, or together; each may be dropped  *)
(* at any await (canceled, timed out), and its host may be killed.         *)
(*                                                                         *)
(* Nothing keeps two jobs of the key on one host apart, and what the code  *)
(* promises fails then (divergences 9 and 10 of the README).  Two history  *)
(* variables say exactly when: a job is overtaken when another one writes  *)
(* the files it counts on, and a host is mixed when such a job has written *)
(* there, or has put an object back into S3 whose ETag the host knows.     *)
(***************************************************************************)
EXTENDS Naturals

CONSTANTS
    Hosts,
    Jobs,
    Others,             \* the jobs with a cache of another key
    HostOf,             \* where a job runs
    MaxSaves,           \* archives made (a bound)
    Attempts            \* RESTORE_CACHE_ATTEMPTS

CacheAssumption ==
    /\ HostOf \in [Jobs -> Hosts] /\ Others \subseteq Jobs
    /\ MaxSaves \in Nat /\ Attempts \in Nat \ {0}

VARIABLES
    archive,            \* per host, <key>.zip
    sidecar,            \* per host, <key>.zip.etag
    old,                \* per host, the archive was not used for max_age
    object,             \* the archive in S3
    saves,              \* archives made so far
    pc,
    version,            \* the archive the job has in hand: downloaded,
                        \* hashed, being uploaded
    etag,               \* the ETag the job sends, or is to write
    made,               \* the archive its save made
    tries,
    told,               \* what S3 held when it answered the restore (history)
    evicted,            \* jobs whose archive was evicted under them (history)
    overtaken,          \* jobs under which another job of the key wrote the
                        \* archive or its sidecar (history)
    mixed               \* hosts with an archive and a sidecar of two jobs
                        \* (history)

hostVars == <<archive, sidecar, old>>
company  == <<overtaken, mixed>>
fileVars == <<version, etag, made, tries, told, evicted>>
jobVars  == <<fileVars, company>>
vars == <<hostVars, object, saves, pc, jobVars>>

Versions == 0 .. MaxSaves

Init ==
    /\ archive = [h \in Hosts |-> 0] /\ sidecar = [h \in Hosts |-> 0]
    /\ old = [h \in Hosts |-> FALSE]
    /\ object = 0 /\ saves = 0
    /\ pc = [j \in Jobs |-> "idle"]
    /\ version = [j \in Jobs |-> 0] /\ etag = [j \in Jobs |-> 0]
    /\ made = [j \in Jobs |-> 0] /\ tries = [j \in Jobs |-> 0]
    /\ told = [j \in Jobs |-> 0] /\ evicted = {}
    /\ overtaken = {} /\ mixed = {}

-----------------------------------------------------------------------------

Archive(j) == archive[HostOf[j]]
Sidecar(j) == sidecar[HostOf[j]]
Goes(j, next) == pc' = [pc EXCEPT ![j] = next]
Has(j, v) == version' = [version EXCEPT ![j] = v]

(* persist: a rename, so that a reader has the old file or the new one. *)
PutArchive(j, v) ==
    /\ archive' = [archive EXCEPT ![HostOf[j]] = v]
    /\ old' = [old EXCEPT ![HostOf[j]] = FALSE]
PutSidecar(j, v) == sidecar' = [sidecar EXCEPT ![HostOf[j]] = v]

(* Jobs of the key that j meets in the cache of its host: what they read or  *)
(* wrote there is not what they will find.                                  *)
InUse(k) == pc[k] \notin {"idle", "fetch", "staged", "evict", "remove", "remove sidecar"}
Company(j) == {k \in Jobs \ (Others \cup {j}) : HostOf[k] = HostOf[j] /\ InUse(k)}

(* j writes a file of its host; whole when both files are its own then.      *)
Overtakes(j, whole) ==
    /\ overtaken' = overtaken \cup Company(j)
    /\ mixed' = IF j \in overtaken THEN mixed \cup {HostOf[j]}
                ELSE IF whole THEN mixed \ {HostOf[j]} ELSE mixed

(* The archive j made is not in S3 yet. *)
Unsent(j) == pc[j] \in {"hash", "send", "sending"}

(* Hosts that know the ETag of v. *)
Known(v) ==
    {h \in Hosts : sidecar[h] = v \/ \E k \in Jobs : HostOf[k] = h /\ etag[k] = v}

(* The job is done with the cache: nothing of it is kept. *)
Done(j) ==
    /\ Goes(j, "idle")
    /\ version' = [version EXCEPT ![j] = 0] /\ etag' = [etag EXCEPT ![j] = 0]
    /\ made' = [made EXCEPT ![j] = 0] /\ tries' = [tries EXCEPT ![j] = 0]
    /\ told' = [told EXCEPT ![j] = 0] /\ evicted' = evicted \ {j}
    /\ overtaken' = overtaken \ {j} /\ UNCHANGED mixed

-----------------------------------------------------------------------------
(* restore *)

StartRestore(j) ==
    /\ pc[j] = "idle"
    /\ Goes(j, "fetch")
    /\ tries' = [tries EXCEPT ![j] = Attempts]
    /\ UNCHANGED <<hostVars, object, saves, version, etag, made, told, evicted, company>>

(* Mutant: the sidecar is used whether or not its archive is there. *)
Fetch_AnySidecar(j) ==
    /\ pc[j] = "fetch"
    /\ etag' = [etag EXCEPT ![j] = Sidecar(j)]
    /\ Goes(j, "get")
    /\ UNCHANGED <<hostVars, object, saves, version, made, tries, told, evicted, company>>

(* fetch: the ETag counts only while the archive is there. *)
Fetch(j) ==
    /\ pc[j] = "fetch"
    /\ etag' = [etag EXCEPT ![j] = IF Archive(j) # 0 THEN Sidecar(j) ELSE 0]
    /\ Goes(j, "get")
    /\ UNCHANGED <<hostVars, object, saves, version, made, tries, told, evicted, company>>

(* get_to_file with If-None-Match: not modified or not found.                *)
GetNothing(j) ==
    /\ pc[j] = "get"
    /\ object = 0 \/ object = etag[j]
    /\ told' = [told EXCEPT ![j] = object]
    /\ Goes(j, "extract")
    /\ UNCHANGED <<hostVars, object, saves, version, etag, made, tries, evicted, company>>

(* Or the object; an S3 may not tell its ETag.                               *)
GetObject(j) ==
    /\ pc[j] = "get"
    /\ object # 0 /\ object # etag[j]
    /\ Has(j, object)
    /\ told' = [told EXCEPT ![j] = object]
    /\ \E e \in {0, object} : etag' = [etag EXCEPT ![j] = e]
    /\ Goes(j, "downloaded")
    /\ UNCHANGED <<hostVars, object, saves, made, tries, evicted, company>>

(* Or S3 fails, at once or while the object is downloaded: the local copy    *)
(* is used.                                                                 *)
GetFails(j) ==
    /\ pc[j] \in {"get", "downloaded"}
    /\ told' = [told EXCEPT ![j] = 0]
    /\ Goes(j, "extract")
    /\ UNCHANGED <<hostVars, object, saves, version, etag, made, tries, evicted, company>>

(* Mutant: the sidecar first. *)
SaveDownload_SidecarFirst(j) ==
    \/ /\ pc[j] = "downloaded"
       /\ PutSidecar(j, etag[j])
       /\ Goes(j, "sidecar")
       /\ Overtakes(j, FALSE)
       /\ UNCHANGED <<archive, old, object, saves, fileVars>>
    \/ /\ pc[j] = "sidecar"
       /\ PutArchive(j, version[j])
       /\ Goes(j, "evict then extract")
       /\ Overtakes(j, TRUE)
       /\ UNCHANGED <<sidecar, object, saves, fileVars>>

(* The archive is renamed into place, then its sidecar written or removed.   *)
SaveDownload(j) ==
    \/ /\ pc[j] = "downloaded"
       /\ PutArchive(j, version[j])
       /\ Goes(j, "sidecar")
       /\ Overtakes(j, FALSE)
       /\ UNCHANGED <<sidecar, object, saves, fileVars>>
    \/ /\ pc[j] = "sidecar"
       /\ PutSidecar(j, etag[j])
       /\ Goes(j, "evict then extract")
       /\ Overtakes(j, TRUE)
       /\ UNCHANGED <<archive, old, object, saves, fileVars>>

(* restore then looks whether there is an archive and marks it as used.      *)
Touch(j) ==
    /\ pc[j] = "extract"
    /\ Archive(j) # 0
    /\ old' = [old EXCEPT ![HostOf[j]] = FALSE]
    /\ Goes(j, "open")
    /\ UNCHANGED <<archive, sidecar, object, saves, jobVars>>

Miss(j) ==
    /\ pc[j] = "extract"
    /\ Archive(j) = 0
    /\ Done(j)
    /\ UNCHANGED <<hostVars, object, saves>>

(* extract_archive_file opens it and extracts what it opened.                *)
Extract(j) ==
    /\ pc[j] = "open"
    /\ Archive(j) # 0
    /\ Done(j)
    /\ UNCHANGED <<hostVars, object, saves>>

(* It is gone: the restore is tried again, and then done without.            *)
ExtractFails(j) ==
    /\ pc[j] = "open"
    /\ Archive(j) = 0
    /\ IF tries[j] > 1
         THEN /\ Goes(j, "fetch")
              /\ tries' = [tries EXCEPT ![j] = @ - 1]
              /\ Has(j, 0)
              /\ overtaken' = overtaken \ {j}
              /\ UNCHANGED <<etag, made, told, evicted, mixed>>
         ELSE Done(j)
    /\ UNCHANGED <<hostVars, object, saves>>

-----------------------------------------------------------------------------
(* save *)

(* create_cache_archive stages it in the cache directory.                    *)
StartSave(j) ==
    /\ pc[j] = "idle"
    /\ Goes(j, "staged")
    /\ UNCHANGED <<hostVars, object, saves, jobVars>>

(* The sidecar keeps the ETag of the object this archive replaces.           *)
SaveArchive(j) ==
    /\ pc[j] = "staged" /\ saves < MaxSaves
    /\ saves' = saves + 1
    /\ made' = [made EXCEPT ![j] = saves + 1]
    /\ PutArchive(j, saves + 1)
    /\ Goes(j, "hash")
    /\ Overtakes(j, TRUE)
    /\ UNCHANGED <<sidecar, object, version, etag, tries, told, evicted>>

(* put_file hashes the file of that name as it is now (of two jobs that send *)
(* the same archive neither knows when S3 gets it), ...                     *)
HashArchive(j) ==
    /\ pc[j] = "hash"
    /\ Archive(j) # 0
    /\ Has(j, Archive(j))
    /\ Goes(j, "send")
    /\ overtaken' = overtaken \cup {k \in Jobs \ {j} : Unsent(k) /\ made[k] = Archive(j)}
    /\ UNCHANGED <<hostVars, object, saves, etag, made, tries, told, evicted, mixed>>

(* ... and each attempt of send opens it again.  The hash is signed, so S3   *)
(* takes the body only when it is what was hashed.                          *)
OpenArchive(j) ==
    /\ pc[j] = "send"
    /\ Archive(j) = version[j]
    /\ Goes(j, "sending")
    /\ UNCHANGED <<hostVars, object, saves, jobVars>>

Stores(j) ==
    /\ object' = version[j]
    /\ mixed' = mixed \cup (IF j \in overtaken THEN Known(version[j]) ELSE {})

PutObject(j) ==
    /\ pc[j] = "sending"
    /\ Stores(j)
    /\ \E e \in {0, version[j]} : etag' = [etag EXCEPT ![j] = e]
    /\ Goes(j, "uploaded")
    /\ UNCHANGED <<hostVars, saves, version, made, tries, told, evicted, overtaken>>

(* Mutant: whatever S3 answered, its ETag is taken. *)
PutFails_AsDone(j) ==
    /\ pc[j] \in {"hash", "send", "sending"}
    /\ etag' = [etag EXCEPT ![j] = object]
    /\ Goes(j, "uploaded")
    /\ UNCHANGED <<hostVars, object, saves, version, made, tries, told, evicted, company>>

(* The upload fails: S3 is not there, the file is gone or is not what was    *)
(* hashed, or only the answer is lost.  The sidecar stays as it is.          *)
PutFails(j) ==
    /\ pc[j] \in {"hash", "send", "sending"}
    /\ \/ pc[j] = "sending" /\ Stores(j)
       \/ UNCHANGED <<object, mixed>>
    /\ Goes(j, "evict")
    /\ UNCHANGED <<hostVars, saves, fileVars, overtaken>>

SaveSidecar(j) ==
    /\ pc[j] = "uploaded"
    /\ PutSidecar(j, etag[j])
    /\ Goes(j, "evict")
    /\ Overtakes(j, FALSE)
    /\ UNCHANGED <<archive, old, object, saves, fileVars>>

-----------------------------------------------------------------------------
(* evict *)

(* A job with another key evicts in the same directory.                      *)
StartOther(j) ==
    /\ pc[j] = "idle"
    /\ Goes(j, "evict")
    /\ UNCHANGED <<hostVars, object, saves, jobVars>>

(* The age is read, then the archive removed, then its sidecar.              *)
Evict(j) ==
    /\ pc[j] = "evict"
    /\ \/ old[HostOf[j]] /\ Archive(j) # 0 /\ Goes(j, "remove") /\ UNCHANGED jobVars
       \/ (~old[HostOf[j]] \/ Archive(j) = 0) /\ Done(j)
    /\ UNCHANGED <<hostVars, object, saves>>

(* After a download the archive was just put there, and is not old.          *)
EvictThenExtract(j) ==
    /\ pc[j] = "evict then extract"
    /\ Goes(j, "extract")
    /\ UNCHANGED <<hostVars, object, saves, jobVars>>

RemoveArchive(j) ==
    /\ pc[j] = "remove"
    /\ PutArchive(j, 0)
    /\ evicted' = evicted \cup {k \in Jobs \ Others : HostOf[k] = HostOf[j] /\ pc[k] # "idle"}
    /\ Goes(j, "remove sidecar")
    /\ UNCHANGED <<sidecar, object, saves, version, etag, made, tries, told, company>>

RemoveSidecar(j) ==
    /\ pc[j] = "remove sidecar"
    /\ PutSidecar(j, 0)
    /\ Done(j)
    /\ UNCHANGED <<archive, old, object, saves>>

-----------------------------------------------------------------------------
(* The environment *)

(* The job is canceled or timed out, and its future dropped.                 *)
Drop(j) ==
    /\ pc[j] # "idle"
    /\ Done(j)
    /\ UNCHANGED <<hostVars, object, saves>>

Quiet(h) == \A j \in Jobs : HostOf[j] = h => pc[j] = "idle"

(* The host has no job for max_age.                                          *)
Age(h) ==
    /\ Quiet(h)
    /\ archive[h] # 0 /\ ~old[h]
    /\ old' = [old EXCEPT ![h] = TRUE]
    /\ UNCHANGED <<archive, sidecar, object, saves, pc, jobVars>>

(* The host is killed.                                                       *)
Kill(h) ==
    /\ ~Quiet(h)
    /\ LET zero(f) == [j \in Jobs |-> IF HostOf[j] = h THEN 0 ELSE f[j]] IN
         /\ pc' = [j \in Jobs |-> IF HostOf[j] = h THEN "idle" ELSE pc[j]]
         /\ version' = zero(version) /\ etag' = zero(etag) /\ made' = zero(made)
         /\ tries' = zero(tries) /\ told' = zero(told)
    /\ evicted' = {j \in evicted : HostOf[j] # h}
    /\ overtaken' = {j \in overtaken : HostOf[j] # h}
    /\ UNCHANGED <<hostVars, object, saves, mixed>>

(* A lifecycle rule of the bucket expires the object.                        *)
Expire ==
    /\ object # 0
    /\ object' = 0
    /\ UNCHANGED <<hostVars, saves, pc, jobVars>>

Restore(j) ==
    \/ StartRestore(j) \/ Fetch(j) \/ GetNothing(j) \/ GetObject(j) \/ GetFails(j)
    \/ SaveDownload(j) \/ EvictThenExtract(j) \/ Touch(j) \/ Miss(j)
    \/ Extract(j) \/ ExtractFails(j)

SaveCache(j) ==
    \/ StartSave(j) \/ SaveArchive(j) \/ HashArchive(j) \/ OpenArchive(j)
    \/ PutObject(j) \/ PutFails(j) \/ SaveSidecar(j)

Evicting(j) == Evict(j) \/ RemoveArchive(j) \/ RemoveSidecar(j)

Next ==
    \/ \E j \in Jobs \ Others : Restore(j) \/ SaveCache(j)
    \/ \E j \in Others : StartOther(j)
    \/ \E j \in Jobs : Evicting(j) \/ Drop(j)
    \/ \E h \in Hosts : Age(h) \/ Kill(h)
    \/ Expire

Spec == Init /\ [][Next]_vars

-----------------------------------------------------------------------------
(* Properties *)

(* Types; a job uploads nothing but an archive some save made, and what it   *)
(* hashed or downloaded is one.                                             *)
TypeOK ==
    /\ archive \in [Hosts -> 0 .. saves] /\ sidecar \in [Hosts -> 0 .. saves]
    /\ old \in [Hosts -> BOOLEAN]
    /\ \A h \in Hosts : old[h] => archive[h] # 0
    /\ object \in 0 .. saves /\ saves \in Versions
    /\ pc \in [Jobs -> {"idle", "fetch", "get", "downloaded", "sidecar",
                        "evict then extract", "extract", "open", "staged",
                        "hash", "send", "sending", "uploaded", "evict",
                        "remove", "remove sidecar"}]
    /\ version \in [Jobs -> 0 .. saves] /\ etag \in [Jobs -> 0 .. saves]
    /\ made \in [Jobs -> 0 .. saves] /\ told \in [Jobs -> 0 .. saves]
    /\ tries \in [Jobs -> 0 .. Attempts]
    /\ evicted \subseteq {j \in Jobs \ Others : pc[j] # "idle"}
    /\ overtaken \subseteq {j \in Jobs \ Others : pc[j] \notin {"idle", "fetch", "staged"}}
    /\ mixed \subseteq Hosts
    /\ \A j \in Jobs : pc[j] \in {"downloaded", "sidecar", "send", "sending"} =>
         version[j] # 0

(* "<archive>.etag holds the ETag of its S3 object, so an unchanged object   *)
(* is not downloaded again" (job_cache.rs:4): while a host has an ETag that  *)
(* S3 would answer with 304, its archive is that object or a newer one,      *)
(* whatever was dropped, killed, evicted or failed to upload before.         *)
CurrentOn(hosts) ==
    \A h \in hosts :
        Quiet(h) /\ archive[h] # 0 /\ sidecar[h] # 0 /\ sidecar[h] = object
            => archive[h] >= object

(* So it is where no overtaken job has had its hand in the two files. *)
NotModifiedIsCurrent == CurrentOn(Hosts \ mixed)

(* The sentence of job_cache.rs:4 as it stands (divergence 9).               *)
EtagIsOfArchive == CurrentOn(Hosts)

(* A restore that S3 answered extracts an archive, and none older than what  *)
(* S3 held then: of a job that was not overtaken, on a host that is not      *)
(* mixed, unless another job evicts the archive while it restores.           *)
RestoresCurrent ==
    \A j \in Jobs \ (evicted \cup overtaken) : HostOf[j] \notin mixed =>
        (Miss(j) => told[j] = 0) /\ (Extract(j) => Archive(j) >= told[j])
RestoredIsCurrent == [][RestoresCurrent]_vars

(* "An unchanged one is taken from the local disk, a changed one is          *)
(* downloaded" (docs/configuration.md:155): what S3 holds is not missed      *)
(* (divergence 11).                                                          *)
FindsHeld ==
    \A j \in Jobs \ overtaken : HostOf[j] \notin mixed => (Miss(j) => told[j] = 0)
HeldIsFound == [][FindsHeld]_vars

(* "Saved archives are written locally and uploaded"                         *)
(* (docs/configuration.md:156): when the log says a cache was uploaded, S3   *)
(* took the archive this job made, or has a newer one.                      *)
UploadsOf(jobs) ==
    \A j \in jobs : pc[j] # "uploaded" /\ pc'[j] = "uploaded" => object' >= made[j]

(* So it is for a job that was not overtaken ...                             *)
UploadsSaved == UploadsOf(Jobs \ overtaken)
SavedIsUploaded == [][UploadsSaved]_vars

(* ... and not for every job (divergence 10).                                *)
SavedAlwaysUploaded == [][UploadsOf(Jobs)]_vars

=============================================================================
