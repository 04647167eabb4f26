------------------------------ MODULE CacheKeys ------------------------------
(***************************************************************************)
(* Which cache a job gets: restore_workspace and upload_cache of           *)
(* src/runner_daemon/mod.rs over LocalCache of job_cache.rs, for one cache *)
(* entry with its fallback keys.                                           *)
(*                                                                         *)
(* One job runs, over what earlier ones saved under its keys, while other  *)
(* jobs, here and on other runners, save, fetch and evict archives of them. *)
(* An archive is the job that saved it; encode_key gives each key a file.  *)
(* Keys are values of Expansion.  GitLab appends the protection of the     *)
(* branch to the keys of an entry, not to CACHE_FALLBACK_KEY.              *)
(* JobCache has the files, ETags and transfers of one key.                 *)
(***************************************************************************)
EXTENDS Integers, FiniteSets, Expansion

CONSTANTS
    Jobs,               \* kinds of job: protected, vars, key, fallbacks, last,
                        \* where last is <<>> or <<CACHE_FALLBACK_KEY>>
    Attempts,           \* RESTORE_CACHE_ATTEMPTS
    Nobody

KeysAssumption == Attempts \in Nat \ {0} /\ Nobody \notin Jobs

VARIABLES
    archive,            \* per key, the archive on this host
    object,             \* per key, the archive in S3
    old,                \* keys whose archive evict may have found old
    pc,
    job, keys,          \* the job that runs, and its keys
    at,                 \* the key the restore is at
    tries,
    warned,             \* places of keys S3 failed for, in this attempt
    had,                \* of keys with an archive when they were fetched (history)
    gone,               \* of keys evicted before they were looked at (history)
    got                 \* the archive restored

vars == <<archive, object, old, pc, job, keys, at, tries, warned, had, gone, got>>
stores == <<archive, object>>
this == <<job, keys, old>>
place == <<at, tries, warned, had, gone>>

-----------------------------------------------------------------------------
(* Keys *)

Blank == Text(" ")
Protected == Text("-protected")
Unprotected == Text("-non_protected")

Trimmed(value) ==
    LET ink == {i \in DOMAIN value : value[i] # Blank}
    IN  IF ink = {} THEN <<>>
        ELSE SubSeq(value, CHOOSE i \in ink : \A k \in ink : i <= k,
                           CHOOSE i \in ink : \A k \in ink : i >= k)

(* resolve_key *)
Resolved(key, values) ==
    LET trimmed == Trimmed(Expand(key, values))
    IN  IF trimmed = <<>> THEN <<Text("default")>> ELSE trimmed

(* What GitLab sends for a key of .gitlab-ci.yml. *)
FromGitLab(j, key) == Append(key, IF j.protected THEN Protected ELSE Unprotected)

(* Mutant: the key is looked at as it is written. *)
MayFallBack_AsWritten(j, key) == ~IsSuffix(<<Protected>>, key)

MayFallBack(j, key) == ~IsSuffix(<<Protected>>, Resolved(key, j.vars))

KeysOf(j) ==
    LET last == SelectSeq(j.last, LAMBDA key : MayFallBack(j, key))
        sent == [i \in 1 .. Len(j.fallbacks) |-> FromGitLab(j, j.fallbacks[i])]
        all  == <<FromGitLab(j, j.key)>> \o sent \o last
    IN  [i \in DOMAIN all |-> Resolved(all[i], j.vars)]

OwnKey(j) == Resolved(FromGitLab(j, j.key), j.vars)
Key == keys[at]

(* What there may be under some keys: archives of jobs whose own key it is.  *)
Savers(n) == {Nobody} \cup {j \in Jobs : OwnKey(j) = n}
Stores(names) == {s \in [names -> Jobs \cup {Nobody}] : \A n \in names : s[n] \in Savers(n)}

-----------------------------------------------------------------------------

(* What is here when the job starts may be too old; what is put here later   *)
(* is not, in the time of a job.                                             *)
Init ==
    /\ job \in Jobs /\ keys = KeysOf(job)
    /\ archive \in Stores(Range(keys)) /\ object \in Stores(Range(keys))
    /\ old = {n \in Range(keys) : archive[n] # Nobody}
    /\ pc = "fetch" /\ at = 1 /\ tries = 1
    /\ warned = {} /\ had = {} /\ gone = {} /\ got = Nobody

(* An attempt begins with the first key. *)
Attempt(n) ==
    pc' = "fetch" /\ at' = 1 /\ tries' = n /\ warned' = {} /\ had' = {} /\ gone' = {}

(* It is over: the script begins. *)
Restored(archived) ==
    /\ pc' = "script" /\ at' = 1 /\ tries' = 0
    /\ warned' = {} /\ had' = {} /\ gone' = {} /\ got' = archived

(* fetch: the local copy is brought up to date, stays when S3 has none, or   *)
(* stays with a warning when S3 fails.                                      *)
Fetch ==
    /\ pc = "fetch"
    /\ \/ /\ archive' = IF object[Key] = Nobody THEN archive
                         ELSE [archive EXCEPT ![Key] = object[Key]]
          /\ UNCHANGED warned
       \/ /\ warned' = warned \cup {at}
          /\ UNCHANGED archive
    /\ had' = IF archive[Key] # Nobody \/ object[Key] # Nobody THEN had \cup {at} ELSE had
    /\ pc' = "look"
    /\ UNCHANGED <<object, this, at, tries, gone, got>>

(* The first key with an archive is the one, ... *)
Look ==
    /\ pc = "look"
    /\ pc' = IF archive[Key] # Nobody THEN "extract" ELSE "next"
    /\ UNCHANGED <<stores, this, place, got>>

(* ... and after the last one there is no cache. *)
NextKey ==
    /\ pc = "next"
    /\ IF at < Len(keys)
         THEN pc' = "fetch" /\ at' = at + 1 /\ UNCHANGED <<tries, warned, had, gone, got>>
         ELSE Restored(Nobody)
    /\ UNCHANGED <<stores, this>>

Extract ==
    /\ pc = "extract" /\ archive[Key] # Nobody
    /\ Restored(archive[Key])
    /\ UNCHANGED <<stores, this>>

(* Mutant: the next key is tried. *)
ExtractFails_NextKey ==
    /\ pc = "extract"
    /\ pc' = "next"
    /\ UNCHANGED <<stores, this, place, got>>

(* An archive that cannot be extracted (or opened: it may be evicted by now) *)
(* is tried again, from the first key; in the end the job goes on without a  *)
(* cache.                                                                   *)
ExtractFails ==
    /\ pc = "extract"
    /\ IF tries < Attempts THEN Attempt(tries + 1) /\ UNCHANGED got
                           ELSE Restored(Nobody)
    /\ UNCHANGED <<stores, this>>

(* upload_cache: the job saves under the entry's own key, unless its result  *)
(* or its policy says not to; the upload may fail.                          *)
Save ==
    /\ pc = "script" /\ pc' = "over"
    /\ LET own == keys[1] IN
         \/ /\ archive' = [archive EXCEPT ![own] = job]
            /\ object' \in {object, [object EXCEPT ![own] = job]}
         \/ UNCHANGED stores
    /\ UNCHANGED <<this, place, got>>

(* Another job saves or fetches: the archive is renamed into place on this   *)
(* host, or an object is put into S3.  Those of other keys are not seen.     *)
OtherSaves(j) ==
    /\ OwnKey(j) \in Range(keys)
    /\ \/ object' = [object EXCEPT ![OwnKey(j)] = j] /\ UNCHANGED archive
       \/ archive' = [archive EXCEPT ![OwnKey(j)] = j] /\ UNCHANGED object
    /\ UNCHANGED <<pc, this, place, got>>

(* Objects expire, and another job's save or download evicts an archive it   *)
(* found old, also the one this job is about to look at: evict reads the age *)
(* first and removes by name, whatever was renamed into place meanwhile, and *)
(* nothing says that an archive is in use before restore sets its time.      *)
Vanish(n) ==
    /\ \/ object[n] # Nobody /\ object' = [object EXCEPT ![n] = Nobody]
          /\ UNCHANGED <<archive, gone>>
       \/ /\ n \in old /\ archive[n] # Nobody
          /\ archive' = [archive EXCEPT ![n] = Nobody]
          /\ gone' = IF pc = "look" /\ n = Key THEN gone \cup {at} ELSE gone
          /\ UNCHANGED object
    /\ UNCHANGED <<pc, this, at, tries, warned, had, got>>

Next ==
    \/ Fetch \/ Look \/ NextKey \/ Extract \/ ExtractFails \/ Save
    \/ pc # "over" /\ \E j \in Jobs : OtherSaves(j)
    \/ pc # "over" /\ \E n \in DOMAIN archive : Vanish(n)

Spec == Init /\ [][Next]_vars

-----------------------------------------------------------------------------
(* Properties *)

(* Types; the archive of a key was saved by a job whose own key it is, with  *)
(* its own variables.                                                       *)
TypeOK ==
    /\ job \in Jobs /\ at \in DOMAIN keys /\ tries \in 0 .. Attempts
    /\ {archive, object} \subseteq Stores(Range(keys)) /\ old \subseteq Range(keys)
    /\ pc \in {"fetch", "look", "next", "extract", "script", "over"}
    /\ \A i \in warned \cup had \cup gone : i <= at
    /\ got \in Jobs \cup {Nobody}

(* "It may not name a protected branch's cache, or any branch could read it" *)
(* (mod.rs:772): however CACHE_FALLBACK_KEY is put together from variables   *)
(* and blanks, a job of an unprotected branch restores no archive a job of a *)
(* protected one saved.                                                     *)
ProtectedStaysApart ==
    got # Nobody /\ got.protected => job.protected

(* "Tried in order when the key has no archive" (docs/pipelines.md:72): a    *)
(* fallback is used only when no key before it had an archive, here or in    *)
(* S3, but for keys S3 failed for and keys whose archive was evicted after   *)
(* fetch had brought it up to date and before restore looked at it (see      *)
(* NoArchiveNoFallback); a broken archive is no reason for one.             *)
FallbackIsLast ==
    pc = "extract" => \A i \in 1 .. (at - 1) : i \in had => i \in warned \cup gone

(* A claim the code does not keep: "Tried in order when the key has no       *)
(* archive" (docs/pipelines.md:72), whenever S3 answered.  fetch may be told *)
(* that the archive is unchanged (job_cache.rs:223), and another job's evict *)
(* (job_cache.rs:138) removes it before restore looks (job_cache.rs:184).    *)
NoArchiveNoFallback ==
    pc = "extract" =>
        \A i \in 1 .. (at - 1) : keys[i] # Key /\ i \in had => i \in warned

=============================================================================
