--------------------------- MODULE ArtifactUpload ---------------------------
(***************************************************************************)
(* The artifacts of a job that ended: upload_artifacts of RunnerDaemon,    *)
(* create_archive of artifacts.rs and upload_artifacts of GitLabClient.    *)
(* Processes of the job may still change files while they are archived,    *)
(* and any request may fail before or after GitLab took it.                *)
(*                                                                         *)
(* The workspace has directories with files, and links to directories. A   *)
(* glob pattern is the set of the paths it could match.                    *)
(***************************************************************************)
EXTENDS Integers, FiniteSets, SequencesExt

CONSTANTS
    Dirs, Links, Leaves, \* names in the workspace, and in its directories
    Untracked,          \* what git lists as untracked
    Jobs,               \* the artifacts that jobs may ask for
    MaxAttempts,        \* max_retries of retry_with_backoff, plus one
    MaxChanges          \* files replaced during the upload (a bound)

Files == Dirs \X Leaves
Paths == (Dirs \cup Links) \X ({"."} \cup Leaves)

(* "untracked" adds the untracked files to the paths. *)
UploadAssumption ==
    /\ Untracked \subseteq Files
    /\ \A job \in Jobs : \A i \in DOMAIN job :
        /\ job[i].when \in {"on_success", "on_failure", "always"}
        /\ job[i].format \in {"zip", "gzip", "raw"}
        /\ job[i].paths \subseteq Paths /\ job[i].exclude \subseteq Paths
        /\ job[i].untracked \in BOOLEAN
    /\ MaxAttempts \in Nat \ {0} /\ MaxChanges \in Nat

Kinds == {"none", "file", "link", "special"}
Ids == 0..MaxChanges

VARIABLES
    job, succeeded,     \* the artifacts, and the job's result so far
    target,             \* what the links point to
    node,               \* the files: a kind, and an id that a change renews
    changes,
    untracked,          \* the list that git gave
    pc, i,              \* the artifact at hand
    files, read, staged, \* collected, read so far, and the archive
    seen,               \* the file that was looked at before it is opened
    attempt, failure,
    gitlab,             \* the archives GitLab has
    met                 \* what became of each artifact (history)

workspace == <<target, node, changes>>
archiving == <<files, read, staged, seen>>
vars == <<job, succeeded, workspace, untracked, pc, i, archiving, attempt, failure, gitlab, met>>

Init ==
    /\ job \in Jobs /\ succeeded \in BOOLEAN
    /\ target \in [Links -> Dirs \cup {"outside"}]
    /\ node \in [Files -> {<<k, 0>> : k \in Kinds}]
    /\ changes = 0 /\ untracked = {}
    /\ pc = "untracked" /\ i = 1
    /\ files = {} /\ read = {} /\ staged = {} /\ seen = <<"none", 0>>
    /\ attempt = 0 /\ failure = FALSE
    /\ gitlab = [a \in DOMAIN job |-> <<>>]
    /\ met = [a \in DOMAIN job |-> "open"]

Goes(to) == pc' = to /\ UNCHANGED <<job, succeeded, workspace>>

-----------------------------------------------------------------------------
(* What is collected *)

(* The file at a path, through a link. *)
FileAt(p) == IF p[1] \in Dirs THEN p ELSE <<target[p[1]], p[2]>>
IsInside(p) == FileAt(p) \in Files
NodeAt(p) == IF IsInside(p) THEN node[FileAt(p)] ELSE <<"link", 0>>
Exists(p) == p[2] = "." \/ ~IsInside(p) \/ NodeAt(p)[1] # "none"

(* Mutant: a directory is not walked. *)
Collected_Flat(p) ==
    IF p[2] = "." \/ (IsInside(p) /\ Exists(p)) THEN {p} ELSE {}

(* A directory stands for its files, a link for itself; a match has to be    *)
(* inside the workspace.                                                     *)
Collected(p) ==
    CASE p[2] = "." /\ p[1] \in Dirs -> {f \in Files : f[1] = p[1] /\ Exists(f)}
      [] p[2] = "." /\ p[1] \in Links -> {p}
      [] OTHER -> IF IsInside(p) /\ Exists(p) THEN {p} ELSE {}

PathsOf(a) == job[a].paths \cup (IF job[a].untracked THEN untracked ELSE {})

CollectPaths(a) == UNION {Collected(p) : p \in PathsOf(a)} \ job[a].exclude

Wanted(a) ==
    CASE job[a].when = "always" -> TRUE
      [] job[a].when = "on_failure" -> ~succeeded
      [] OTHER -> succeeded

-----------------------------------------------------------------------------
(* upload_artifacts of RunnerDaemon *)

Skip(a, why) ==
    /\ met' = [met EXCEPT ![a] = why] /\ i' = i + 1 /\ Goes("artifact")
    /\ UNCHANGED <<untracked, archiving, attempt, failure, gitlab>>

(* Mutant: the last artifact decides. *)
Ended_Last(a, ok) ==
    /\ failure' = ~ok
    /\ met' = [met EXCEPT ![a] = IF ok THEN "sent" ELSE "failed"]
    /\ i' = i + 1 /\ Goes("artifact")
    /\ UNCHANGED <<untracked, archiving, attempt>>

(* Mutant: a failure ends the uploads. *)
Ended_Returns(a, ok) ==
    /\ failure' = (failure \/ ~ok)
    /\ met' = [met EXCEPT ![a] = IF ok THEN "sent" ELSE "failed"]
    /\ i' = i + 1 /\ Goes(IF ok THEN "artifact" ELSE "done")
    /\ UNCHANGED <<untracked, archiving, attempt>>

(* A failed artifact fails the job, after the others were tried. *)
Ended(a, ok) ==
    /\ failure' = (failure \/ ~ok)
    /\ met' = [met EXCEPT ![a] = IF ok THEN "sent" ELSE "failed"]
    /\ i' = i + 1 /\ Goes("artifact")
    /\ UNCHANGED <<untracked, archiving, attempt>>

Fails == Ended(i, FALSE) /\ UNCHANGED gitlab

(* One list for all artifacts; when git fails there is only a warning.       *)
ListUntracked ==
    /\ pc = "untracked" /\ Goes("artifact")
    /\ untracked' \in (IF \E a \in DOMAIN job : job[a].untracked
                       THEN {{}, {p \in Untracked : Exists(p)}} ELSE {{}})
    /\ UNCHANGED <<i, archiving, attempt, failure, gitlab, met>>

NotWanted ==
    /\ pc = "artifact" /\ i \in DOMAIN job
    /\ ~(Wanted(i) /\ PathsOf(i) # {})
    /\ Skip(i, "unwanted")

Collect ==
    /\ pc = "artifact" /\ i \in DOMAIN job /\ Wanted(i) /\ PathsOf(i) # {}
    /\ IF CollectPaths(i) = {} THEN Skip(i, "empty")
       ELSE IF job[i].format = "raw" /\ Cardinality(CollectPaths(i)) # 1 THEN Fails
       ELSE /\ files' = CollectPaths(i) /\ read' = {} /\ staged' = {} /\ Goes("stat")
            /\ UNCHANGED <<untracked, i, seen, attempt, failure, gitlab, met>>

Finish ==
    /\ pc = "artifact" /\ i \notin DOMAIN job /\ Goes("done")
    /\ UNCHANGED <<untracked, i, archiving, attempt, failure, gitlab, met>>

-----------------------------------------------------------------------------
(* create_archive: one file after the other is looked at, opened and copied. *)

Current == CHOOSE p \in files : p \notin read

Take(entries) ==
    /\ read' = read \cup {Current} /\ staged' = staged \cup entries /\ Goes("stat")
    /\ UNCHANGED <<untracked, i, files, seen, attempt, failure, gitlab, met>>

(* Links are archived as links in a ZIP file only, what is neither a link    *)
(* nor a file nowhere.                                                       *)
Stat ==
    /\ pc = "stat" /\ files # read
    /\ LET kind == IF Current[2] = "." THEN "link" ELSE NodeAt(Current)[1]
           format == job[i].format IN
        CASE kind = "none" -> Fails
          [] kind = "file" -> /\ seen' = NodeAt(Current) /\ Goes("open")
                              /\ UNCHANGED <<untracked, i, files, read, staged, attempt,
                                             failure, gitlab, met>>
          [] format = "raw" -> Fails
          [] kind = "link" /\ format = "zip" -> Take({<<Current, <<"link", 0>>>>})
          [] OTHER -> Take({})

(* Mutant: the file is not compared with the one that was looked at. *)
Open_Trusts ==
    /\ pc = "open"
    /\ \/ Fails
       \/ /\ NodeAt(Current)[1] # "none"
          /\ Take({<<Current, NodeAt(Current)>>})

(* Opening follows links; a raw artifact has to be the file looked at. Any   *)
(* file may turn out unreadable, or too large.                               *)
Open ==
    /\ pc = "open"
    /\ \/ Fails
       \/ /\ NodeAt(Current)[1] # "none"
          /\ job[i].format = "raw" => NodeAt(Current) = seen
          /\ Take({<<Current, NodeAt(Current)>>})

Staged ==
    /\ pc = "stat" /\ files = read /\ Goes("send") /\ attempt' = 1
    /\ UNCHANGED <<untracked, i, archiving, failure, gitlab, met>>

-----------------------------------------------------------------------------
(* upload_artifacts of GitLabClient *)

(* GitLab takes an archive, and once more if it is the one it has; the       *)
(* answer may be lost.                                                       *)
Taken ==
    /\ pc = "send" /\ gitlab[i] \in {<<>>, <<staged>>}
    /\ gitlab' = [gitlab EXCEPT ![i] = <<staged>>]

Sent == Taken /\ Ended(i, TRUE)

(* Mutant: the count starts anew. *)
Retry_Anew ==
    /\ attempt < MaxAttempts /\ attempt' = 1 + (attempt % (MaxAttempts - 1)) /\ Goes("send")
    /\ UNCHANGED <<i, untracked, archiving, failure, met>>

Retry ==
    /\ attempt < MaxAttempts /\ attempt' = attempt + 1 /\ Goes("send")
    /\ UNCHANGED <<i, untracked, archiving, failure, met>>

SendFails ==
    /\ pc = "send"
    /\ \/ Retry /\ (Taken \/ UNCHANGED gitlab)
       \/ attempt = MaxAttempts /\ Fails

(* 413 and other errors of the request end it. *)
Rejected == pc = "send" /\ Fails

Upload ==
    \/ ListUntracked \/ NotWanted \/ Collect \/ Finish \/ Stat \/ Open \/ Staged
    \/ Sent \/ SendFails \/ Rejected

(* A process of the job removes or replaces a file. *)
Change(f, kind) ==
    /\ changes < MaxChanges /\ pc # "done" /\ changes' = changes + 1
    /\ node' = [node EXCEPT ![f] = <<kind, changes'>>]
    /\ UNCHANGED <<job, succeeded, target, untracked, pc, i, archiving, attempt, failure,
                   gitlab, met>>

Next == Upload \/ \E f \in Files : \E kind \in Kinds \ {"special"} : Change(f, kind)

Spec == Init /\ [][Next]_vars
Fairness == WF_vars(Upload)
FairSpec == Spec /\ Fairness

-----------------------------------------------------------------------------
(* Properties *)

TypeOK ==
    /\ node \in [Files -> Kinds \X Ids]
    /\ pc \in {"untracked", "artifact", "stat", "open", "send", "done"}
    /\ i \in 1..(Len(job) + 1) /\ untracked \subseteq Untracked
    /\ files \subseteq Paths /\ read \subseteq files
    /\ staged \subseteq Paths \X (Kinds \X Ids) /\ attempt \in 0..MaxAttempts
    /\ failure \in BOOLEAN
    /\ \A a \in DOMAIN job : /\ Len(gitlab[a]) <= 1
                             /\ met[a] \in {"open", "unwanted", "empty", "sent", "failed"}

(* A file that nobody touched, named by the paths and not excluded, is in    *)
(* the archive that GitLab has after a success, whatever became of the other *)
(* files: create_archive.                                                    *)
NamedFilesAreSent ==
    \A a \in DOMAIN job : met[a] \in {"sent", "empty"} =>
        \A f \in Files \ job[a].exclude :
            node[f] = <<"file", 0>> /\ {f, <<f[1], ".">>} \cap job[a].paths # {} =>
                gitlab[a] # <<>> /\ <<f, node[f]>> \in gitlab[a][1]

(* A raw artifact is one regular file, also when files are swapped while it  *)
(* is read: copy_regular_file.                                               *)
RawIsAFile ==
    \A a \in DOMAIN job : job[a].format = "raw" /\ gitlab[a] # <<>> =>
        \E entry \in gitlab[a][1] : gitlab[a][1] = {entry} /\ entry[2][1] = "file"

(* The uploads fail if and only if one of them did, and success means that   *)
(* GitLab has everything that was wanted and found: upload_artifacts.        *)
FailureIsTold ==
    pc = "done" =>
        /\ failure <=> \E a \in DOMAIN job : met[a] = "failed"
        /\ \A a \in DOMAIN job : met[a] = "sent" => gitlab[a] # <<>>

(* One failed artifact does not keep the others from being uploaded.         *)
OthersAreTried == pc = "done" => \A a \in DOMAIN job : met[a] # "open"

(* The uploads end, whatever GitLab answers: retry_with_backoff.             *)
UploadsEnd == <>(pc = "done")

(* A claim the code does not keep: "matches reached through a symlinked      *)
(* directory are skipped" (artifacts.rs:389).  They are when the directory   *)
(* is outside of the workspace; otherwise the file is archived under the     *)
(* link's name, too (artifacts.rs:419).                                      *)
LinksAreNotFollowed == \A f \in files : f[1] \in Links => f[2] = "."

=============================================================================
