----------------------------- MODULE Extraction -----------------------------
(***************************************************************************)
(* Extraction of a dependency's artifacts or of a cache archive into the   *)
(* workspace: artifacts.rs, with the attempts of download_dependencies.    *)
(* The job's processes may change the workspace between any two system     *)
(* calls; the extraction goes by handles of directories that it opened     *)
(* without following links.  Dropping its future does not end it, the flag *)
(* `stop` does.                                                            *)
(***************************************************************************)
EXTENDS Integers, SequencesExt

CONSTANTS
    Names,
    Archives,           \* archives the extraction may meet
    Leftovers,          \* nodes that an earlier job may have left in the root
    MaxEntries, MaxBytes, \* ExtractLimits
    Tries,              \* ARTIFACT_DOWNLOAD_ATTEMPTS
    MaxNodes, MaxChanges \* bounds: nodes created; changes of the workspace

(* An archive is a sequence of entries: a path, a kind, the target of a link *)
(* and a size.                                                               *)
ExtractionAssumption ==
    /\ \A a \in Archives : \A i \in DOMAIN a :
        /\ a[i].path \in Seq(Names \cup {".."}) /\ a[i].size \in Nat
        /\ a[i].kind \in {"dir", "file", "link"}
        /\ a[i].target \in Seq(Names \cup {"..", "/"})
    /\ Leftovers \subseteq {"none", "dir", "file", "link"}

Root == -1              \* the workspace
Outside == 0            \* a directory that links may point to
None == -2
Nodes == Root..MaxNodes

VARIABLES
    archive,
    kind, child, data,  \* nodes; the entries of directories; of a file, the entry
                        \* of the archive it came from and its size
    pc, i,              \* of the extraction; the entry
    dir, rest,          \* the open directory, and the path below it
    out, left,          \* the open file, and what is left to copy
    total, attempt, result,
    stop, changes

tree == <<kind, child, data>>
walk == <<dir, rest>>
copy == <<out, left, total>>
vars == <<archive, tree, pc, i, walk, copy, attempt, result, stop, changes>>

Entry == archive[i]
IsDir(n) == n # None /\ kind[n] = "dir"
New == CHOOSE n \in Nodes : kind[n] = "free"
HasRoom == \E n \in Nodes : kind[n] = "free"

(* A node of kind k at a name, which the directory does not have yet. *)
Make(d, name, k) ==
    /\ HasRoom
    /\ kind' = [kind EXCEPT ![New] = k]
    /\ child' = [child EXCEPT ![d][name] = New]

Init ==
    /\ archive \in Archives
    /\ \E k \in Leftovers : \E name \in Names :
        /\ kind = [n \in Nodes |-> IF n \in {Root, Outside} THEN "dir"
                                   ELSE IF n = 1 /\ k # "none" THEN k ELSE "free"]
        /\ child = [n \in Nodes |-> [m \in Names |->
                        IF n = Root /\ m = name /\ k # "none" THEN 1 ELSE None]]
    /\ data = [n \in Nodes |-> <<0, 0>>]
    /\ pc = "download" /\ i = 0 /\ dir = Root /\ rest = <<>>
    /\ out = None /\ left = 0 /\ total = 0 /\ attempt = 1 /\ result = "none"
    /\ stop = FALSE /\ changes = 0

(* A failure leaves what was extracted, and leads to the next attempt.       *)
Failed ==
    /\ IF attempt < Tries THEN pc' = "download" /\ attempt' = attempt + 1 /\ UNCHANGED result
       ELSE pc' = "done" /\ result' = "failed" /\ UNCHANGED attempt
    /\ UNCHANGED <<archive, i, walk, copy, stop, changes>>

Goes(to) == pc' = to /\ UNCHANGED <<archive, attempt, result, stop, changes>>

NextEntry == Goes("entry") /\ i' = i + 1 /\ UNCHANGED <<walk, out, left>>

-----------------------------------------------------------------------------

(* Depth of a link's target, or -1 when it leaves the workspace. *)
StaysInside(path, target) ==
    0 <= FoldLeft(LAMBDA depth, c : IF depth < 0 \/ c = "/" THEN -1
                                    ELSE IF c = ".." THEN depth - 1 ELSE depth + 1,
                  Len(path) - 1, target)

Download ==
    /\ pc = "download"
    /\ \/ Failed /\ UNCHANGED tree
       \/ /\ ~stop /\ Len(archive) <= MaxEntries
          /\ Goes("entry") /\ i' = 1 /\ total' = 0 /\ UNCHANGED <<tree, walk, out, left>>

Finished ==
    /\ pc = "entry" /\ i > Len(archive) /\ pc' = "done" /\ result' = "ok"
    /\ UNCHANGED <<archive, tree, i, walk, copy, attempt, stop, changes>>

OpenEntry ==
    /\ pc = "entry" /\ i <= Len(archive)
    /\ UNCHANGED tree
    /\ IF stop \/ Contains(Entry.path, "..") THEN Failed
       ELSE /\ Goes("walk") /\ dir' = Root /\ UNCHANGED <<i, copy>>
            /\ rest' = IF Entry.kind = "dir" THEN Entry.path ELSE Front(Entry.path)

Into(n) == dir' = n /\ rest' = Tail(rest) /\ UNCHANGED <<i, copy>>

(* Mutant: directories are opened through links. *)
OpenDir_Follows ==
    /\ pc = "walk" /\ rest # <<>> /\ UNCHANGED tree
    /\ LET c == child[dir][Head(rest)] IN
        IF IsDir(c) THEN Goes("walk") /\ Into(c)
        ELSE IF c # None /\ kind[c] = "link" THEN Goes("walk") /\ Into(Outside)
        ELSE IF c = None THEN Goes("mkdir") /\ UNCHANGED <<i, walk, copy>>
        ELSE Failed

OpenDir ==
    /\ pc = "walk" /\ rest # <<>> /\ UNCHANGED tree
    /\ LET c == child[dir][Head(rest)] IN
        IF IsDir(c) THEN Goes("walk") /\ Into(c)
        ELSE IF c = None THEN Goes("mkdir") /\ UNCHANGED <<i, walk, copy>>
        ELSE Failed

MakeDir ==
    /\ pc = "mkdir" /\ Goes("reopen") /\ UNCHANGED <<data, i, walk, copy>>
    /\ IF child[dir][Head(rest)] = None THEN Make(dir, Head(rest), "dir")
       ELSE UNCHANGED <<kind, child>>

ReopenDir ==
    /\ pc = "reopen" /\ UNCHANGED tree
    /\ LET c == child[dir][Head(rest)] IN
        IF IsDir(c) THEN Goes("walk") /\ Into(c) ELSE Failed

(* A link that leaves the workspace is skipped. *)
Arrive ==
    /\ pc = "walk" /\ rest = <<>> /\ UNCHANGED <<tree, total>>
    /\ IF \/ Entry.kind = "dir"
          \/ Entry.kind = "link" /\ ~StaysInside(Entry.path, Entry.target)
       THEN NextEntry
       ELSE Goes("clear") /\ UNCHANGED <<i, walk, out, left>>

ClearLeaf ==
    /\ pc = "clear" /\ UNCHANGED <<kind, data>>
    /\ IF IsDir(child[dir][Last(Entry.path)]) THEN Failed /\ UNCHANGED child
       ELSE /\ child' = [child EXCEPT ![dir][Last(Entry.path)] = None]
            /\ Goes("create") /\ UNCHANGED <<i, walk, copy>>

CreateLink ==
    /\ pc = "create" /\ Entry.kind = "link" /\ UNCHANGED data
    /\ IF child[dir][Last(Entry.path)] # None THEN Failed /\ UNCHANGED <<kind, child>>
       ELSE Make(dir, Last(Entry.path), "link") /\ NextEntry /\ UNCHANGED total

(* The file is created exclusively. *)
CreateFile ==
    /\ pc = "create" /\ Entry.kind = "file"
    /\ IF child[dir][Last(Entry.path)] # None THEN Failed /\ UNCHANGED tree
       ELSE /\ Make(dir, Last(Entry.path), "file") /\ out' = New /\ left' = Entry.size
            /\ data' = [data EXCEPT ![New] = <<i, 0>>]
            /\ Goes("copy") /\ UNCHANGED <<i, walk, total>>

(* Mutant: every entry has the limit for itself. *)
CopyChunk_Entry ==
    /\ pc = "copy" /\ left > 0
    /\ IF stop \/ data[out][2] > MaxBytes THEN Failed /\ UNCHANGED tree
       ELSE /\ data' = [data EXCEPT ![out][2] = @ + 1] /\ UNCHANGED <<kind, child>>
            /\ total' = 0 /\ left' = left - 1 /\ Goes("copy")
            /\ UNCHANGED <<i, walk, out>>

(* One byte more than the limit is read, which then fails. *)
CopyChunk ==
    /\ pc = "copy" /\ left > 0
    /\ IF stop \/ total > MaxBytes THEN Failed /\ UNCHANGED tree
       ELSE /\ data' = [data EXCEPT ![out][2] = @ + 1] /\ UNCHANGED <<kind, child>>
            /\ total' = total + 1 /\ left' = left - 1 /\ Goes("copy")
            /\ UNCHANGED <<i, walk, out>>

(* Mutant: a stop ends the copy like the end of the entry. *)
CloseFile_Stopped ==
    /\ pc = "copy" /\ (left = 0 \/ stop) /\ UNCHANGED tree
    /\ IF total > MaxBytes THEN Failed ELSE NextEntry /\ UNCHANGED total

CloseFile ==
    /\ pc = "copy" /\ left = 0 /\ UNCHANGED tree
    /\ IF stop \/ total > MaxBytes THEN Failed ELSE NextEntry /\ UNCHANGED total

-----------------------------------------------------------------------------

(* The job timed out, or was canceled: restore is told to stop. *)
Stop ==
    /\ ~stop /\ stop' = TRUE
    /\ UNCHANGED <<archive, tree, pc, i, walk, copy, attempt, result, changes>>

Inside == {Root} \cup {n \in Nodes : IsDir(n) /\ \E m \in Names : child[Root][m] = n}

(* A process of the job replaces a name in the workspace. *)
Change(d, name, k) ==
    /\ changes < MaxChanges /\ changes' = changes + 1 /\ pc # "done"
    /\ IF k = "none" THEN child' = [child EXCEPT ![d][name] = None] /\ UNCHANGED kind
       ELSE Make(d, name, k)
    /\ UNCHANGED <<archive, data, pc, i, walk, copy, attempt, result, stop>>

Extract ==
    \/ Download \/ Finished \/ OpenEntry \/ OpenDir \/ MakeDir \/ ReopenDir \/ Arrive
    \/ ClearLeaf \/ CreateLink \/ CreateFile \/ CopyChunk \/ CloseFile

Next ==
    \/ Extract \/ Stop
    \/ \E d \in Inside : \E name \in Names :
        \E k \in {"none", "dir", "file", "link"} : Change(d, name, k)

Spec == Init /\ [][Next]_vars

-----------------------------------------------------------------------------
(* Properties *)

TypeOK ==
    /\ archive \in Archives /\ i \in 0..(MaxEntries + 1)
    /\ kind \in [Nodes -> {"free", "dir", "file", "link"}]
    /\ child \in [Nodes -> [Names -> Nodes \cup {None}]]
    /\ \A d \in Nodes : kind[d] # "dir" => \A m \in Names : child[d][m] = None
    /\ pc \in {"download", "entry", "walk", "mkdir", "reopen", "clear", "create", "copy", "done"}
    /\ IsDir(dir) /\ attempt \in 1..Tries
    /\ stop \in BOOLEAN /\ result \in {"none", "ok", "failed"}

(* No entry lands outside the workspace, whatever links the archive has and  *)
(* the job puts in the way of the extraction: safe_fs.                       *)
OutsideIsUntouched == \A name \in Names : child[Outside][name] = None

(* Without changes by others, a successful extraction, also one after failed *)
(* attempts, leaves every file of the archive, whole: StopReader, clear_leaf.*)
ExtractedIsWhole ==
    result = "ok" /\ changes = 0 =>
        \A e \in DOMAIN archive : archive[e].kind = "file" =>
            LET at == FoldLeft(LAMBDA d, name : child[d][name], Root, archive[e].path)
            IN at # None /\ kind[at] = "file" /\ data[at] = <<e, archive[e].size>>

(* Two files of the first attempt never exceed the limit by more than a byte *)
(* together, wherever the archive's sizes are; each attempt counts anew:     *)
(* ExtractLimits.                                                            *)
LimitIsKept ==
    attempt = 1 =>
        \A n, m \in Nodes : data[n][1] # data[m][1] => data[n][2] + data[m][2] <= MaxBytes + 1

(* A claim the code does not keep: "The whole archive is rejected if any     *)
(* entry would land outside the workspace" (artifacts.rs:102).  The entries  *)
(* are looked at one by one, and those before it are there by then           *)
(* (artifacts.rs:132).                                                       *)
RejectedAsAWhole ==
    result = "failed" /\ ~stop /\ (\E e \in DOMAIN archive : Contains(archive[e].path, "..")) =>
        \A n \in Nodes : kind[n] = "file" => data[n][1] = 0

=============================================================================
