------------------------------- MODULE Upgrade -------------------------------
(***************************************************************************)
(* `turboci upgrade` (src/main.rs): the program replaces its own file with *)
(* the latest release.  Several may run, each may be killed anywhere, and  *)
(* a release may be published between two requests.                        *)
(*                                                                         *)
(* A file is an inode; what a process has open it goes on writing to after *)
(* a rename.  Linux neither writes to a file that is running nor runs one  *)
(* that is open for writing.                                               *)
(*                                                                         *)
(* No lock keeps two upgrades apart, and the file next to the program is   *)
(* the same for both (divergence 23 of the README).  An upgrade is crossed *)
(* when another one opened that file while it had it in hand; a history    *)
(* variable says which are.  To one that runs while another one renames,   *)
(* Linux calls its own file "turboci (deleted)": it upgrades that name,    *)
(* and the program stays as it is.                                         *)
(***************************************************************************)
EXTENDS Naturals, FiniteSets

CONSTANTS
    Upgraders,          \* processes of `turboci upgrade`
    MaxVersion,         \* the last release (a bound)
    MaxRuns             \* runs of each upgrader (a bound)

UpgradeAssumption ==
    IsFiniteSet(Upgraders) /\ MaxVersion \in Nat \ {0} /\ MaxRuns \in Nat

(* What a file may hold: a version, a part of one, or a download that came   *)
(* out wrong, which may still run.                                           *)
Partial == 0
Broken  == MaxVersion + 1
Foreign == MaxVersion + 2
NoFile  == 0
Inodes  == 1..(Cardinality(Upgraders) + 2)

VARIABLES
    latest,             \* GitHub: the latest release
    exe, temp,          \* the inodes of current_exe and of its .new
    content,            \* per inode
    runnable,           \* the inodes that are executable
    runs,
    pc,
    tag,                \* the version that runs, then the one to install
    binary, sums,       \* what was downloaded
    file,               \* the inode it is writing
    replaced,           \* those whose current_exe was renamed over
    faulty,             \* something outside failed in this run (history)
    crossed,            \* upgrades that had the file next to the program in
                        \* hand together with another one (history)
    doubtful            \* such a one put the program in place (history)

disk  == <<exe, temp, content, runnable>>
reads == <<tag, binary, sums>>
meets == <<crossed, doubtful>>
vars  == <<latest, disk, runs, pc, reads, file, replaced, faulty, meets>>

Init ==
    /\ latest = 1 /\ exe = 1 /\ temp = NoFile
    /\ content = [n \in Inodes |-> IF n = 1 THEN 1 ELSE Partial] /\ runnable = {1}
    /\ runs = [u \in Upgraders |-> 0] /\ pc = [u \in Upgraders |-> "idle"]
    /\ tag = [u \in Upgraders |-> 0] /\ binary = [u \in Upgraders |-> Partial]
    /\ sums = [u \in Upgraders |-> "none"] /\ file = [u \in Upgraders |-> NoFile]
    /\ replaced = {}
    /\ faulty = [u \in Upgraders |-> FALSE] /\ crossed = {} /\ doubtful = FALSE

Goes(u, from, to) == pc[u] = from /\ pc' = [pc EXCEPT ![u] = to]
Fails(u, from) == Goes(u, from, "failed") /\ faulty' = [faulty EXCEPT ![u] = TRUE]

Writers(n) == {u \in Upgraders : pc[u] = "writing" /\ file[u] = n}
Running(n) == {u \in Upgraders : pc[u] = "running" /\ file[u] = n}
CanRun(n) == n \in runnable /\ content[n] \notin {Partial, Broken} /\ Writers(n) = {}

(* u has yet to ask for current_exe; u counts on the file next to it.        *)
Early(u) == pc[u] \in {"look", "binary", "sums", "verify", "open"}
InHand(u) == pc[u] \in {"writing", "chmod", "try", "running", "remove", "rename"}
Company(u) == {v \in Upgraders \ {u} : InHand(v)}

Start(u) ==
    /\ pc[u] \in {"idle", "failed", "upgraded", "current"} /\ runs[u] < MaxRuns
    /\ CanRun(exe) /\ tag' = [tag EXCEPT ![u] = content[exe]]
    /\ runs' = [runs EXCEPT ![u] = @ + 1] /\ pc' = [pc EXCEPT ![u] = "look"]
    /\ faulty' = [faulty EXCEPT ![u] = FALSE] /\ crossed' = crossed \ {u}
    /\ replaced' = replaced \ {u}
    /\ UNCHANGED <<latest, disk, binary, sums, file, doubtful>>

(* A release that differs from what runs is taken for newer. *)
Look(u) ==
    /\ tag' = [tag EXCEPT ![u] = latest]
    /\ Goes(u, "look", IF tag[u] = latest THEN "current" ELSE "binary")
    /\ UNCHANGED <<latest, disk, runs, replaced, binary, sums, file, faulty, meets>>

DownloadBinary(u) ==
    /\ Goes(u, "binary", "sums")
    /\ \/ binary' = [binary EXCEPT ![u] = tag[u]] /\ UNCHANGED faulty
       \/ /\ \E wrong \in {Broken, Foreign} : binary' = [binary EXCEPT ![u] = wrong]
          /\ faulty' = [faulty EXCEPT ![u] = TRUE]
    /\ UNCHANGED <<latest, disk, runs, replaced, tag, sums, file, meets>>

(* The checksums may have no entry for this platform. *)
DownloadSums(u) ==
    /\ Goes(u, "sums", "verify")
    /\ \/ sums' = [sums EXCEPT ![u] = "entry"] /\ UNCHANGED faulty
       \/ sums' = [sums EXCEPT ![u] = "no entry"] /\ faulty' = [faulty EXCEPT ![u] = TRUE]
    /\ UNCHANGED <<latest, disk, runs, replaced, tag, binary, file, meets>>

DownloadFails(u) ==
    /\ \E from \in {"look", "binary", "sums"} : Fails(u, from)
    /\ UNCHANGED <<latest, disk, runs, replaced, reads, file, meets>>

(* Mutant: a file without checksums is taken. *)
Verified_Absent(u) == sums[u] = "entry" => binary[u] \in 1..MaxVersion

Verified(u) == sums[u] = "entry" /\ binary[u] \in 1..MaxVersion

Verify(u) ==
    /\ Goes(u, "verify", IF Verified(u) THEN "open" ELSE "failed")
    /\ UNCHANGED <<latest, disk, runs, replaced, reads, file, faulty, meets>>

(* u takes the file next to the program in hand, whoever else has it.        *)
Meets(u) == crossed' = crossed \cup (IF Company(u) = {} THEN {} ELSE Company(u) \cup {u})

Unused == CHOOSE n \in Inodes : n # exe /\ n # temp /\ \A u \in Upgraders : file[u] # n

(* The other name: nothing of it concerns the program.                       *)
Astray(u) ==
    /\ u \in replaced /\ \E to \in {"upgraded", "failed"} : Goes(u, "open", to)
    /\ UNCHANGED <<latest, disk, runs, replaced, reads, file, faulty, meets>>

(* Mutant: a file that is there already is an error. *)
Open_New(u) ==
    /\ u \notin replaced
    /\ Goes(u, "open", IF temp = NoFile THEN "writing" ELSE "failed")
    /\ temp' = IF temp = NoFile THEN Unused ELSE temp
    /\ file' = [file EXCEPT ![u] = temp'] /\ content' = [content EXCEPT ![temp'] = Partial]
    /\ Meets(u)
    /\ UNCHANGED <<latest, exe, runnable, runs, replaced, reads, faulty, doubtful>>

(* fs::write: what is there is truncated. *)
Open(u) ==
    /\ u \notin replaced /\ (temp # NoFile => Running(temp) = {})
    /\ Goes(u, "open", "writing")
    /\ temp' = IF temp = NoFile THEN Unused ELSE temp
    /\ file' = [file EXCEPT ![u] = temp'] /\ content' = [content EXCEPT ![temp'] = Partial]
    /\ runnable' = IF temp = NoFile THEN runnable \ {temp'} ELSE runnable
    /\ Meets(u)
    /\ UNCHANGED <<latest, exe, runs, replaced, reads, faulty, doubtful>>

(* The disk is full, or another upgrade runs the file.                       *)
OpenFails(u) ==
    /\ u \notin replaced
    /\ \/ Fails(u, "open") /\ UNCHANGED crossed
       \/ /\ temp # NoFile /\ Running(temp) # {}
          /\ Goes(u, "open", "failed") /\ crossed' = crossed \cup {u} /\ UNCHANGED faulty
    /\ UNCHANGED <<latest, disk, runs, replaced, reads, file, doubtful>>

Write(u) ==
    /\ Goes(u, "writing", "chmod") /\ content' = [content EXCEPT ![file[u]] = binary[u]]
    /\ UNCHANGED <<latest, exe, temp, runnable, runs, replaced, reads, file, faulty, meets>>

WriteFails(u) == Fails(u, "writing") /\ UNCHANGED <<latest, disk, runs, replaced, reads, file, meets>>

(* From here on the file is found by its name. *)
Chmod(u) ==
    /\ Goes(u, "chmod", IF temp = NoFile THEN "failed" ELSE "try")
    /\ runnable' = runnable \cup ({temp} \ {NoFile})
    /\ UNCHANGED <<latest, exe, temp, content, runs, replaced, reads, file, faulty, meets>>

(* A release may be of no use on this host.                                  *)
Try(u) ==
    /\ \/ CanRun(temp) /\ Goes(u, "try", "running") /\ UNCHANGED faulty
       \/ /\ Goes(u, "try", "remove")
          /\ faulty' = IF CanRun(temp) THEN [faulty EXCEPT ![u] = TRUE] ELSE faulty
    /\ file' = [file EXCEPT ![u] = temp]
    /\ UNCHANGED <<latest, disk, runs, replaced, reads, meets>>

Tried(u) ==
    /\ Goes(u, "running", "rename") /\ UNCHANGED <<latest, disk, runs, replaced, reads, file, faulty, meets>>

Remove(u) ==
    /\ Goes(u, "remove", "failed") /\ temp' \in {NoFile, temp}
    /\ UNCHANGED <<latest, exe, content, runnable, runs, replaced, reads, file, faulty, meets>>

(* Mutant: a rename that fails is not noticed. *)
Rename_Unnoticed(u) ==
    /\ Goes(u, "rename", "upgraded")
    /\ \/ exe' = temp /\ temp' = NoFile
       \/ UNCHANGED <<exe, temp>>
    /\ UNCHANGED <<latest, content, runnable, runs, replaced, reads, file, faulty, meets>>

Rename(u) ==
    /\ Goes(u, "rename", IF temp = NoFile THEN "failed" ELSE "upgraded")
    /\ exe' = IF temp = NoFile THEN exe ELSE temp
    /\ doubtful' = IF temp = NoFile THEN doubtful ELSE u \in crossed
    /\ replaced' = IF temp = NoFile THEN replaced ELSE replaced \cup {v \in Upgraders : Early(v)}
    /\ temp' = NoFile
    /\ UNCHANGED <<latest, content, runnable, runs, reads, file, faulty, crossed>>

Kill(u) ==
    /\ pc[u] \notin {"idle", "failed", "upgraded", "current"}
    /\ pc' = [pc EXCEPT ![u] = "failed"] /\ faulty' = [faulty EXCEPT ![u] = TRUE]
    /\ UNCHANGED <<latest, disk, runs, replaced, reads, file, meets>>

Release ==
    /\ latest < MaxVersion /\ latest' = latest + 1
    /\ UNCHANGED <<disk, runs, replaced, pc, reads, file, faulty, meets>>

Next ==
    \/ \E u \in Upgraders :
        \/ Start(u) \/ Look(u) \/ DownloadBinary(u) \/ DownloadSums(u) \/ DownloadFails(u)
        \/ Verify(u) \/ Open(u) \/ Astray(u) \/ OpenFails(u) \/ Write(u) \/ WriteFails(u) \/ Chmod(u)
        \/ Try(u) \/ Tried(u) \/ Remove(u) \/ Rename(u) \/ Kill(u)
    \/ Release

Spec == Init /\ [][Next]_vars

-----------------------------------------------------------------------------
(* Properties *)

TypeOK ==
    /\ latest \in 1..MaxVersion /\ exe \in Inodes /\ temp \in Inodes \cup {NoFile}
    /\ content \in [Inodes -> Partial..Foreign] /\ runnable \subseteq Inodes
    /\ exe # temp
    /\ runs \in [Upgraders -> 0..MaxRuns] /\ file \in [Upgraders -> Inodes \cup {NoFile}]
    /\ replaced \subseteq Upgraders /\ crossed \subseteq Upgraders /\ doubtful \in BOOLEAN

(* The program's file is a whole release that runs, at every moment and      *)
(* wherever the upgrade is killed: "after checking it against the release's  *)
(* SHA256SUMS and making sure it runs" (upgrade).  When a crossed upgrade    *)
(* put it in place it may be cut short, but it is never a file that was not  *)
(* verified.                                                                 *)
ExeIsWhole ==
    /\ content[exe] \in Partial..MaxVersion
    /\ ~doubtful => content[exe] # Partial /\ exe \in runnable

(* The sentence as it stands (divergence 23).                                *)
ExeAlwaysRuns == content[exe] \in 1..MaxVersion /\ exe \in runnable

(* Only what fails outside, a kill, or another upgrade at the same time      *)
(* makes an upgrade fail: what an earlier run left next to the program does  *)
(* not: fs::write of upgrade.                                                *)
LeftoversDoNotMatter == \A u \in Upgraders : pc[u] = "failed" =>
        faulty[u] \/ u \in crossed \cup replaced

(* An upgrade that says so has put the release that it found in place, if it *)
(* was not crossed and its own file was not renamed over while it ran.       *)
InstallsFound ==
    \A u \in Upgraders \ (crossed \cup replaced) :
        pc[u] # "upgraded" /\ pc'[u] = "upgraded"
            => content'[exe'] = tag[u] /\ exe' \in runnable'
UpgradedIsInstalled == [][InstallsFound]_vars

=============================================================================
