----------------------------- MODULE UpgradeProofs -----------------------------
(***************************************************************************)
(* Proofs about Upgrade, for any number of releases and of upgrades, at    *)
(* the same time or one after the other, however each of them ends.        *)
(***************************************************************************)
EXTENDS Upgrade, FiniteSetTheorems, TLAPS

Releases == 1 .. MaxVersion

(* The places of an upgrade from where on ... the file next to the program   *)
(* is its own, holds what it downloaded, and is executable.                  *)
Opened   == {"writing", "chmod", "try", "running", "rename"}
Written  == Opened \ {"writing"}
Runs     == Written \ {"chmod"}
Verifieds == {"open"} \cup Opened
Positions ==
    {"idle", "look", "binary", "sums", "verify", "remove", "failed", "upgraded", "current"}
        \cup Verifieds

TypeInv ==
    /\ TypeOK /\ content \in [Inodes -> Partial .. MaxVersion]
    /\ pc \in [Upgraders -> Positions] /\ faulty \in [Upgraders -> BOOLEAN]
    /\ tag \in [Upgraders -> 0 .. MaxVersion] /\ binary \in [Upgraders -> Partial .. Foreign]
    /\ sums \in [Upgraders -> {"none", "entry", "no entry"}]

(* What is not as released is a fault of what is outside.                    *)
DownloadInv(u) ==
    /\ pc[u] \in {"binary", "sums", "verify"} => tag[u] \in Releases
    /\ pc[u] \in {"sums", "verify"} /\ binary[u] # tag[u] =>
         binary[u] \in {Broken, Foreign} /\ faulty[u]
    /\ pc[u] = "verify" => sums[u] = "entry" \/ faulty[u]

(* What is verified is the release.  A file that is still written can be the *)
(* program's only because a crossed upgrade renamed it too soon.             *)
FileInv(u) ==
    /\ pc[u] \in Verifieds => tag[u] \in Releases /\ binary[u] = tag[u]
    /\ pc[u] = "writing" /\ file[u] = exe => doubtful

(* The file next to the program is that of an upgrade that is not crossed.   *)
OwnInv(u) ==
    /\ pc[u] \in Opened => temp # NoFile /\ file[u] = temp
    /\ pc[u] \in Written => content[temp] = tag[u]
    /\ pc[u] \in Runs => temp \in runnable

(* An upgrade that failed has a reason; every run in progress was counted.   *)
ReasonInv(u) ==
    /\ pc[u] \in {"remove", "failed"} => faulty[u] \/ u \in crossed \/ u \in replaced
    /\ pc[u] # "idle" => runs[u] > 0

UpgraderInv(u) ==
    DownloadInv(u) /\ FileInv(u) /\ (u \notin crossed => OwnInv(u)) /\ ReasonInv(u)

(* Two upgrades that have the file in hand are both crossed.                 *)
CrossedInv ==
    \A u, v \in Upgraders : u # v /\ InHand(u) /\ InHand(v) => u \in crossed

IInv == TypeInv /\ ExeIsWhole /\ CrossedInv /\ \A u \in Upgraders : UpgraderInv(u)

-----------------------------------------------------------------------------
LEMMA InodesThere ==
  ASSUME UpgradeAssumption
  PROVE  /\ Cardinality(Upgraders) \in Nat
         /\ 1 \in Inodes /\ Inodes \subseteq Nat \ {NoFile}
  <1>1. Cardinality(Upgraders) \in Nat
    BY FS_CardinalityType DEF UpgradeAssumption
  <1> QED
    BY <1>1 DEF Inodes, NoFile

LEMMA InitIInv == ASSUME UpgradeAssumption PROVE Init => IInv
  <1> SUFFICES ASSUME Init PROVE IInv
    OBVIOUS
  <1>1. MaxVersion \in Nat \ {0} /\ MaxRuns \in Nat
    BY DEF UpgradeAssumption
  <1>2. 1 \in Inodes /\ NoFile # 1
    BY InodesThere DEF NoFile
  <1>3. /\ 1 \in 1 .. MaxVersion /\ 0 \in 0 .. MaxRuns /\ 0 \in 0 .. MaxVersion
        /\ 1 \in Partial .. MaxVersion /\ Partial \in Partial .. MaxVersion
        /\ 1 \in Partial .. Foreign /\ Partial \in Partial .. Foreign /\ Partial # 1
    BY <1>1 DEF Partial, Foreign
  <1>4. content[exe] = 1 /\ exe = 1 /\ temp = NoFile
    BY <1>2 DEF Init
  <1>5. content \in [Inodes -> Partial .. Foreign] /\ content \in [Inodes -> Partial .. MaxVersion]
    BY <1>3 DEF Init
  <1>6. TypeOK
    BY <1>2, <1>3, <1>4, <1>5 DEF Init, TypeOK
  <1>7. TypeInv
    BY <1>3, <1>5, <1>6 DEF Init, TypeInv, Positions
  <1>8. ASSUME NEW u \in Upgraders PROVE UpgraderInv(u) /\ ~InHand(u)
    BY DEF Init, UpgraderInv, DownloadInv, FileInv, OwnInv, ReasonInv, Verifieds, Opened,
       Written, Runs, InHand
  <1>9. ExeIsWhole
    BY <1>2, <1>3, <1>4 DEF Init, ExeIsWhole
  <1> QED
    BY <1>7, <1>8, <1>9 DEF IInv, CrossedInv

(* A step of another upgrade: it changes nothing of v, and what it does to   *)
(* the file next to the program it does to a v that is crossed.              *)
Same(v) ==
    /\ pc'[v] = pc[v] /\ tag'[v] = tag[v] /\ binary'[v] = binary[v] /\ sums'[v] = sums[v]
    /\ file'[v] = file[v] /\ runs'[v] = runs[v] /\ (faulty[v] => faulty'[v])
    /\ (v \in crossed => v \in crossed') /\ (v \in replaced => v \in replaced')

LEMMA OtherKeeps ==
  ASSUME IInv, NEW v \in Upgraders, Same(v),
         UNCHANGED <<temp, content, runnable>> \/ (InHand(v) => v \in crossed'),
         pc[v] = "writing" /\ file[v] = exe' => doubtful'
  PROVE  UpgraderInv(v)'
  <1>1. UpgraderInv(v)
    BY DEF IInv
  <1>2. (DownloadInv(v) /\ ReasonInv(v))'
    BY <1>1 DEF UpgraderInv, DownloadInv, ReasonInv, Same
  <1>3. FileInv(v)'
    BY <1>1 DEF UpgraderInv, FileInv, Same
  <1>4. (v \notin crossed => OwnInv(v))'
    BY <1>1 DEF UpgraderInv, OwnInv, Same, InHand, Opened, Written, Runs
  <1> QED
    BY <1>2, <1>3, <1>4 DEF UpgraderInv

(* No upgrade takes the file in hand, and none is cleared that has it.       *)
LEMMA CrossedKept ==
  ASSUME IInv, NEW u \in Upgraders, NEW to, pc' = [pc EXCEPT ![u] = to],
         InHand(u)' => InHand(u), \A v \in Upgraders : InHand(v) => (v \in crossed => v \in crossed')
  PROVE  CrossedInv'
  <1>1. \A v \in Upgraders \ {u} : pc'[v] = pc[v]
    BY DEF IInv, TypeInv
  <1>2. \A v \in Upgraders : InHand(v)' => InHand(v)
    BY <1>1 DEF InHand
  <1> QED
    BY <1>2 DEF IInv, CrossedInv

(* The steps that leave the disk alone.                                      *)
LEMMA DiskFrame ==
  ASSUME UpgradeAssumption, IInv, NEW u \in Upgraders, UNCHANGED <<latest, disk, doubtful>>,
         NEW to \in Positions, pc' = [pc EXCEPT ![u] = to],
         runs' \in [Upgraders -> 0 .. MaxRuns],
         file' \in [Upgraders -> Inodes \cup {NoFile}], faulty' \in [Upgraders -> BOOLEAN],
         tag' \in [Upgraders -> 0 .. MaxVersion], binary' \in [Upgraders -> Partial .. Foreign],
         sums' \in [Upgraders -> {"none", "entry", "no entry"}],
         crossed' \subseteq Upgraders, replaced' \subseteq Upgraders,
         InHand(u)' => InHand(u) /\ (u \in crossed => u \in crossed'),
         \A v \in Upgraders \ {u} : Same(v), UpgraderInv(u)'
  PROVE  IInv'
  <1>1. TypeInv /\ TypeOK /\ ExeIsWhole /\ CrossedInv /\ \A v \in Upgraders : UpgraderInv(v)
    BY DEF IInv, TypeInv
  <1>2. UNCHANGED <<latest, exe, temp, content, runnable>> /\ (doubtful' <=> doubtful)
    BY Zenon DEF disk
  <1>3. TypeOK'
    <2>1. doubtful' \in BOOLEAN
      BY <1>1, Zenon DEF TypeOK
    <2> QED
      BY <1>1, <1>2, <2>1 DEF TypeOK
  <1>4. pc' \in [Upgraders -> Positions] /\ pc'[u] = to
    BY <1>1 DEF TypeInv
  <1>5. TypeInv'
    BY <1>1, <1>2, <1>3, <1>4 DEF TypeInv
  <1>6. ExeIsWhole'
    BY <1>1, <1>2 DEF ExeIsWhole
  <1>7. ASSUME NEW v \in Upgraders, v # u PROVE UpgraderInv(v)'
    <2>1. pc[v] = "writing" /\ file[v] = exe' => doubtful'
      BY <1>1, <1>2 DEF UpgraderInv, FileInv
    <2> QED
      BY <1>2, <1>7, <2>1, OtherKeeps
  <1>8. CrossedInv'
    <2>1. ASSUME NEW v \in Upgraders, InHand(v)' PROVE InHand(v) /\ (v \in crossed => v \in crossed')
      BY <2>1 DEF Same, InHand
    <2> QED
      BY <1>1, <2>1 DEF CrossedInv
  <1> QED
    BY <1>5, <1>6, <1>7, <1>8 DEF IInv

(* Until the download is verified, and after the upgrade is over. *)
LEMMA DownloadKeeps ==
  ASSUME UpgradeAssumption, IInv, NEW u \in Upgraders,
         \/ Start(u) \/ Look(u) \/ DownloadBinary(u) \/ DownloadSums(u) \/ DownloadFails(u)
         \/ Verify(u)
  PROVE  IInv'
  <1> USE DEF UpgraderInv, DownloadInv, FileInv, OwnInv, ReasonInv, Verifieds, Opened, Written,
              Runs, InHand
  <1>1. TypeInv /\ TypeOK /\ UpgraderInv(u)
    BY DEF IInv, TypeInv
  <1>2. MaxVersion \in Nat /\ MaxRuns \in Nat
    BY DEF UpgradeAssumption
  <1>3. CASE Start(u)
    <2>1. /\ pc' = [pc EXCEPT ![u] = "look"] /\ tag' = [tag EXCEPT ![u] = content[exe]]
          /\ runs' = [runs EXCEPT ![u] = runs[u] + 1] /\ runs[u] < MaxRuns
          /\ faulty' = [faulty EXCEPT ![u] = FALSE] /\ crossed' = crossed \ {u}
          /\ replaced' = replaced \ {u}
          /\ UNCHANGED <<latest, disk, binary, sums, file, doubtful>>
      BY <1>1, <1>3 DEF Start, TypeOK
    <2>2. runs[u] \in Nat /\ runs[u] + 1 \in 0 .. MaxRuns /\ runs[u] + 1 > 0
      <3>1. runs[u] \in 0 .. MaxRuns
        BY <1>1 DEF TypeOK
      <3> QED
        BY ONLY <1>2, <2>1, <3>1
    <2>3. content[exe] \in 0 .. MaxVersion
      BY <1>1, <1>2 DEF TypeInv, TypeOK, Partial
    <2>4. pc'[u] = "look" /\ runs'[u] > 0
      BY <1>1, <2>1, <2>2 DEF TypeOK, TypeInv
    <2>5. \A v \in Upgraders \ {u} : faulty[v] => faulty'[v]
      BY <1>1, <2>1, Zenon DEF TypeInv
    <2>6. \A v \in Upgraders \ {u} : Same(v)
      BY <1>1, <2>1, <2>5 DEF Same, TypeOK, TypeInv
    <2>7. faulty' \in [Upgraders -> BOOLEAN]
      BY <1>1, <2>1, Zenon DEF TypeInv
    <2> QED
      BY <1>1, <2>1, <2>2, <2>3, <2>4, <2>6, <2>7, DiskFrame DEF TypeOK, TypeInv, Positions
  <1>4. CASE Look(u)
    <2>1. PICK to \in {"current", "binary"} : pc' = [pc EXCEPT ![u] = to]
      BY <1>4 DEF Look, Goes
    <2>2. /\ pc[u] = "look" /\ tag' = [tag EXCEPT ![u] = latest]
          /\ UNCHANGED <<latest, disk, runs, replaced, binary, sums, file, faulty, crossed, doubtful>>
      BY <1>4 DEF Look, Goes, meets
    <2>3. pc'[u] = to /\ tag'[u] = latest /\ latest \in Releases /\ latest \in 0 .. MaxVersion
      <3>1. latest \in Releases
        BY <1>1 DEF TypeOK, Releases
      <3>2. latest \in 0 .. MaxVersion
        BY ONLY <1>2, <3>1 DEF Releases
      <3> QED
        BY <1>1, <2>1, <2>2, <3>1, <3>2 DEF TypeInv
    <2>4. UpgraderInv(u)'
      BY <1>1, <2>1, <2>2, <2>3
    <2>5. \A v \in Upgraders \ {u} : Same(v)
      BY <1>1, <2>1, <2>2 DEF Same, TypeInv
    <2> QED
      BY <1>1, <2>1, <2>2, <2>3, <2>4, <2>5, DiskFrame DEF TypeOK, TypeInv, Positions
  <1>5. CASE DownloadBinary(u)
    <2>1. /\ pc[u] = "binary" /\ pc' = [pc EXCEPT ![u] = "sums"]
          /\ UNCHANGED <<latest, disk, runs, replaced, tag, sums, file, crossed, doubtful>>
      BY <1>5 DEF DownloadBinary, Goes, meets
    <2>2. PICK got \in {tag[u], Broken, Foreign} :
            /\ binary' = [binary EXCEPT ![u] = got]
            /\ \/ got = tag[u] /\ faulty' = faulty
               \/ got \in {Broken, Foreign} /\ faulty' = [faulty EXCEPT ![u] = TRUE]
      BY <1>5 DEF DownloadBinary
    <2>3. tag[u] \in Releases
      BY <1>1, <2>1
    <2>4. got \in Partial .. Foreign
      BY <1>2, <2>3 DEF Releases, Partial, Broken, Foreign
    <2>5. pc'[u] = "sums" /\ binary'[u] = got
      BY <1>1, <2>1, <2>2 DEF TypeInv
    <2>6. got # tag[u] => got \in {Broken, Foreign} /\ faulty'[u]
      BY <1>1, <2>2, Zenon DEF TypeInv
    <2>7. UpgraderInv(u)'
      BY <1>1, <2>1, <2>3, <2>5, <2>6
    <2>8. /\ faulty' \in [Upgraders -> BOOLEAN]
          /\ \A v \in Upgraders \ {u} : faulty[v] => faulty'[v]
      BY <1>1, <2>2, Zenon DEF TypeInv
    <2>9. \A v \in Upgraders \ {u} : Same(v)
      BY <1>1, <2>1, <2>2, <2>8 DEF Same, TypeInv
    <2> QED
      BY <1>1, <2>1, <2>2, <2>4, <2>5, <2>7, <2>8, <2>9, DiskFrame DEF TypeOK, TypeInv, Positions
  <1>6. CASE DownloadSums(u)
    <2>1. /\ pc[u] = "sums" /\ pc' = [pc EXCEPT ![u] = "verify"]
          /\ UNCHANGED <<latest, disk, runs, replaced, tag, binary, file, crossed, doubtful>>
      BY <1>6 DEF DownloadSums, Goes, meets
    <2>2. PICK got \in {"entry", "no entry"} :
            /\ sums' = [sums EXCEPT ![u] = got]
            /\ \/ got = "entry" /\ faulty' = faulty
               \/ faulty' = [faulty EXCEPT ![u] = TRUE]
      BY <1>6 DEF DownloadSums
    <2>3. pc'[u] = "verify" /\ sums'[u] = got
      BY <1>1, <2>1, <2>2 DEF TypeInv
    <2>4. (faulty[u] => faulty'[u]) /\ (got # "entry" => faulty'[u])
      BY <1>1, <2>2, Zenon DEF TypeInv
    <2>5. UpgraderInv(u)'
      BY <1>1, <2>1, <2>3, <2>4
    <2>6. /\ faulty' \in [Upgraders -> BOOLEAN]
          /\ \A v \in Upgraders \ {u} : faulty[v] => faulty'[v]
      BY <1>1, <2>2, Zenon DEF TypeInv
    <2>7. \A v \in Upgraders \ {u} : Same(v)
      BY <1>1, <2>1, <2>2, <2>6 DEF Same, TypeInv
    <2> QED
      BY <1>1, <2>1, <2>2, <2>3, <2>5, <2>6, <2>7, DiskFrame DEF TypeOK, TypeInv, Positions
  <1>7. CASE DownloadFails(u)
    <2>1. /\ pc[u] # "idle" /\ pc' = [pc EXCEPT ![u] = "failed"]
          /\ faulty' = [faulty EXCEPT ![u] = TRUE]
          /\ UNCHANGED <<latest, disk, runs, replaced, tag, binary, sums, file, crossed, doubtful>>
      BY <1>7 DEF DownloadFails, Fails, Goes, reads, meets
    <2>2. pc'[u] = "failed"
      BY <1>1, <2>1 DEF TypeInv
    <2>3. /\ faulty'[u] /\ faulty' \in [Upgraders -> BOOLEAN]
          /\ \A v \in Upgraders \ {u} : faulty[v] => faulty'[v]
      BY <1>1, <2>1, Zenon DEF TypeInv
    <2>4. UpgraderInv(u)'
      BY <1>1, <2>1, <2>2, <2>3
    <2>5. \A v \in Upgraders \ {u} : Same(v)
      BY <1>1, <2>1, <2>3 DEF Same, TypeInv
    <2> QED
      BY <1>1, <2>1, <2>2, <2>3, <2>4, <2>5, DiskFrame DEF TypeOK, TypeInv, Positions
  <1>8. CASE Verify(u)
    <2>1. PICK to \in {"open", "failed"} :
            /\ pc' = [pc EXCEPT ![u] = to]
            /\ to = "open" => Verified(u)
            /\ to = "failed" => ~Verified(u)
      BY <1>8 DEF Verify, Goes
    <2>2. /\ pc[u] = "verify"
          /\ UNCHANGED <<latest, disk, runs, replaced, tag, binary, sums, file, faulty, crossed, doubtful>>
      BY <1>8 DEF Verify, Goes, reads, meets
    <2>3. pc'[u] = to
      BY <1>1, <2>1 DEF TypeInv
    <2>4. Broken \notin Releases /\ Foreign \notin Releases
      BY <1>2 DEF Releases, Broken, Foreign
    <2>5. to = "open" => binary[u] = tag[u]
      BY <1>1, <2>1, <2>2, <2>4 DEF Verified, Releases
    <2>6. to = "failed" => faulty[u]
      BY <1>1, <2>1, <2>2 DEF Verified, Releases
    <2>7. UpgraderInv(u)'
      BY <1>1, <2>1, <2>2, <2>3, <2>5, <2>6
    <2>8. \A v \in Upgraders \ {u} : Same(v)
      BY <1>1, <2>1, <2>2 DEF Same, TypeInv
    <2> QED
      BY <1>1, <2>1, <2>2, <2>3, <2>7, <2>8, DiskFrame DEF TypeOK, TypeInv, Positions
  <1> QED
    BY <1>3, <1>4, <1>5, <1>6, <1>7, <1>8

(* A failure, a kill, or an upgrade of another name. *)
LEMMA GivesUpKeeps ==
  ASSUME UpgradeAssumption, IInv, NEW u \in Upgraders,
         \/ Astray(u) \/ OpenFails(u) \/ WriteFails(u) \/ Kill(u)
  PROVE  IInv'
  <1>1. TypeInv /\ TypeOK /\ UpgraderInv(u)
    BY DEF IInv, TypeInv
  <1>2. PICK to \in {"failed", "upgraded"} : pc' = [pc EXCEPT ![u] = to]
    BY DEF Astray, OpenFails, WriteFails, Kill, Fails, Goes
  <1>3. /\ pc[u] # "idle" /\ crossed' \in {crossed, crossed \cup {u}}
        /\ UNCHANGED <<latest, disk, runs, replaced, tag, binary, sums, file, doubtful>>
    BY DEF Astray, OpenFails, WriteFails, Kill, Fails, Goes, reads, meets
  <1>4. \/ faulty' = [faulty EXCEPT ![u] = TRUE]
        \/ faulty' = faulty /\ (u \in crossed' \/ u \in replaced)
    BY DEF Astray, OpenFails, WriteFails, Kill, Fails
  <1>5. pc'[u] = to
    BY <1>1, <1>2 DEF TypeInv
  <1>6. /\ faulty'[u] \/ u \in crossed' \/ u \in replaced
        /\ faulty' \in [Upgraders -> BOOLEAN]
        /\ \A v \in Upgraders \ {u} : faulty[v] => faulty'[v]
    BY <1>1, <1>4, Zenon DEF TypeInv
  <1>7. UpgraderInv(u)'
    BY <1>1, <1>2, <1>3, <1>5, <1>6
    DEF UpgraderInv, DownloadInv, FileInv, OwnInv, ReasonInv, Verifieds, Opened, Written, Runs
  <1>8. \A v \in Upgraders \ {u} : Same(v)
    BY <1>1, <1>2, <1>3, <1>6 DEF Same, TypeInv
  <1> QED
    BY <1>1, <1>2, <1>3, <1>5, <1>6, <1>7, <1>8, DiskFrame DEF TypeOK, TypeInv, Positions, InHand

(* What is tried can be run: when it is not accepted, it is of no use here   *)
(* or another upgrade has it in hand.                                        *)
LEMMA TryKeeps ==
  ASSUME UpgradeAssumption, IInv, NEW u \in Upgraders, Try(u) \/ Tried(u)
  PROVE  IInv'
  <1> USE DEF UpgraderInv, DownloadInv, FileInv, OwnInv, ReasonInv, Verifieds, Opened, Written,
              Runs, InHand
  <1>1. TypeInv /\ TypeOK /\ CrossedInv /\ UpgraderInv(u)
    BY DEF IInv, TypeInv
  <1>2. PICK to \in {"running", "remove", "rename"} :
          /\ pc' = [pc EXCEPT ![u] = to]
          /\ to = "remove" => Try(u)
    BY DEF Try, Tried, Goes
  <1>3. /\ pc[u] \in {"try", "running"} /\ file' \in {file, [file EXCEPT ![u] = temp]}
        /\ UNCHANGED <<latest, disk, runs, replaced, tag, binary, sums, crossed, doubtful>>
    BY DEF Try, Tried, Goes, reads, meets
  <1>4. pc'[u] = to
    BY <1>1, <1>2 DEF TypeInv
  <1>5. u \notin crossed => file'[u] = temp
    BY <1>1, <1>3 DEF TypeOK
  <1>6. u \in crossed \/ CanRun(temp) \/ pc[u] # "try"
    <2> SUFFICES ASSUME pc[u] = "try", u \notin crossed PROVE CanRun(temp)
      OBVIOUS
    <2>1. content[temp] \in Releases /\ temp \in runnable
      BY <1>1
    <2>2. MaxVersion \in Nat
      BY DEF UpgradeAssumption
    <2>3. content[temp] \notin {Partial, Broken}
      BY <2>1, <2>2 DEF Partial, Broken, Releases
    <2>4. Writers(temp) = {}
      BY <1>1 DEF Writers, CrossedInv
    <2> QED
      BY <2>1, <2>3, <2>4 DEF CanRun
  <1>7. faulty' \in {faulty, [faulty EXCEPT ![u] = TRUE]}
    BY DEF Try, Tried
  <1>8. /\ faulty' \in [Upgraders -> BOOLEAN]
        /\ \A v \in Upgraders : faulty[v] => faulty'[v]
    BY <1>1, <1>7, Zenon DEF TypeInv
  <1>9. to = "remove" => faulty'[u] \/ u \in crossed
    <2> SUFFICES ASSUME to = "remove", u \notin crossed PROVE faulty'[u]
      OBVIOUS
    <2>1. Try(u) /\ Goes(u, "try", "remove")
      BY <1>1, <1>2, <1>4 DEF Try, Goes, TypeInv
    <2>2. faulty' = [faulty EXCEPT ![u] = TRUE]
      BY <1>1, <1>4, <1>6, <2>1 DEF Try, Goes, TypeInv
    <2> QED
      BY <1>1, <2>2, Zenon DEF TypeInv
  <1>10. UpgraderInv(u)'
    BY <1>1, <1>2, <1>3, <1>4, <1>5, <1>9 DEF disk
  <1>11. \A v \in Upgraders \ {u} : Same(v)
    BY <1>1, <1>2, <1>3, <1>8 DEF Same, TypeInv, TypeOK
  <1>12. file' \in [Upgraders -> Inodes \cup {NoFile}]
    BY <1>1, <1>3 DEF TypeOK
  <1> QED
    BY <1>1, <1>2, <1>3, <1>8, <1>10, <1>11, <1>12, DiskFrame
    DEF TypeOK, TypeInv, Positions, Verifieds

-----------------------------------------------------------------------------
(* The steps that change the disk.                                         *)

(* There is an inode for a new file. *)
LEMMA UnusedIsFree ==
  ASSUME UpgradeAssumption, IInv, temp = NoFile
  PROVE  Unused \in Inodes /\ Unused # exe /\ \A v \in Upgraders : file[v] # Unused
  <1> DEFINE Held == {file[v] : v \in Upgraders}
             Used == Held \cup {exe}
             N == Cardinality(Upgraders)
  <1>1. N \in Nat /\ IsFiniteSet(Upgraders)
    BY InodesThere DEF UpgradeAssumption
  <1>2. IsFiniteSet(Held) /\ Cardinality(Held) <= N
    <2>1. file \in [Upgraders -> Held]
      BY DEF IInv, TypeInv, TypeOK
    <2>2. file \in Surjection(Upgraders, Held)
      BY <2>1 DEF Surjection
    <2> HIDE DEF Held
    <2> QED
      BY <1>1, <2>2, FS_Surjection
  <1>3. IsFiniteSet(Used) /\ Cardinality(Used) <= N + 1
    <2>1. Cardinality(Held) \in Nat
      BY <1>2, FS_CardinalityType
    <2>2. /\ IsFiniteSet(Used)
          /\ Cardinality(Used) = IF exe \in Held THEN Cardinality(Held) ELSE Cardinality(Held) + 1
      <3> HIDE DEF Held
      <3> QED
        BY <1>2, FS_AddElement
    <2> HIDE DEF Used, Held, N
    <2> QED
      BY <1>1, <1>2, <2>1, <2>2
  <1>4. Cardinality(Inodes) = N + 2
    <2> HIDE DEF N
    <2>1. 1 .. (N + 2) = Inodes
      BY DEF Inodes, N
    <2>2. Cardinality(1 .. (N + 2)) = N + 2
      BY <1>1, FS_Interval
    <2> QED
      BY <2>1, <2>2
  <1>5. ~(Inodes \subseteq Used)
    <2> SUFFICES ASSUME Inodes \subseteq Used PROVE FALSE
      OBVIOUS
    <2>1. Cardinality(Inodes) <= Cardinality(Used) /\ Cardinality(Used) \in Nat
      <3> HIDE DEF Used
      <3> QED
        BY <1>3, FS_Subset, FS_CardinalityType
    <2> HIDE DEF Used, N
    <2> QED
      BY <1>1, <1>3, <1>4, <2>1
  <1>6. PICK n \in Inodes : n \notin Used
    BY <1>5
  <1>7. n # exe /\ n # temp /\ \A v \in Upgraders : file[v] # n
    BY <1>6, InodesThere
  <1> QED
    BY <1>6, <1>7 DEF Unused

LEMMA OpenKeeps == ASSUME UpgradeAssumption, IInv, NEW u \in Upgraders, Open(u) PROVE IInv'
  <1> USE DEF UpgraderInv, DownloadInv, FileInv, OwnInv, ReasonInv, Verifieds, Opened, Written, Runs
  <1>1. /\ TypeInv /\ TypeOK /\ ExeIsWhole /\ CrossedInv
        /\ \A v \in Upgraders : UpgraderInv(v)
    BY DEF IInv, TypeInv
  <1>2. /\ pc[u] = "open" /\ pc' = [pc EXCEPT ![u] = "writing"]
        /\ temp' = (IF temp = NoFile THEN Unused ELSE temp)
        /\ file' = [file EXCEPT ![u] = temp'] /\ content' = [content EXCEPT ![temp'] = Partial]
        /\ runnable' = (IF temp = NoFile THEN runnable \ {temp'} ELSE runnable)
        /\ UNCHANGED <<latest, exe, runs, replaced, tag, binary, sums, faulty>>
        /\ Meets(u)
    BY DEF Open, Goes, reads
  <1>3. doubtful' <=> doubtful
    BY Zenon DEF Open
  <1>4. temp' \in Inodes /\ temp' # exe
    BY <1>1, <1>2, UnusedIsFree DEF TypeOK
  <1>5. temp' # NoFile
    BY <1>4, InodesThere
  <1>6. pc'[u] = "writing" /\ file'[u] = temp' /\ content'[exe] = content[exe]
    BY <1>1, <1>2, <1>4 DEF TypeInv, TypeOK
  <1>7. /\ Partial \in Partial .. MaxVersion
        /\ \A x \in Partial .. MaxVersion : x \in Partial .. Foreign
    BY DEF Partial, Foreign, UpgradeAssumption
  <1>8. content' \in [Inodes -> Partial .. MaxVersion] /\ content' \in [Inodes -> Partial .. Foreign]
    BY <1>1, <1>2, <1>7 DEF TypeInv
  <1>9. crossed \subseteq crossed' /\ crossed' \subseteq Upgraders
    BY <1>1, <1>2 DEF Meets, Company, TypeOK
  <1>10. doubtful' \in BOOLEAN
    BY <1>1, Zenon DEF TypeOK, Open
  <1>11. TypeOK'
    BY <1>1, <1>2, <1>4, <1>8, <1>9, <1>10 DEF TypeOK
  <1>12. TypeInv'
    BY <1>1, <1>2, <1>8, <1>11 DEF TypeInv, Positions
  <1>13. UpgraderInv(u)'
    BY <1>1, <1>2, <1>4, <1>5, <1>6
  <1>14. ASSUME NEW v \in Upgraders, v # u PROVE UpgraderInv(v)' /\ (InHand(v) => {u, v} \subseteq crossed')
    <2>1. InHand(v) => v \in crossed' /\ u \in crossed'
      BY <1>2, <1>14 DEF Meets, Company
    <2>2. Same(v)
      BY <1>1, <1>2, <1>9, <1>14 DEF Same, TypeInv, TypeOK
    <2>3. pc[v] = "writing" /\ file[v] = exe' => doubtful'
      BY <1>1, <1>2, <1>3
    <2> QED
      BY <1>14, <2>1, <2>2, <2>3, OtherKeeps
  <1>15. ExeIsWhole'
    BY <1>1, <1>2, <1>3, <1>4, <1>6, <1>8 DEF ExeIsWhole, TypeOK
  <1>16. CrossedInv'
    <2>1. ASSUME NEW v \in Upgraders, NEW w \in Upgraders, v # w, InHand(v)', InHand(w)'
          PROVE  v \in crossed'
      <3>1. (v # u => InHand(v)) /\ (w # u => InHand(w))
        BY <1>1, <1>2, <2>1 DEF TypeInv, InHand
      <3> QED
        BY <1>14, <2>1, <3>1
    <2> QED
      BY <2>1 DEF CrossedInv
  <1> QED
    BY <1>12, <1>13, <1>14, <1>15, <1>16 DEF IInv

(* What an upgrade that has the file in hand does to it, and to the others.  *)
LEMMA InHandKeeps ==
  ASSUME IInv, NEW u \in Upgraders, InHand(u), NEW to \in Positions, pc' = [pc EXCEPT ![u] = to],
         TypeInv', UpgraderInv(u)', ExeIsWhole',
         UNCHANGED <<runs, tag, binary, sums, file, faulty, crossed>>, replaced \subseteq replaced',
         exe' # exe => doubtful' \/ u \notin crossed, doubtful /\ exe' = exe => doubtful'
  PROVE  IInv'
  <1>1. TypeInv /\ CrossedInv /\ \A v \in Upgraders : UpgraderInv(v)
    BY DEF IInv
  <1>2. ASSUME NEW v \in Upgraders, v # u PROVE UpgraderInv(v)'
    <2>1. InHand(v) => v \in crossed' /\ u \in crossed
      BY <1>1, <1>2 DEF CrossedInv
    <2>2. \A w \in Upgraders : faulty[w] => faulty'[w]
      BY Zenon
    <2>3. Same(v)
      BY <1>1, <1>2, <2>2 DEF Same, TypeInv
    <2>4. pc[v] = "writing" /\ file[v] = exe' => doubtful'
      BY <1>1, <2>1 DEF UpgraderInv, FileInv, InHand
    <2> QED
      BY <1>2, <2>1, <2>3, <2>4, OtherKeeps
  <1>3. CrossedInv'
    BY CrossedKept
  <1> QED
    BY <1>2, <1>3 DEF IInv

LEMMA WriteKeeps == ASSUME UpgradeAssumption, IInv, NEW u \in Upgraders, Write(u) PROVE IInv'
  <1> USE DEF UpgraderInv, DownloadInv, FileInv, OwnInv, ReasonInv, Verifieds, Opened, Written, Runs
  <1>1. TypeInv /\ TypeOK /\ ExeIsWhole /\ UpgraderInv(u)
    BY DEF IInv, TypeInv
  <1>2. /\ pc[u] = "writing" /\ pc' = [pc EXCEPT ![u] = "chmod"]
        /\ content' = [content EXCEPT ![file[u]] = binary[u]]
        /\ UNCHANGED <<latest, exe, temp, runnable, runs, replaced, tag, binary, sums, file, faulty,
                       crossed, doubtful>>
    BY DEF Write, Goes, reads, meets
  <1>3. doubtful' <=> doubtful
    BY <1>2, Zenon
  <1>4. /\ binary[u] = tag[u] /\ tag[u] \in Releases
        /\ (u \notin crossed => file[u] = temp /\ temp \in Inodes /\ temp # exe)
    BY <1>1, <1>2 DEF TypeOK
  <1>5. /\ pc'[u] = "chmod" /\ (u \notin crossed => content'[temp] = tag[u])
        /\ (file[u] # exe => content'[exe] = content[exe])
    BY <1>1, <1>2, <1>4 DEF TypeInv, TypeOK
  <1>6. /\ binary[u] \in Partial .. MaxVersion
        /\ \A x \in Partial .. MaxVersion : x \in Partial .. Foreign
    BY <1>4 DEF Releases, Partial, Foreign, UpgradeAssumption
  <1>7. content' \in [Inodes -> Partial .. MaxVersion] /\ content' \in [Inodes -> Partial .. Foreign]
    BY <1>1, <1>2, <1>6 DEF TypeInv
  <1>8. doubtful' \in BOOLEAN
    BY <1>1, <1>2, Zenon DEF TypeOK
  <1>9. TypeOK'
    BY <1>1, <1>2, <1>7, <1>8 DEF TypeOK
  <1>10. TypeInv'
    BY <1>1, <1>2, <1>7, <1>9 DEF TypeInv, Positions
  <1>11. UpgraderInv(u)'
    BY <1>1, <1>2, <1>4, <1>5
  <1>12. ExeIsWhole'
    BY <1>1, <1>2, <1>3, <1>5, <1>7 DEF ExeIsWhole, TypeOK
  <1> QED
    BY <1>1, <1>2, <1>3, <1>10, <1>11, <1>12, InHandKeeps DEF InHand, Positions

LEMMA ChmodKeeps == ASSUME UpgradeAssumption, IInv, NEW u \in Upgraders, Chmod(u) PROVE IInv'
  <1> USE DEF UpgraderInv, DownloadInv, FileInv, OwnInv, ReasonInv, Verifieds, Opened, Written, Runs
  <1>1. TypeInv /\ TypeOK /\ ExeIsWhole /\ UpgraderInv(u)
    BY DEF IInv, TypeInv
  <1>2. PICK to \in {"try", "failed"} :
          pc' = [pc EXCEPT ![u] = to] /\ (to = "failed" => temp = NoFile)
    BY DEF Chmod, Goes
  <1>3. /\ pc[u] = "chmod" /\ runnable' = runnable \cup ({temp} \ {NoFile})
        /\ UNCHANGED <<latest, exe, temp, content, runs, replaced, tag, binary, sums, file, faulty,
                       crossed, doubtful>>
    BY DEF Chmod, Goes, reads, meets
  <1>4. doubtful' <=> doubtful
    BY <1>3, Zenon
  <1>5. pc'[u] = to
    BY <1>1, <1>2 DEF TypeInv
  <1>6. doubtful' \in BOOLEAN
    BY <1>1, <1>3, Zenon DEF TypeOK
  <1>7. TypeOK'
    BY <1>1, <1>3, <1>6 DEF TypeOK
  <1>8. TypeInv'
    BY <1>1, <1>2, <1>3, <1>7 DEF TypeInv, Positions
  <1>9. UpgraderInv(u)'
    BY <1>1, <1>2, <1>3, <1>5
  <1>10. ExeIsWhole'
    BY <1>1, <1>3, <1>4 DEF ExeIsWhole
  <1> QED
    BY <1>1, <1>2, <1>3, <1>4, <1>8, <1>9, <1>10, InHandKeeps DEF InHand, Positions

LEMMA RemoveKeeps == ASSUME UpgradeAssumption, IInv, NEW u \in Upgraders, Remove(u) PROVE IInv'
  <1> USE DEF UpgraderInv, DownloadInv, FileInv, OwnInv, ReasonInv, Verifieds, Opened, Written, Runs
  <1>1. TypeInv /\ TypeOK /\ ExeIsWhole /\ UpgraderInv(u)
    BY DEF IInv, TypeInv
  <1>2. /\ pc[u] = "remove" /\ pc' = [pc EXCEPT ![u] = "failed"] /\ temp' \in {NoFile, temp}
        /\ UNCHANGED <<latest, exe, content, runnable, runs, replaced, tag, binary, sums, file, faulty,
                       crossed, doubtful>>
    BY DEF Remove, Goes, reads, meets
  <1>3. doubtful' <=> doubtful
    BY <1>2, Zenon
  <1>4. pc'[u] = "failed" /\ exe # temp'
    BY <1>1, <1>2, InodesThere DEF TypeInv, TypeOK
  <1>5. doubtful' \in BOOLEAN
    BY <1>1, <1>2, Zenon DEF TypeOK
  <1>6. TypeOK'
    BY <1>1, <1>2, <1>4, <1>5 DEF TypeOK
  <1>7. TypeInv'
    BY <1>1, <1>2, <1>6 DEF TypeInv, Positions
  <1>8. UpgraderInv(u)'
    BY <1>1, <1>2, <1>4
  <1>9. ExeIsWhole'
    BY <1>1, <1>2, <1>3 DEF ExeIsWhole
  <1> QED
    BY <1>1, <1>2, <1>3, <1>7, <1>8, <1>9, InHandKeeps DEF InHand, Positions

(* The file that takes the program's place is the release that was found, if *)
(* the upgrade was not crossed.                                              *)
LEMMA RenameFacts ==
  ASSUME IInv, NEW u \in Upgraders, Rename(u), temp # NoFile
  PROVE  /\ pc' = [pc EXCEPT ![u] = "upgraded"] /\ temp \in Inodes
         /\ exe' = temp /\ temp' = NoFile /\ replaced \subseteq replaced' /\ replaced' \subseteq Upgraders
         /\ UNCHANGED <<latest, content, runnable, runs, tag, binary, sums, file, faulty, crossed>>
         /\ doubtful' \in BOOLEAN /\ (doubtful' <=> u \in crossed)
         /\ u \notin crossed =>
              content[temp] = tag[u] /\ tag[u] \in Releases /\ temp \in runnable
  <1>1. pc[u] = "rename"
    BY DEF Rename, Goes
  <1>2. u \notin crossed =>
          content[temp] = tag[u] /\ tag[u] \in Releases /\ temp \in runnable
    BY <1>1 DEF IInv, UpgraderInv, FileInv, OwnInv, Verifieds, Opened, Written, Runs
  <1>3. doubtful' = (u \in crossed)
    BY DEF Rename
  <1>4. doubtful' \in BOOLEAN /\ (doubtful' <=> u \in crossed)
    <2>1. (u \in crossed) \in BOOLEAN
      OBVIOUS
    <2>2. doubtful' \in BOOLEAN
      BY <1>3, <2>1, Zenon
    <2>3. u \in crossed => doubtful'
      BY <1>3, Zenon
    <2>4. doubtful' => u \in crossed
      BY <1>3, Zenon
    <2> QED
      BY <2>2, <2>3, <2>4
  <1> QED
    BY <1>2, <1>4 DEF Rename, Goes, reads, IInv, TypeInv, TypeOK

LEMMA RenameKeeps == ASSUME UpgradeAssumption, IInv, NEW u \in Upgraders, Rename(u) PROVE IInv'
  <1> USE DEF UpgraderInv, DownloadInv, FileInv, OwnInv, ReasonInv, Verifieds, Opened, Written, Runs
  <1>1. TypeInv /\ TypeOK /\ ExeIsWhole /\ UpgraderInv(u) /\ pc[u] = "rename"
    BY DEF IInv, TypeInv, Rename, Goes
  <1>2. CASE temp # NoFile
    <2>1. /\ pc' = [pc EXCEPT ![u] = "upgraded"] /\ temp \in Inodes
          /\ exe' = temp /\ temp' = NoFile /\ replaced \subseteq replaced' /\ replaced' \subseteq Upgraders
          /\ UNCHANGED <<latest, content, runnable, runs, tag, binary, sums, file, faulty, crossed>>
          /\ doubtful' \in BOOLEAN /\ (doubtful' <=> u \in crossed)
          /\ u \notin crossed =>
               content[temp] = tag[u] /\ tag[u] \in Releases /\ temp \in runnable
      BY <1>2, RenameFacts
    <2>2. pc'[u] = "upgraded" /\ exe' # temp'
      BY <1>1, <1>2, <2>1 DEF TypeInv
    <2>3. TypeOK'
      BY <1>1, <2>1, <2>2 DEF TypeOK
    <2>4. TypeInv'
      BY <1>1, <2>1, <2>3 DEF TypeInv, Positions
    <2>5. UpgraderInv(u)'
      BY <1>1, <2>1, <2>2
    <2>6. ExeIsWhole'
      <3>1. Partial \notin Releases
        BY DEF Partial, Releases
      <3>2. content'[exe'] \in Partial .. MaxVersion
        BY <1>1, <2>1 DEF TypeInv
      <3> QED
        BY <2>1, <3>1, <3>2 DEF ExeIsWhole
    <2>7. exe' # exe
      BY <1>1, <2>1 DEF TypeOK
    <2> QED
      BY <1>1, <2>1, <2>4, <2>5, <2>6, <2>7, InHandKeeps DEF InHand, Positions
  <1>3. CASE temp = NoFile
    <2>1. /\ pc' = [pc EXCEPT ![u] = "failed"]
          /\ UNCHANGED <<latest, exe, temp, content, runnable, runs, replaced, tag, binary, sums, file,
                         faulty, crossed, doubtful>>
      BY <1>3 DEF Rename, Goes, reads
    <2>2. pc'[u] = "failed" /\ u \in crossed
      BY <1>1, <1>3, <2>1 DEF TypeInv
    <2>3. UpgraderInv(u)'
      BY <1>1, <2>1, <2>2
    <2>4. \A v \in Upgraders : faulty[v] => faulty'[v]
      BY <2>1, Zenon
    <2>5. \A v \in Upgraders \ {u} : Same(v)
      BY <1>1, <2>1, <2>4 DEF Same, TypeInv
    <2> QED
      BY <1>1, <2>1, <2>2, <2>3, <2>5, DiskFrame DEF TypeOK, TypeInv, Positions, InHand, disk
  <1> QED
    BY <1>2, <1>3

LEMMA NothingOfUpgrades ==
  ASSUME IInv, latest' \in 1 .. MaxVersion,
         UNCHANGED <<disk, runs, replaced, pc, reads, file, faulty, meets>>
  PROVE  IInv'
  <1>1. /\ UNCHANGED <<exe, temp, content, runnable, runs, replaced, pc, tag, binary, sums, file,
                       faulty, crossed>>
        /\ (doubtful' <=> doubtful) /\ (doubtful \in BOOLEAN => doubtful' \in BOOLEAN)
    BY Zenon DEF disk, reads, meets
  <1>2. TypeInv'
    BY <1>1 DEF IInv, TypeInv, TypeOK
  <1>3. ExeIsWhole' /\ CrossedInv'
    BY <1>1 DEF IInv, ExeIsWhole, CrossedInv, InHand
  <1>4. \A u \in Upgraders : UpgraderInv(u)'
    BY <1>1 DEF IInv, UpgraderInv, DownloadInv, FileInv, OwnInv, ReasonInv
  <1> QED
    BY <1>2, <1>3, <1>4 DEF IInv

LEMMA ReleaseKeeps == ASSUME UpgradeAssumption, IInv, Release PROVE IInv'
  <1>1. latest' \in 1 .. MaxVersion
    <2>1. latest \in 1 .. MaxVersion /\ MaxVersion \in Nat /\ latest < MaxVersion /\ latest' = latest + 1
      BY DEF IInv, TypeInv, TypeOK, Release, UpgradeAssumption
    <2> QED
      BY ONLY <2>1
  <1> QED
    BY <1>1, NothingOfUpgrades DEF Release

-----------------------------------------------------------------------------
LEMMA NextKeeps == ASSUME UpgradeAssumption, IInv, [Next]_vars PROVE IInv'
  <1>1. ASSUME NEW u \in Upgraders,
               \/ Start(u) \/ Look(u) \/ DownloadBinary(u) \/ DownloadSums(u) \/ DownloadFails(u)
               \/ Verify(u) \/ Open(u) \/ Astray(u) \/ OpenFails(u) \/ Write(u) \/ WriteFails(u)
               \/ Chmod(u) \/ Try(u) \/ Tried(u) \/ Remove(u) \/ Rename(u) \/ Kill(u)
        PROVE IInv'
    BY <1>1, DownloadKeeps, GivesUpKeeps, TryKeeps, OpenKeeps, WriteKeeps, ChmodKeeps,
       RemoveKeeps, RenameKeeps
  <1>2. CASE Release
    BY <1>2, ReleaseKeeps
  <1>3. CASE UNCHANGED vars
    <2>1. latest' = latest /\ UNCHANGED <<disk, runs, replaced, pc, reads, file, faulty, meets>>
      BY <1>3 DEF vars
    <2> QED
      BY <2>1, NothingOfUpgrades DEF IInv, TypeInv, TypeOK
  <1> QED
    BY <1>1, <1>2, <1>3 DEF Next

(* The inductive invariant holds in every state of a run. *)
THEOREM Invariant == ASSUME UpgradeAssumption PROVE Spec => []IInv
  <1>1. Init => IInv
    BY InitIInv
  <1>2. IInv /\ [Next]_vars => IInv'
    BY NextKeeps
  <1> QED
    BY <1>1, <1>2, PTL DEF Spec

(* Types; the program's file is there and is never the one next to it,       *)
(* however many upgrades run (upgrade).                                      *)
THEOREM TypeCorrect == ASSUME UpgradeAssumption PROVE Spec => []TypeOK
  <1>1. IInv => TypeOK
    BY DEF IInv, TypeInv
  <1> QED
    BY <1>1, Invariant, PTL

(* The program's file is a whole release at every moment, wherever upgrades  *)
(* are killed, until a crossed one puts it in place: "after checking it      *)
(* against the release's SHA256SUMS and making sure it runs" (upgrade).      *)
(* Even then it is never a download that is not the release.                 *)
THEOREM ProgramIsWhole == ASSUME UpgradeAssumption PROVE Spec => []ExeIsWhole
  <1>1. IInv => ExeIsWhole
    BY DEF IInv
  <1> QED
    BY <1>1, Invariant, PTL

(* An upgrade fails only by a fault of what is outside, a kill or another    *)
(* one at the same time, whatever an earlier one left next to the program.   *)
THEOREM LeftoversHarmless == ASSUME UpgradeAssumption PROVE Spec => []LeftoversDoNotMatter
  <1>1. IInv => LeftoversDoNotMatter
    BY DEF IInv, UpgraderInv, ReasonInv, LeftoversDoNotMatter
  <1> QED
    BY <1>1, Invariant, PTL

LEMMA InstallIsFound == ASSUME IInv, [Next]_vars PROVE [InstallsFound]_vars
  <1> SUFFICES ASSUME NEW u \in Upgraders \ (crossed \cup replaced),
                      pc[u] # "upgraded", pc'[u] = "upgraded"
               PROVE  content'[exe'] = tag[u] /\ exe' \in runnable'
    BY DEF InstallsFound
  <1>1. TypeInv
    BY DEF IInv
  <1>2. CASE Rename(u)
    <2>1. temp # NoFile
      BY <1>1, <1>2 DEF Rename, Goes, TypeInv
    <2> QED
      BY <1>2, <2>1, RenameFacts
  <1>3. ASSUME NEW v \in Upgraders,
               \/ Start(v) \/ Look(v) \/ DownloadBinary(v) \/ DownloadSums(v) \/ DownloadFails(v)
               \/ Verify(v) \/ Open(v) \/ Astray(v) \/ OpenFails(v) \/ Write(v) \/ WriteFails(v)
               \/ Chmod(v) \/ Try(v) \/ Tried(v) \/ Remove(v) \/ Rename(v) \/ Kill(v),
               ~Rename(u)
        PROVE  FALSE
    <2>1. PICK to : pc' = [pc EXCEPT ![v] = to]
      BY <1>3 DEF Start, Look, DownloadBinary, DownloadSums, DownloadFails, Verify, Open, Astray,
         OpenFails, Write, WriteFails, Chmod, Try, Tried, Remove, Kill, Rename, Fails, Goes
    <2>2. v = u
      BY <1>1, <2>1 DEF TypeInv
    <2>3. to = "upgraded"
      BY <1>1, <2>1, <2>2 DEF TypeInv
    <2>4. ~Astray(u)
      BY DEF Astray
    <2>5. pc'[v] # "upgraded"
      <3>1. CASE \/ Start(v) \/ Look(v) \/ DownloadBinary(v) \/ DownloadSums(v) \/ DownloadFails(v)
                 \/ Verify(v) \/ Open(v) \/ OpenFails(v)
        BY <1>1, <3>1 DEF Start, Look, DownloadBinary, DownloadSums, DownloadFails, Verify, Open,
           OpenFails, Fails, Goes, TypeInv
      <3>2. CASE \/ Write(v) \/ WriteFails(v) \/ Chmod(v) \/ Try(v) \/ Tried(v) \/ Remove(v)
        BY <1>1, <3>2 DEF Write, WriteFails, Chmod, Try, Tried, Remove, Fails, Goes, TypeInv
      <3>3. CASE Kill(v)
        BY <1>1, <3>3 DEF Kill, TypeInv
      <3> QED
        BY <1>3, <2>2, <2>4, <3>1, <3>2, <3>3
    <2> QED
      BY <2>2, <2>5
  <1>4. CASE Release \/ UNCHANGED vars
    BY <1>4 DEF Release, vars
  <1>5. CASE ~Rename(u) /\ Next
    BY <1>3, <1>4, <1>5 DEF Next
  <1> QED
    BY <1>2, <1>4, <1>5

(* An upgrade that says so has put the release that it found in place, if no *)
(* other one took the file next to the program in hand meanwhile, or renamed *)
(* its own over the program before this one asked for it.                    *)
THEOREM UpgradesInstalled == ASSUME UpgradeAssumption PROVE Spec => UpgradedIsInstalled
  <1>1. IInv /\ [Next]_vars => [InstallsFound]_vars
    BY InstallIsFound
  <1> QED
    BY <1>1, Invariant, PTL DEF Spec, UpgradedIsInstalled

=============================================================================
