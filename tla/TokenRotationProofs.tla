-------------------------- MODULE TokenRotationProofs --------------------------
(***************************************************************************)
(* Proofs about TokenRotation, for every set of config tokens, every       *)
(* lifetime of the tokens GitLab issues and any length of time.            *)
(***************************************************************************)
EXTENDS TokenRotation, TLAPS

Files == [replaces : Configs, token : Configs \X Nat, obtained : Nat, ends : Nat]

(* An answer is at hand: the new token is not yet in use. *)
Answering == pc \in {"save", "mask", "install"}

(* TypeOK without a bound on the number of resets, and what is known of the  *)
(* tokens: none is newer than the valid one.                                 *)
TypeInv ==
    /\ now \in 0 .. MaxTime /\ up \in BOOLEAN /\ config \in Configs
    /\ wake \in Nat /\ failed \in BOOLEAN
    /\ pc \in {"off", "check", "asleep", "backoff", "locked", "reset", "save",
               "mask", "install", "ended"}
    /\ up <=> pc # "off"
    /\ expiry \in [obtained : Nat, ends : Nat \ {Never}] /\ expiry.obtained <= now
    /\ valid \in [Configs -> Nat] /\ expires \in [Configs -> Nat]
    /\ file = NoFile \/ (file \in Files /\ file.obtained <= now)

TokenInv ==
    /\ up => \E n \in 0 .. valid[config] : token = <<config, n>>
    /\ file # NoFile => \E n \in 0 .. valid[file.replaces] : file.token = <<file.replaces, n>>
    /\ Answering => answer = [token |-> <<config, valid[config]>>, ends |-> expires[config]]

(* The end that is known of the valid token is the one GitLab has. *)
EndInv ==
    /\ StoredEndIsTrue
    /\ up /\ pc # "ended" /\ token = <<config, valid[config]>> /\ expiry # None
         => expiry.ends = expires[config]
    /\ pc \in {"asleep", "locked", "reset"} => expiry # None

(* GitLab is asked for a reset while the file holds the token. *)
HeldInv ==
    pc = "reset" =>
        file = [replaces |-> config, token |-> token,
                obtained |-> expiry.obtained, ends |-> expiry.ends]

(* The valid token of c may be lost. *)
Lost(c) ==
    \E f \in {"answer lost", "killed", "not saved", "overwritten"} : <<c, f>> \in faults

(* The token in use is the valid one, but while a new one is at hand. *)
InUseInv ==
    up /\ ~Answering => token = <<config, valid[config]>> \/ Lost(config)

MaskInv == TokenIsMasked /\ (pc = "install" => answer.token \in masked)

(* A sleep ends at the reset time; what waits otherwise has a reason to. *)
WaitInv ==
    /\ pc = "asleep" => wake <= now \/ wake = ResetTime(expiry)
    /\ pc = "backoff" => failed
    /\ pc = "ended" => <<config, "no store">> \in faults \/ expires[config] = Never

IInv ==
    /\ TypeInv /\ TokenInv /\ EndInv /\ HeldInv
    /\ StoredIsValid /\ InUseInv /\ MaskInv /\ WaitInv

-----------------------------------------------------------------------------
(* The file. *)

LEMMA TokensAreTokens ==
  ASSUME NEW c, NEW n PROVE <<c, n>> # <<>>
  OBVIOUS

LEMMA FilesAreFiles ==
  ASSUME NEW f \in Files PROVE f # NoFile
  <1>1. PICK c \in Configs, n \in Nat : f.token = <<c, n>>
    BY DEF Files
  <1>2. f.token # <<>>
    BY <1>1
  <1> QED
    BY <1>2 DEF NoFile

LEMMA Ends ==
  ASSUME TokenAssumption
  PROVE  Never \in Nat /\ Never > MaxTime /\ \A n \in 0 .. MaxTime : n + Lifetime < Never
  BY DEF TokenAssumption, Never

(* What a start with config token c finds: a token that is not newer than    *)
(* the valid one, and if it is that one its true end or none.                *)
LEMMA LoadsIs ==
  ASSUME TokenAssumption, TypeInv, TokenInv, StoredEndIsTrue, NEW c \in Configs
  PROVE  /\ \E n \in 0 .. valid[c] : Loads(c) = <<c, n>>
         /\ LoadsExpiry(c) \in [obtained : Nat, ends : Nat \ {Never}]
         /\ LoadsExpiry(c).obtained <= now
         /\ Loads(c) = <<c, valid[c]>> /\ LoadsExpiry(c) # None
              => LoadsExpiry(c).ends = expires[c]
  <1>1. valid[c] \in Nat /\ now \in Nat /\ Never \in Nat /\ Never > 0
    BY Ends DEF TypeInv, TokenAssumption
  <1>2. CASE file # NoFile /\ file.replaces = c
    <2>1. file \in Files /\ file.obtained <= now
      BY <1>2 DEF TypeInv
    <2>2. Loads(c) = file.token
      BY <1>2 DEF Loads
    <2>3. \E n \in 0 .. valid[c] : Loads(c) = <<c, n>>
      BY <1>2, <2>2 DEF TokenInv
    <2>4. CASE file.ends = Never
      <3>1. LoadsExpiry(c) = None
        BY <2>4 DEF LoadsExpiry
      <3> QED
        BY <1>1, <2>3, <3>1 DEF None
    <2>5. CASE file.ends # Never
      <3>1. LoadsExpiry(c) = [obtained |-> file.obtained, ends |-> file.ends]
        BY <1>2, <2>5 DEF LoadsExpiry
      <3> QED
        BY <1>2, <2>1, <2>2, <2>3, <2>5, <3>1 DEF StoredEndIsTrue, Files
    <2> QED
      BY <2>4, <2>5
  <1>3. CASE ~(file # NoFile /\ file.replaces = c)
    <2>1. Loads(c) = <<c, 0>> /\ LoadsExpiry(c) = None
      BY <1>3 DEF Loads, LoadsExpiry
    <2> QED
      BY <1>1, <2>1 DEF None
  <1> QED
    BY <1>2, <1>3

(* A save is found by the next start, and another config token loses its     *)
(* token only as faults records.                                             *)
LEMMA SaveEffect ==
  ASSUME TypeInv, NEW t \in Configs \X Nat, NEW obtained \in Nat, NEW ends \in Nat,
         Save(t, obtained, ends), config' = config
  PROVE  /\ file' = [replaces |-> config, token |-> t, obtained |-> obtained, ends |-> ends]
         /\ file' \in Files /\ file' # NoFile
         /\ Loads(config)' = t
         /\ faults \subseteq faults'
         /\ \A c \in Configs : c # config =>
              Loads(c)' = Loads(c) \/ <<c, "overwritten">> \in faults'
  <1>1. /\ file' = [replaces |-> config, token |-> t, obtained |-> obtained, ends |-> ends]
        /\ faults \subseteq faults'
    BY DEF Save
  <1>2. file' \in Files
    BY <1>1 DEF Files, TypeInv
  <1>3. file' # NoFile
    BY <1>2, FilesAreFiles
  <1>4. Loads(config)' = t
    BY <1>1, <1>3 DEF Loads
  <1>5. ASSUME NEW c \in Configs, c # config, <<c, "overwritten">> \notin faults'
        PROVE  Loads(c)' = Loads(c)
    <2>1. Loads(c)' = <<c, 0>>
      BY <1>1, <1>5 DEF Loads
    <2>2. ~(file.replaces = c /\ file.token # <<c, 0>>)
      BY <1>5 DEF Save
    <2> QED
      BY <2>1, <2>2 DEF Loads
  <1> QED
    BY <1>1, <1>2, <1>3, <1>4, <1>5

-----------------------------------------------------------------------------
(* The invariant holds before the first start. *)
LEMMA InitIInv == ASSUME TokenAssumption PROVE Init => IInv
  <1> SUFFICES ASSUME Init PROVE IInv
    OBVIOUS
  <1>1. Never \in Nat /\ Never > 0 /\ Lifetime \in Nat /\ MaxTime \in Nat
    BY Ends DEF TokenAssumption
  <1>2. TypeInv
    <2>1. expires \in [Configs -> Nat]
      BY <1>1 DEF Init
    <2>2. valid \in [Configs -> Nat]
      BY DEF Init
    <2>3. now \in 0 .. MaxTime
      BY <1>1 DEF Init
    <2>4. expiry \in [obtained : Nat, ends : Nat \ {Never}] /\ expiry.obtained <= now
      BY <1>1 DEF Init, None
    <2> QED
      BY <2>1, <2>2, <2>3, <2>4 DEF Init, TypeInv
  <1>3. TokenInv /\ HeldInv /\ InUseInv /\ MaskInv /\ WaitInv
    BY DEF Init, TokenInv, Answering, HeldInv, InUseInv, MaskInv, TokenIsMasked, WaitInv
  <1>4. EndInv
    BY DEF Init, EndInv, StoredEndIsTrue
  <1>5. StoredIsValid
    BY DEF Init, StoredIsValid, Loads
  <1> QED
    BY <1>2, <1>3, <1>4, <1>5 DEF IInv

-----------------------------------------------------------------------------
(* Steps of the task that neither change a token nor the file. *)
LEMMA QuietFrame ==
  ASSUME IInv, faults \subseteq faults', ~Answering, ~Answering',
         UNCHANGED <<up, config, token, masked, file, valid, expires>>
  PROVE  /\ TokenInv' /\ StoredEndIsTrue' /\ StoredIsValid' /\ InUseInv' /\ MaskInv'
  <1>1. TokenInv' /\ StoredEndIsTrue'
    BY DEF IInv, TokenInv, EndInv, StoredEndIsTrue
  <1>2. \A c : Lost(c) => Lost(c)'
    BY DEF Lost
  <1>3. StoredIsValid'
    BY <1>2 DEF IInv, StoredIsValid, Lost, Loads, Answering
  <1>4. InUseInv'
    BY <1>2 DEF IInv, InUseInv
  <1>5. MaskInv'
    BY DEF IInv, MaskInv, TokenIsMasked, Answering
  <1> QED
    BY <1>1, <1>3, <1>4, <1>5

Quiet == Check \/ Verify \/ VerifyFails \/ WakeUp \/ SaveOldFails \/ ResetFails \/ Tick

LEMMA ResetTimeIs ==
  ASSUME NEW e \in [obtained : Nat, ends : Nat], NEW t \in Nat, e.obtained <= t
  PROVE  ResetTime(e) \in Nat /\ (ResetTime(e) <= t \/ ResetTime(e) < e.ends)
  <1>1. PICK o \in Nat, n \in Nat : o = e.obtained /\ n = e.ends
    OBVIOUS
  <1>2. CASE n > o
    <2>1. PICK l \in Nat : l = n - o /\ l > 0
      BY <1>2
    <2>2. PICK q \in Nat : q = (3 * l) \div 4 /\ q < l
      BY <2>1
    <2>3. ResetTime(e) = o + q
      BY <1>1, <1>2, <2>1, <2>2 DEF ResetTime
    <2> QED
      BY <1>1, <2>1, <2>2, <2>3
  <1>3. CASE ~(n > o)
    <2>1. ResetTime(e) = o
      BY <1>1, <1>3 DEF ResetTime
    <2> QED
      BY <1>1, <2>1
  <1> QED
    BY <1>2, <1>3

LEMMA QuietKeeps ==
  ASSUME TokenAssumption, IInv, Quiet
  PROVE  IInv'
  <1>1. /\ faults \subseteq faults' /\ ~Answering /\ ~Answering' /\ pc' # "reset"
        /\ UNCHANGED <<up, config, token, masked, file, valid, expires>>
    BY DEF Quiet, Check, Verify, VerifyFails, WakeUp, SaveOldFails, ResetFails, Tick, Answering,
           processVars, gitlabVars, historyVars
  <1>2. TokenInv' /\ StoredEndIsTrue' /\ StoredIsValid' /\ InUseInv' /\ MaskInv'
    BY <1>1, QuietFrame
  <1>3. HeldInv'
    BY <1>1 DEF HeldInv
  <1>4. TypeInv /\ now \in Nat /\ MaxTime \in Nat
    BY DEF IInv, TypeInv, TokenAssumption
  <1>5. CASE Check
    <2>1. ResetTime(expiry) \in Nat
      BY <1>4, ResetTimeIs DEF TypeInv
    <2>2. /\ pc = "check" /\ pc' = "asleep" /\ expiry # None
          /\ wake' = IF ResetTime(expiry) > now THEN ResetTime(expiry) ELSE now
          /\ UNCHANGED <<now, expiry, failed, faults>>
      BY <1>5 DEF Check, historyVars
    <2>3. wake' \in Nat /\ (wake' <= now \/ wake' = ResetTime(expiry))
      BY <1>4, <2>1, <2>2
    <2>4. TypeInv'
      BY <1>1, <1>4, <2>2, <2>3 DEF TypeInv
    <2>5. EndInv'
      BY <1>1, <1>2, <2>2 DEF IInv, EndInv
    <2>6. ResetTime(expiry)' = ResetTime(expiry)
      BY <2>2 DEF ResetTime
    <2>7. WaitInv'
      BY <2>2, <2>3, <2>6 DEF WaitInv
    <2> QED
      BY <1>2, <1>3, <2>4, <2>5, <2>7 DEF IInv
  <1>6. CASE Verify
    <2>1. PICK n \in 0 .. valid[config] : token = <<config, n>>
      BY <1>4, <1>6 DEF Verify, IInv, TokenInv, TypeInv
    <2>2. /\ pc = "check" /\ expiry = None
          /\ \/ expires[config] = Never /\ pc' = "ended" /\ expiry' = expiry
             \/ /\ expires[config] # Never /\ pc' = "check"
                /\ expiry' = [obtained |-> now, ends |-> expires[config]]
          /\ UNCHANGED <<now, wake, failed, faults>>
      BY <1>6, <2>1 DEF Verify, historyVars
    <2>3. expires[config] \in Nat
      BY <1>4 DEF TypeInv
    <2>4. TypeInv'
      BY <1>1, <1>4, <2>2, <2>3 DEF TypeInv
    <2>5. pc' # "ended" => expiry'.ends = expires'[config']
      BY <1>1, <2>2
    <2>6. EndInv'
      BY <1>2, <2>2, <2>5 DEF EndInv
    <2>7. WaitInv'
      BY <1>1, <2>2 DEF WaitInv
    <2> QED
      BY <1>2, <1>3, <2>4, <2>6, <2>7 DEF IInv
  <1>7. CASE VerifyFails \/ ResetFails
    <2>1. /\ pc \in {"check", "reset"} /\ pc' = "backoff" /\ failed' = TRUE
          /\ wake' = now + 1 /\ UNCHANGED <<now, expiry, faults>>
      BY <1>7 DEF VerifyFails, ResetFails
    <2>2. TypeInv'
      BY <1>1, <1>4, <2>1 DEF TypeInv
    <2>3. EndInv' /\ WaitInv'
      BY <1>1, <1>2, <2>1 DEF IInv, EndInv, WaitInv
    <2> QED
      BY <1>2, <1>3, <2>2, <2>3 DEF IInv
  <1>8. CASE WakeUp
    <2>1. /\ \/ pc = "backoff" /\ pc' = "check"
             \/ pc = "asleep" /\ pc' = "locked"
          /\ UNCHANGED <<now, wake, expiry, failed, faults>>
      BY <1>8 DEF WakeUp, historyVars
    <2>2. TypeInv'
      BY <1>1, <1>4, <2>1 DEF TypeInv
    <2>3. EndInv' /\ WaitInv'
      BY <1>1, <1>2, <2>1 DEF IInv, EndInv, WaitInv
    <2> QED
      BY <1>2, <1>3, <2>2, <2>3 DEF IInv
  <1>9. CASE SaveOldFails
    <2>1. /\ pc = "locked" /\ pc' = "ended"
          /\ <<config, "no store">> \in faults'
          /\ UNCHANGED <<now, wake, expiry, failed>>
      BY <1>9 DEF SaveOldFails
    <2>2. TypeInv'
      BY <1>1, <1>4, <2>1 DEF TypeInv
    <2>3. EndInv' /\ WaitInv'
      BY <1>1, <1>2, <2>1 DEF IInv, EndInv, WaitInv
    <2> QED
      BY <1>2, <1>3, <2>2, <2>3 DEF IInv
  <1>10. CASE Tick
    <2>1. /\ now < MaxTime /\ now' = now + 1
          /\ UNCHANGED <<pc, wake, expiry, failed, faults>>
      BY <1>10 DEF Tick, processVars, historyVars
    <2>2. TypeInv'
      BY <1>1, <1>4, <2>1 DEF TypeInv, Files
    <2>3. EndInv'
      BY <1>1, <1>2, <2>1 DEF IInv, EndInv
    <2>4. ResetTime(expiry)' = ResetTime(expiry)
      BY <2>1 DEF ResetTime
    <2>5. pc = "asleep" => wake' <= now' \/ wake' = ResetTime(expiry)'
      BY <1>4, <2>1, <2>4 DEF IInv, WaitInv, TypeInv
    <2>6. WaitInv'
      BY <1>1, <2>1, <2>5 DEF IInv, WaitInv
    <2> QED
      BY <1>2, <1>3, <2>2, <2>3, <2>6 DEF IInv
  <1> QED
    BY <1>5, <1>6, <1>7, <1>8, <1>9, <1>10 DEF Quiet

-----------------------------------------------------------------------------
(* A start takes what the file holds for its config token. *)
LEMMA StartKeeps ==
  ASSUME TokenAssumption, IInv, Start
  PROVE  IInv'
  <1>1. /\ ~up /\ up' = TRUE /\ config' \in Configs
        /\ pc' = "check" /\ wake' = now /\ failed' = FALSE
        /\ UNCHANGED <<now, file, valid, expires, faults>>
    BY DEF Start, gitlabVars
  <1>2. token' = Loads(config') /\ expiry' = LoadsExpiry(config')
        /\ masked' = {<<config', 0>>, token'}
    BY DEF Start
  <1>3. PICK c \in Configs : c = config'
    BY <1>1
  <1>4. /\ TypeInv /\ TokenInv /\ StoredEndIsTrue /\ StoredIsValid
    BY DEF IInv, EndInv
  <1>5. /\ \E n \in 0 .. valid[c] : Loads(c) = <<c, n>>
        /\ LoadsExpiry(c) \in [obtained : Nat, ends : Nat \ {Never}]
        /\ LoadsExpiry(c).obtained <= now
        /\ Loads(c) = <<c, valid[c]>> /\ LoadsExpiry(c) # None
             => LoadsExpiry(c).ends = expires[c]
    BY <1>4, LoadsIs
  <1>6. token' = Loads(c) /\ expiry' = LoadsExpiry(c)
    BY <1>2, <1>3
  <1>7. TypeInv'
    <2>1. up' \in BOOLEAN /\ failed' \in BOOLEAN /\ (up' <=> pc' # "off")
      BY <1>1
    <2>2. /\ now' \in 0 .. MaxTime /\ wake' \in Nat
          /\ pc' \in {"off", "check", "asleep", "backoff", "locked", "reset", "save",
                      "mask", "install", "ended"}
      BY <1>1, <1>4 DEF TypeInv, TokenAssumption
    <2>3. /\ expiry' \in [obtained : Nat, ends : Nat \ {Never}] /\ expiry'.obtained <= now'
      BY <1>1, <1>5, <1>6
    <2>4. /\ file' = NoFile \/ (file' \in Files /\ file'.obtained <= now')
          /\ valid' \in [Configs -> Nat] /\ expires' \in [Configs -> Nat]
      BY <1>1, <1>4 DEF TypeInv
    <2> QED
      BY <1>1, <2>1, <2>2, <2>3, <2>4 DEF TypeInv
  <1>8. TokenInv'
    BY <1>1, <1>3, <1>4, <1>5, <1>6 DEF TokenInv, Answering
  <1>9. EndInv'
    BY <1>1, <1>3, <1>4, <1>5, <1>6 DEF EndInv, StoredEndIsTrue
  <1>10. HeldInv' /\ WaitInv'
    BY <1>1 DEF HeldInv, WaitInv
  <1>11. MaskInv'
    BY <1>1, <1>2 DEF MaskInv, TokenIsMasked
  <1>12. Loads(c) = <<c, valid[c]>> \/ Lost(c)
    BY <1>1, <1>4 DEF StoredIsValid, Lost
  <1>13. Lost(config)' <=> Lost(c)
    BY <1>1, <1>3 DEF Lost
  <1>14. InUseInv'
    BY <1>1, <1>3, <1>6, <1>12, <1>13 DEF InUseInv
  <1>15. ASSUME NEW d \in Configs
         PROVE  Loads(d)' = <<d, valid'[d]>> \/ Lost(d)'
    BY <1>1, <1>4 DEF StoredIsValid, Lost, Loads
  <1>16. StoredIsValid'
    BY <1>15 DEF StoredIsValid, Lost
  <1> QED
    BY <1>7, <1>8, <1>9, <1>10, <1>11, <1>14, <1>16 DEF IInv

(* The runner stops, or is killed.                                           *)
LEMMA OffKeeps ==
  ASSUME TokenAssumption, IInv, Stop \/ Kill
  PROVE  IInv'
  <1>1. /\ up' = FALSE /\ pc' = "off" /\ expiry' = None /\ wake' = 0
        /\ faults \subseteq faults'
        /\ UNCHANGED <<now, config, file, valid, expires, failed>>
    BY DEF Stop, Kill, Off, gitlabVars
  <1>2. up /\ (pc = "save" => <<config, "killed">> \in faults')
    BY DEF Stop, Kill, Rotating
  <1>3. /\ TypeInv /\ TokenInv /\ StoredEndIsTrue /\ StoredIsValid
    BY DEF IInv, EndInv
  <1>4. Never \in Nat /\ Never > 0 /\ now \in Nat
    BY <1>3, Ends DEF TypeInv, TokenAssumption
  <1>5. TypeInv'
    <2>1. None \in [obtained : Nat, ends : Nat \ {Never}] /\ None.obtained <= now
      BY <1>4 DEF None
    <2> QED
      BY <1>1, <1>3, <2>1 DEF TypeInv
  <1>6. TokenInv' /\ HeldInv' /\ InUseInv' /\ MaskInv' /\ WaitInv'
    BY <1>1, <1>3 DEF TokenInv, Answering, HeldInv, InUseInv, MaskInv, TokenIsMasked, WaitInv
  <1>7. EndInv'
    BY <1>1, <1>3 DEF EndInv, StoredEndIsTrue
  <1>8. ASSUME NEW d \in Configs
        PROVE  Loads(d)' = <<d, valid'[d]>> \/ Lost(d)'
    BY <1>1, <1>2, <1>3 DEF StoredIsValid, Lost, Loads
  <1>9. StoredIsValid'
    BY <1>8 DEF StoredIsValid, Lost
  <1> QED
    BY <1>5, <1>6, <1>7, <1>9 DEF IInv

-----------------------------------------------------------------------------
(* The rotation: the token in use is stored, ... *)
LEMMA SaveOldKeeps ==
  ASSUME TokenAssumption, IInv, SaveOld
  PROVE  IInv'
  <1>1. /\ pc = "locked" /\ pc' = "reset"
        /\ Save(token, expiry.obtained, expiry.ends)
        /\ UNCHANGED <<now, up, config, token, masked, expiry, wake, answer,
                       valid, expires, failed>>
    BY DEF SaveOld, gitlabVars
  <1>2. TypeInv /\ TokenInv /\ EndInv /\ up
    BY <1>1 DEF IInv, TypeInv
  <1>3. PICK n \in 0 .. valid[config] : token = <<config, n>>
    BY <1>2 DEF TokenInv
  <1>4. token \in Configs \X Nat /\ expiry.obtained \in Nat /\ expiry.ends \in Nat
    BY <1>2, <1>3 DEF TypeInv
  <1>5. /\ file' = [replaces |-> config, token |-> token,
                    obtained |-> expiry.obtained, ends |-> expiry.ends]
        /\ file' \in Files /\ file' # NoFile
        /\ Loads(config)' = token /\ faults \subseteq faults'
        /\ \A c \in Configs : c # config =>
             Loads(c)' = Loads(c) \/ <<c, "overwritten">> \in faults'
    BY <1>1, <1>2, <1>4, SaveEffect
  <1>6. TypeInv'
    BY <1>1, <1>2, <1>5 DEF TypeInv
  <1>7. TokenInv'
    BY <1>1, <1>2, <1>3, <1>5 DEF TokenInv, Answering
  <1>8. EndInv'
    BY <1>1, <1>2, <1>5 DEF EndInv, StoredEndIsTrue
  <1>9. HeldInv' /\ MaskInv' /\ WaitInv'
    BY <1>1, <1>5 DEF IInv, HeldInv, MaskInv, TokenIsMasked, WaitInv
  <1>10. token = <<config, valid[config]>> \/ Lost(config)
    BY <1>1, <1>2 DEF IInv, InUseInv, Answering
  <1>11. \A c : Lost(c) => Lost(c)'
    BY <1>5 DEF Lost
  <1>12. Lost(config)' <=> \E c : c = config /\ Lost(c)'
    BY <1>1 DEF Lost
  <1>13. InUseInv'
    BY <1>1, <1>10, <1>11, <1>12 DEF InUseInv
  <1>14. ASSUME NEW c \in Configs
         PROVE  Loads(c)' = <<c, valid'[c]>> \/ Lost(c)'
    <2>1. CASE c = config
      <3>1. Loads(c)' = token
        BY <1>1, <1>5, <2>1 DEF Loads
      <3> QED
        BY <1>1, <1>10, <1>11, <2>1, <3>1
    <2>2. CASE c # config
      <3>1. Loads(c) = <<c, valid[c]>> \/ Lost(c)
        BY <1>1, <2>2 DEF IInv, StoredIsValid, Lost
      <3> QED
        BY <1>1, <1>5, <1>11, <2>2, <3>1 DEF Lost
    <2> QED
      BY <2>1, <2>2
  <1>15. StoredIsValid'
    BY <1>14 DEF StoredIsValid, Lost
  <1> QED
    BY <1>6, <1>7, <1>8, <1>9, <1>13, <1>15 DEF IInv

(* ... GitLab is asked for a new one, and its answer arrives or is lost, ... *)
LEMMA ResetKeeps ==
  ASSUME TokenAssumption, IInv, ResetAnswered \/ ResetLost
  PROVE  IInv'
  <1>1. PICK ends \in {now + Lifetime, Never} :
          /\ pc = "reset" /\ ValidToken(token)
          /\ valid' = [valid EXCEPT ![config] = @ + 1]
          /\ expires' = [expires EXCEPT ![config] = ends]
          /\ \/ /\ pc' = "save" /\ answer' = [token |-> <<config, valid'[config]>>, ends |-> ends]
                /\ UNCHANGED <<wake, failed, faults>>
             \/ /\ pc' = "backoff" /\ wake' = now + 1 /\ failed' = TRUE
                /\ faults' = faults \cup {<<config, "answer lost">>}
          /\ UNCHANGED <<now, up, config, token, masked, expiry, file>>
    BY DEF ResetAnswered, ResetLost, Reset, historyVars
  <1>2. TypeInv /\ TokenInv /\ EndInv /\ up /\ now \in Nat
    <2>1. TypeInv /\ TokenInv /\ EndInv
      BY DEF IInv
    <2>2. up
      BY <1>1, <2>1 DEF TypeInv
    <2>3. now \in Nat
      BY <2>1 DEF TypeInv, TokenAssumption
    <2> QED
      BY <2>1, <2>2, <2>3
  <1>3. ends \in Nat
    BY <1>2, Ends DEF TokenAssumption
  <1>4. /\ valid' \in [Configs -> Nat] /\ expires' \in [Configs -> Nat]
        /\ valid'[config] = valid[config] + 1 /\ valid[config] \in Nat
        /\ expires'[config] = ends
        /\ \A c \in Configs : c # config => valid'[c] = valid[c] /\ expires'[c] = expires[c]
        /\ config \in Configs
    <2>1. config \in Configs /\ valid \in [Configs -> Nat] /\ expires \in [Configs -> Nat]
      BY <1>2 DEF TypeInv
    <2>2. valid[config] \in Nat /\ valid[config] + 1 \in Nat
      BY <2>1
    <2> QED
      BY <1>1, <1>3, <2>1, <2>2
  <1>5. TypeInv'
    <2>1. wake' \in Nat /\ pc' \in {"save", "backoff"}
      <3>1. (wake' = wake \/ wake' = now + 1) /\ pc' \in {"save", "backoff"}
        BY <1>1, Zenon
      <3> QED
        BY <1>2, <3>1 DEF TypeInv
    <2>2. failed' \in BOOLEAN
      BY <1>1, <1>2 DEF TypeInv
    <2> QED
      BY <1>1, <1>2, <1>4, <2>1, <2>2 DEF TypeInv
  <1>6. TokenInv'
    <2>1. PICK n \in 0 .. valid[config] : token = <<config, n>>
      BY <1>2 DEF TokenInv
    <2>2. n \in 0 .. valid'[config]
      BY <1>4, <2>1
    <2>3. file # NoFile => \E m \in 0 .. valid'[file.replaces] : file.token = <<file.replaces, m>>
      BY <1>2, <1>4 DEF TokenInv, TypeInv, Files
    <2> QED
      BY <1>1, <1>4, <2>1, <2>2, <2>3 DEF TokenInv, Answering
  <1>7. EndInv'
    <2>1. token # <<config, valid'[config]>>
      BY <1>2, <1>4 DEF TokenInv
    <2>2. file # NoFile /\ file.replaces = config => file.token # <<config, valid'[config]>>
      BY <1>2, <1>4 DEF TokenInv
    <2>3. StoredEndIsTrue'
      BY <1>1, <1>2, <1>4, <2>2 DEF EndInv, StoredEndIsTrue, TypeInv, Files
    <2> QED
      BY <1>1, <2>1, <2>3 DEF EndInv
  <1>8. HeldInv' /\ MaskInv' /\ WaitInv'
    BY <1>1 DEF IInv, HeldInv, MaskInv, TokenIsMasked, WaitInv
  <1>9. pc' # "save" => Lost(config)'
    BY <1>1 DEF Lost
  <1>10. InUseInv'
    BY <1>1, <1>9 DEF InUseInv, Answering
  <1>11. faults \subseteq faults'
    BY <1>1
  <1>12. ASSUME NEW c \in Configs, c # config
         PROVE  Loads(c)' = <<c, valid'[c]>> \/ Lost(c)'
    BY <1>1, <1>4, <1>11, <1>12 DEF IInv, StoredIsValid, Lost, Loads
  <1>13. StoredIsValid'
    <2>1. ASSUME NEW c \in Configs
          PROVE  \/ Loads(c)' = <<c, valid'[c]>> \/ Lost(c)'
                 \/ up' /\ c = config' /\ pc' = "save"
      <3>1. CASE c = config
        <4>1. pc' # "save" => Lost(c)'
          BY <1>1, <3>1 DEF Lost
        <4> QED
          BY <1>1, <1>2, <3>1, <4>1
      <3>2. CASE c # config
        BY <1>12, <3>2
      <3> QED
        BY <3>1, <3>2
    <2> QED
      BY <2>1 DEF StoredIsValid, Lost
  <1> QED
    BY <1>5, <1>6, <1>7, <1>8, <1>10, <1>13 DEF IInv

(* ... which is stored, if it can be, ... *)
LEMMA SaveNewKeeps ==
  ASSUME TokenAssumption, IInv, SaveNew
  PROVE  IInv'
  <1>1. /\ pc = "save" /\ pc' = "mask"
        /\ UNCHANGED <<now, up, config, token, masked, expiry, wake, answer,
                       valid, expires, failed>>
    BY DEF SaveNew, gitlabVars
  <1>2. \/ Save(answer.token, now, answer.ends)
        \/ file' = file /\ faults' = faults \cup {<<config, "not saved">>}
    BY DEF SaveNew
  <1>3. TypeInv /\ TokenInv /\ EndInv /\ now \in Nat
    BY DEF IInv, TypeInv, TokenAssumption
  <1>4. /\ answer.token = <<config, valid[config]>> /\ answer.ends = expires[config]
        /\ answer.token \in Configs \X Nat /\ answer.ends \in Nat /\ config \in Configs
        /\ valid[config] \in Nat
    BY <1>1, <1>3 DEF TokenInv, Answering, TypeInv
  <1>5. faults \subseteq faults'
    BY <1>2 DEF Save
  <1>6. \A c : Lost(c) => Lost(c)'
    BY <1>5 DEF Lost
  <1>7. TokenInv' /\ EndInv' /\ TypeInv' /\ StoredIsValid'
    <2>1. CASE Save(answer.token, now, answer.ends)
      <3>1. /\ file' = [replaces |-> config, token |-> answer.token,
                        obtained |-> now, ends |-> answer.ends]
            /\ file' \in Files /\ file' # NoFile
            /\ Loads(config)' = answer.token
            /\ \A c \in Configs : c # config =>
                 Loads(c)' = Loads(c) \/ <<c, "overwritten">> \in faults'
        BY <1>1, <1>3, <1>4, <2>1, SaveEffect
      <3>2. TypeInv'
        BY <1>1, <1>3, <3>1 DEF TypeInv
      <3>3. file'.token = <<config, valid[config]>> /\ file'.replaces = config
            /\ file'.ends = expires[config]
        BY <1>4, <3>1
      <3>4. TokenInv'
        BY <1>1, <1>3, <1>4, <3>3 DEF TokenInv, Answering
      <3>5. EndInv'
        BY <1>1, <1>3, <3>3 DEF EndInv, StoredEndIsTrue
      <3>6. ASSUME NEW c \in Configs
            PROVE  Loads(c)' = <<c, valid'[c]>> \/ Lost(c)'
        <4>1. CASE c = config
          <5>1. Loads(c)' = answer.token
            BY <1>1, <3>1, <4>1 DEF Loads
          <5> QED
            BY <1>1, <1>4, <4>1, <5>1
        <4>2. CASE c # config
          <5>1. Loads(c) = <<c, valid[c]>> \/ Lost(c)
            BY <4>2 DEF IInv, StoredIsValid, Lost
          <5> QED
            BY <1>1, <1>6, <3>1, <4>2, <5>1 DEF Lost
        <4> QED
          BY <4>1, <4>2
      <3>7. StoredIsValid'
        BY <3>6 DEF StoredIsValid, Lost
      <3> QED
        BY <3>2, <3>4, <3>5, <3>7
    <2>2. CASE file' = file /\ faults' = faults \cup {<<config, "not saved">>}
      <3>1. TypeInv' /\ EndInv'
        BY <1>1, <1>3, <2>2 DEF TypeInv, EndInv, StoredEndIsTrue
      <3>2. TokenInv'
        BY <1>1, <1>3, <2>2 DEF TokenInv, Answering
      <3>3. Lost(config)'
        BY <1>1, <2>2 DEF Lost
      <3>4. ASSUME NEW c \in Configs
            PROVE  Loads(c)' = <<c, valid'[c]>> \/ Lost(c)'
        <4>1. CASE c = config
          BY <1>1, <2>2, <4>1 DEF Lost
        <4>2. CASE c # config
          BY <1>1, <1>6, <2>2, <4>2 DEF IInv, StoredIsValid, Lost, Loads
        <4> QED
          BY <4>1, <4>2
      <3>5. StoredIsValid'
        BY <3>4 DEF StoredIsValid, Lost
      <3> QED
        BY <3>1, <3>2, <3>5
    <2> QED
      BY <1>2, <2>1, <2>2
  <1>8. HeldInv' /\ InUseInv' /\ MaskInv' /\ WaitInv'
    BY <1>1 DEF IInv, HeldInv, InUseInv, Answering, MaskInv, TokenIsMasked, WaitInv
  <1> QED
    BY <1>7, <1>8 DEF IInv

(* ... masked, ... *)
LEMMA MaskKeeps ==
  ASSUME TokenAssumption, IInv, Mask
  PROVE  IInv'
  <1>1. /\ pc = "mask" /\ pc' = "install" /\ masked' = masked \cup {answer.token}
        /\ UNCHANGED <<now, up, config, token, expiry, wake, answer, file,
                       valid, expires, faults, failed>>
    BY DEF Mask, gitlabVars, historyVars
  <1>2. TypeInv'
    BY <1>1 DEF IInv, TypeInv
  <1>3. TokenInv' /\ EndInv'
    BY <1>1 DEF IInv, TokenInv, Answering, EndInv, StoredEndIsTrue
  <1>4. HeldInv' /\ InUseInv' /\ MaskInv' /\ WaitInv'
    BY <1>1 DEF IInv, HeldInv, InUseInv, Answering, MaskInv, TokenIsMasked, WaitInv
  <1>5. StoredIsValid'
    BY <1>1 DEF IInv, StoredIsValid, Loads
  <1> QED
    BY <1>2, <1>3, <1>4, <1>5 DEF IInv

(* ... and used. *)
LEMMA InstallKeeps ==
  ASSUME TokenAssumption, IInv, Install
  PROVE  IInv'
  <1>1. /\ pc = "install" /\ token' = answer.token
        /\ \/ answer.ends = Never /\ pc' = "ended" /\ expiry' = expiry
           \/ /\ answer.ends # Never /\ pc' = "check"
              /\ expiry' = [obtained |-> now, ends |-> answer.ends]
        /\ UNCHANGED <<now, up, config, masked, wake, file, valid, expires, faults, failed>>
    BY DEF Install, gitlabVars, historyVars
  <1>2. TypeInv /\ TokenInv /\ EndInv /\ now \in Nat
    BY DEF IInv, TypeInv, TokenAssumption
  <1>3. /\ answer.token = <<config, valid[config]>> /\ answer.ends = expires[config]
        /\ answer.ends \in Nat /\ valid[config] \in Nat
    BY <1>1, <1>2 DEF TokenInv, Answering, TypeInv
  <1>4. pc' \in {"ended", "check"}
    BY <1>1
  <1>5. expiry' \in [obtained : Nat, ends : Nat \ {Never}] /\ expiry'.obtained <= now
    BY <1>1, <1>2, <1>3 DEF TypeInv
  <1>6. TypeInv'
    BY <1>1, <1>2, <1>4, <1>5 DEF TypeInv
  <1>7. TokenInv'
    BY <1>1, <1>2, <1>3, <1>4 DEF TokenInv, Answering
  <1>8. EndInv'
    <2>1. pc' # "ended" => expiry'.ends = expires'[config']
      BY <1>1, <1>3
    <2> QED
      BY <1>1, <1>2, <1>4, <2>1 DEF EndInv, StoredEndIsTrue
  <1>9. HeldInv' /\ InUseInv' /\ MaskInv'
    BY <1>1, <1>3, <1>4 DEF IInv, HeldInv, InUseInv, MaskInv, TokenIsMasked
  <1>10. WaitInv'
    BY <1>1, <1>3 DEF WaitInv
  <1>11. StoredIsValid'
    BY <1>1 DEF IInv, StoredIsValid, Loads
  <1> QED
    BY <1>6, <1>7, <1>8, <1>9, <1>10, <1>11 DEF IInv

-----------------------------------------------------------------------------
(* The invariant is inductive. *)
LEMMA NextIInv == ASSUME TokenAssumption PROVE IInv /\ [Next]_vars => IInv'
  <1> SUFFICES ASSUME IInv, [Next]_vars PROVE IInv'
    OBVIOUS
  <1>1. CASE Quiet
    BY <1>1, QuietKeeps
  <1>2. CASE Start
    BY <1>2, StartKeeps
  <1>3. CASE Stop \/ Kill
    BY <1>3, OffKeeps
  <1>4. CASE SaveOld
    BY <1>4, SaveOldKeeps
  <1>5. CASE ResetAnswered \/ ResetLost
    BY <1>5, ResetKeeps
  <1>6. CASE SaveNew
    BY <1>6, SaveNewKeeps
  <1>7. CASE Mask
    BY <1>7, MaskKeeps
  <1>8. CASE Install
    BY <1>8, InstallKeeps
  <1>9. CASE UNCHANGED vars
    <2>1. UNCHANGED <<now, up, config, token, masked, pc, expiry, wake, answer, file,
                     valid, expires, faults, failed>>
      BY <1>9 DEF vars, processVars, gitlabVars, historyVars
    <2>2. TypeInv' /\ TokenInv' /\ EndInv' /\ HeldInv'
      BY <2>1 DEF IInv, TypeInv, TokenInv, EndInv, HeldInv, StoredEndIsTrue, Answering
    <2>3. StoredIsValid' /\ InUseInv' /\ MaskInv' /\ WaitInv'
      BY <2>1 DEF IInv, StoredIsValid, InUseInv, MaskInv, WaitInv, Lost, Loads,
                  TokenIsMasked, Answering, ResetTime
    <2> QED
      BY <2>2, <2>3 DEF IInv
  <1> QED
    BY <1>1, <1>2, <1>3, <1>4, <1>5, <1>6, <1>7, <1>8, <1>9 DEF Next, Task, Quiet

-----------------------------------------------------------------------------
(* Steps. *)

(* GitLab is asked for a reset while the file holds the token with the end   *)
(* GitLab has.                                                               *)
LEMMA ResetStep ==
  ASSUME TokenAssumption PROVE IInv /\ [Next]_vars => [ResetsStored]_vars
  <1> SUFFICES ASSUME IInv, Next, valid' # valid
               PROVE  Loads(config) = token /\ LoadsExpiry(config).ends = expires[config]
    BY DEF ResetsStored
  <1>1. ResetAnswered \/ ResetLost
    BY DEF Next, Task, Start, Check, Verify, VerifyFails, WakeUp, SaveOld, SaveOldFails,
           ResetFails, SaveNew, Mask, Install, Stop, Kill, Off, Tick, gitlabVars
  <1>2. pc = "reset" /\ ValidToken(token)
    BY <1>1 DEF ResetAnswered, ResetLost, Reset
  <1>3. /\ TypeInv /\ TokenInv /\ EndInv
        /\ file = [replaces |-> config, token |-> token,
                   obtained |-> expiry.obtained, ends |-> expiry.ends]
    BY <1>2 DEF IInv, HeldInv
  <1>4. up /\ expiry # None
    BY <1>2, <1>3 DEF TypeInv, EndInv
  <1>5. PICK n \in 0 .. valid[config] : token = <<config, n>>
    BY <1>3, <1>4 DEF TokenInv
  <1>6. token = <<config, valid[config]>>
    BY <1>2, <1>5 DEF ValidToken
  <1>7. expiry.ends = expires[config] /\ expiry.ends # Never
    BY <1>2, <1>3, <1>4, <1>6 DEF EndInv, TypeInv
  <1>8. token \in Configs \X Nat
    BY <1>3, <1>5 DEF TypeInv
  <1>9. file \in Files
    BY <1>3, <1>8 DEF Files, TypeInv
  <1>10. file # NoFile
    BY <1>9, FilesAreFiles
  <1> QED
    BY <1>3, <1>7, <1>10 DEF Loads, LoadsExpiry

(* The clock does not reach the end of a token that is in use, unless        *)
(* something failed: the reset time is before the end, and a wait for        *)
(* anything else has a failure behind it.                                    *)
LEMMA EndStep ==
  ASSUME TokenAssumption PROVE IInv /\ [Next]_vars => [EndsByFailure]_vars
  <1> SUFFICES ASSUME IInv, Next, now # now', now' = expires[config], up,
                      token = <<config, valid[config]>>
               PROVE  failed \/ <<config, "no store">> \in faults
    BY DEF EndsByFailure
  <1>1. Tick
    BY DEF Next, Task, Start, Check, Verify, VerifyFails, WakeUp, SaveOld, SaveOldFails,
           ResetAnswered, ResetLost, Reset, ResetFails, SaveNew, Mask, Install, Stop, Kill, Off
  <1>2. /\ TypeInv /\ EndInv /\ WaitInv
        /\ now \in Nat /\ MaxTime \in Nat /\ Never > MaxTime /\ Never \in Nat
    BY Ends DEF IInv, TypeInv, TokenAssumption
  <1>3. /\ now < MaxTime /\ now' = now + 1 /\ pc \in {"asleep", "backoff", "ended"}
        /\ pc = "asleep" => now < wake
    BY <1>1, <1>2 DEF Tick, TypeInv
  <1>4. CASE pc = "asleep"
    <2>1. expiry.ends = now + 1
      BY <1>2, <1>3, <1>4 DEF EndInv
    <2>2. expiry \in [obtained : Nat, ends : Nat] /\ expiry.obtained <= now
      BY <1>2 DEF TypeInv
    <2>3. ResetTime(expiry) \in Nat /\ (ResetTime(expiry) <= now \/ ResetTime(expiry) < expiry.ends)
      BY <1>2, <2>2, ResetTimeIs
    <2>4. wake \in Nat /\ (wake <= now \/ wake = ResetTime(expiry))
      BY <1>2, <1>4 DEF WaitInv, TypeInv
    <2>5. FALSE
      BY <1>2, <1>3, <1>4, <2>1, <2>3, <2>4
    <2> QED
      BY <2>5
  <1>5. CASE pc = "backoff"
    BY <1>2, <1>5 DEF WaitInv
  <1>6. CASE pc = "ended"
    <2>1. expires[config] # Never
      BY <1>2, <1>3
    <2> QED
      BY <1>2, <1>6, <2>1 DEF WaitInv
  <1> QED
    BY <1>3, <1>4, <1>5, <1>6

-----------------------------------------------------------------------------
(* The inductive invariant holds of every behaviour. *)
THEOREM Invariant == ASSUME TokenAssumption PROVE Spec => []IInv
  <1>1. Init => IInv
    BY InitIInv
  <1>2. IInv /\ [Next]_vars => IInv'
    BY NextIInv
  <1> QED
    BY <1>1, <1>2, PTL DEF Spec

(* Wherever a runner is killed, the next start finds the token that GitLab   *)
(* takes, but for the faults StoredIsValid names: TokenStore.                *)
THEOREM StoredValid == ASSUME TokenAssumption PROVE Spec => []StoredIsValid
  <1>1. IInv => StoredIsValid
    BY DEF IInv
  <1> QED
    BY <1>1, Invariant, PTL

(* The end that is stored with a valid token is its end. *)
THEOREM StoredEndsTrue == ASSUME TokenAssumption PROVE Spec => []StoredEndIsTrue
  <1>1. IInv => StoredEndIsTrue
    BY DEF IInv, EndInv
  <1> QED
    BY <1>1, Invariant, PTL

(* No job log shows the token in use. *)
THEOREM TokensMasked == ASSUME TokenAssumption PROVE Spec => []TokenIsMasked
  <1>1. IInv => TokenIsMasked
    BY DEF IInv, MaskInv
  <1> QED
    BY <1>1, Invariant, PTL

(* rotate_token lets GitLab end no token that it could not resume with. *)
THEOREM ResetsAreStored == ASSUME TokenAssumption PROVE Spec => ResetsOnlyStored
  <1>1. IInv /\ [Next]_vars => [ResetsStored]_vars
    BY ResetStep
  <1> QED
    BY <1>1, Invariant, PTL DEF Spec, ResetsOnlyStored

(* reset_time is early enough: a token in use ends only after a failure. *)
THEOREM EndsByFailures == ASSUME TokenAssumption PROVE Spec => EndsOnlyByFailure
  <1>1. IInv /\ [Next]_vars => [EndsByFailure]_vars
    BY EndStep
  <1> QED
    BY <1>1, Invariant, PTL DEF Spec, EndsOnlyByFailure

=============================================================================
