---------------------------- MODULE TokenRotation ----------------------------
(***************************************************************************)
(* The runner token: rotate_token of src/runner_daemon/mod.rs, TokenStore  *)
(* of src/runner_daemon/token.rs, and GitLab's verify and reset requests.  *)
(*                                                                         *)
(* GitLab invalidates a token the moment it resets it, so from the reset   *)
(* to the save the new token exists only in an answer.  A runner may be    *)
(* killed at any point, stopped, and started with another config token.    *)
(* Token n of config token c is <<c, n>>; <<c, 0>> is c itself.  A request *)
(* takes no time; the clock is in units of the retry delays.               *)
(***************************************************************************)
EXTENDS Integers

CONSTANTS
    Configs,            \* tokens an administrator may put in the config
    Lifetime,           \* of a token GitLab issues
    MaxTime             \* the clock stops here (a bound)

TokenAssumption == Lifetime \in Nat \ {0} /\ MaxTime \in Nat

VARIABLES
    now,                \* the clock
    up,                 \* the daemon runs
    config,             \* the config token
    token,              \* RunnerDaemon.runner_token
    masked,             \* the secrets of RunnerDaemon.scrubber
    pc,                 \* where rotate_token is
    expiry,             \* its expiry: when the token was obtained and ends
    wake,               \* when its sleep ends
    answer,             \* the new token and its end, as reset answered
    file,               \* runner_token.json
    valid,              \* per config token, the number that is valid at GitLab
    expires,            \* and when that one ends
    faults,             \* what went wrong, per config token (history)
    failed              \* a request failed since the start (history)

processVars == <<token, masked, pc, expiry, wake, answer>>
gitlabVars  == <<valid, expires>>
historyVars == <<faults, failed>>
vars == <<now, up, config, processVars, file, gitlabVars, historyVars>>

Never    == MaxTime + Lifetime + 1      \* the end of a token without expiry
None     == [obtained |-> 0, ends |-> 0]
NoAnswer == [token |-> <<>>, ends |-> 0]
NoFile   == [replaces |-> "none", token |-> <<>>, obtained |-> 0, ends |-> 0]

Init ==
    /\ now = 0 /\ up = FALSE /\ config \in Configs
    /\ token = <<>> /\ masked = {} /\ pc = "off"
    /\ expiry = None /\ wake = 0 /\ answer = NoAnswer
    /\ file = NoFile
    /\ valid = [c \in Configs |-> 0]
    /\ expires \in [Configs -> {Lifetime, Never}]
    /\ faults = {} /\ failed = FALSE

-----------------------------------------------------------------------------
(* The store *)

(* TokenStore::load, and the config token where it finds nothing. *)
Loads(c) ==
    IF file # NoFile /\ file.replaces = c THEN file.token ELSE <<c, 0>>

(* The expiry that was stored with it; without one it is asked for. *)
LoadsExpiry(c) ==
    IF file # NoFile /\ file.replaces = c /\ file.ends # Never
      THEN [obtained |-> file.obtained, ends |-> file.ends] ELSE None

(* save replaces the file in one step.  It may hold the only copy of the    *)
(* valid token of another config token.                                     *)
Save(t, obtained, ends) ==
    /\ file' = [replaces |-> config, token |-> t,
                obtained |-> obtained, ends |-> ends]
    /\ faults' = faults \cup
         {<<c, "overwritten">> : c \in {d \in Configs \ {config} :
             file.replaces = d /\ file.token # <<d, 0>>}}

(* Mutant: reset at the end of the lifetime. *)
ResetTime_AtTheEnd(e) == e.ends

(* reset_time: after three quarters of the lifetime. *)
ResetTime(e) ==
    LET lifetime == IF e.ends > e.obtained THEN e.ends - e.obtained ELSE 0
    IN  e.obtained + (3 * lifetime) \div 4

-----------------------------------------------------------------------------
(* The daemon *)

(* RunnerDaemon::new with the config as it is now. *)
Start ==
    /\ ~up
    /\ up' = TRUE
    /\ config' \in Configs
    /\ token' = Loads(config')
    /\ masked' = {<<config', 0>>, token'}
    /\ pc' = "check" /\ expiry' = LoadsExpiry(config')
    /\ wake' = now /\ answer' = NoAnswer
    /\ failed' = FALSE
    /\ UNCHANGED <<now, file, gitlabVars, faults>>

(* The loop of rotate_token: with a known expiry it sleeps until the reset   *)
(* is due.                                                                  *)
Check ==
    /\ pc = "check"
    /\ expiry # None
    /\ pc' = "asleep"
    /\ wake' = IF ResetTime(expiry) > now THEN ResetTime(expiry) ELSE now
    /\ UNCHANGED <<now, up, config, token, masked, expiry, answer, file,
                   gitlabVars, historyVars>>

ValidToken(t) == t[2] = valid[t[1]] /\ now < expires[t[1]]

(* verify_runner tells when the token ends; one without an end is never      *)
(* rotated.                                                                 *)
Verify ==
    /\ pc = "check"
    /\ expiry = None
    /\ ValidToken(token)
    /\ IF expires[token[1]] = Never
         THEN pc' = "ended" /\ UNCHANGED expiry
         ELSE /\ pc' = "check"
              /\ expiry' = [obtained |-> now, ends |-> expires[token[1]]]
    /\ UNCHANGED <<now, up, config, token, masked, wake, answer, file,
                   gitlabVars, historyVars>>

(* It was rejected, or GitLab could not be reached: again in an hour. *)
VerifyFails ==
    /\ pc = "check"
    /\ expiry = None
    /\ failed' = TRUE
    /\ pc' = "backoff" /\ wake' = now + 1
    /\ UNCHANGED <<now, up, config, token, masked, expiry, answer, file,
                   gitlabVars, faults>>

WakeUp ==
    /\ now >= wake
    /\ \/ pc = "backoff" /\ pc' = "check"
       \/ pc = "asleep"  /\ pc' = "locked"
    /\ UNCHANGED <<now, up, config, token, masked, expiry, wake, answer, file,
                   gitlabVars, historyVars>>

(* Mutant: the reset is not preceded by a save. *)
SaveOld_Not ==
    /\ pc = "locked"
    /\ pc' = "reset"
    /\ UNCHANGED <<now, up, config, token, masked, expiry, wake, answer, file,
                   gitlabVars, historyVars>>

(* Under the lock `rotating`: the token in use is stored, which also shows   *)
(* that one can be.                                                         *)
SaveOld ==
    /\ pc = "locked"
    /\ Save(token, expiry.obtained, expiry.ends)
    /\ pc' = "reset"
    /\ UNCHANGED <<now, up, config, token, masked, expiry, wake, answer,
                   gitlabVars, failed>>

(* No token can be stored: the one in use will end. *)
SaveOldFails ==
    /\ pc = "locked"
    /\ pc' = "ended"
    /\ faults' = faults \cup {<<config, "no store">>}
    /\ UNCHANGED <<now, up, config, token, masked, expiry, wake, answer, file,
                   gitlabVars, failed>>

(* GitLab resets the token: it ends at once, and the new one may have an    *)
(* expiry or none.                                                          *)
Reset(answered) ==
    /\ pc = "reset"
    /\ ValidToken(token)
    /\ valid' = [valid EXCEPT ![config] = @ + 1]
    /\ \E ends \in {now + Lifetime, Never} :
         /\ expires' = [expires EXCEPT ![config] = ends]
         /\ answer' = IF answered
                        THEN [token |-> <<config, valid'[config]>>, ends |-> ends]
                        ELSE NoAnswer
    /\ UNCHANGED <<now, up, config, token, masked, expiry, file>>

(* reset_runner_token returns the new token. *)
ResetAnswered ==
    /\ Reset(TRUE)
    /\ pc' = "save"
    /\ UNCHANGED <<wake, historyVars>>

(* The answer is lost, or holds no token: again in ten minutes. *)
ResetLost ==
    /\ Reset(FALSE)
    /\ failed' = TRUE
    /\ faults' = faults \cup {<<config, "answer lost">>}
    /\ pc' = "backoff" /\ wake' = now + 1

(* GitLab could not be reached, or rejected the token.                      *)
ResetFails ==
    /\ pc = "reset"
    /\ failed' = TRUE
    /\ pc' = "backoff" /\ wake' = now + 1
    /\ UNCHANGED <<now, up, config, token, masked, expiry, answer, file,
                   gitlabVars, faults>>

(* The new token is stored, if it can be, ... *)
SaveNew ==
    /\ pc = "save"
    /\ pc' = "mask"
    /\ \/ Save(answer.token, now, answer.ends)
       \/ /\ faults' = faults \cup {<<config, "not saved">>}
          /\ UNCHANGED file
    /\ UNCHANGED <<now, up, config, token, masked, expiry, wake, answer,
                   gitlabVars, failed>>

(* Mutant: the new token is in use before it is masked. *)
Mask_AfterUse ==
    /\ pc = "mask"
    /\ pc' = "install"
    /\ token' = answer.token
    /\ UNCHANGED <<now, up, config, masked, expiry, wake, answer, file,
                   gitlabVars, historyVars>>

(* ... masked in job logs from now on, ... *)
Mask ==
    /\ pc = "mask"
    /\ pc' = "install"
    /\ masked' = masked \cup {answer.token}
    /\ UNCHANGED <<now, up, config, token, expiry, wake, answer, file,
                   gitlabVars, historyVars>>

(* Mutant: the expiry of the old token is kept. *)
Install_OldExpiry ==
    /\ pc = "install"
    /\ token' = answer.token
    /\ answer' = NoAnswer
    /\ pc' = IF answer.ends = Never THEN "ended" ELSE "check"
    /\ UNCHANGED <<now, up, config, masked, expiry, wake, file, gitlabVars,
                   historyVars>>

(* ... and used; the lock is released. *)
Install ==
    /\ pc = "install"
    /\ token' = answer.token
    /\ answer' = NoAnswer
    /\ IF answer.ends = Never
         THEN pc' = "ended" /\ UNCHANGED expiry
         ELSE /\ pc' = "check"
              /\ expiry' = [obtained |-> now, ends |-> answer.ends]
    /\ UNCHANGED <<now, up, config, masked, wake, file, gitlabVars, historyVars>>

(* The guard of `rotating` is held. *)
Rotating == pc \in {"reset", "save", "mask", "install"}

Off ==
    /\ up' = FALSE /\ pc' = "off"
    /\ token' = <<>> /\ masked' = {} /\ expiry' = None
    /\ wake' = 0 /\ answer' = NoAnswer
    /\ UNCHANGED <<now, config, file, gitlabVars, failed>>

(* Mutant: the exit does not wait for a reset under way. *)
Stop_WithoutLock == up /\ Off /\ UNCHANGED faults

(* A shutdown: start returns once it holds the lock. *)
Stop ==
    /\ up
    /\ ~Rotating
    /\ Off
    /\ UNCHANGED faults

(* The process is killed. *)
Kill ==
    /\ up
    /\ Off
    /\ faults' = IF pc = "save" THEN faults \cup {<<config, "killed">>} ELSE faults

(* Time passes while rotate_token sleeps, has ended, or the runner is off.  *)
Tick ==
    /\ now < MaxTime
    /\ pc \in {"asleep", "backoff"} => now < wake
    /\ pc \in {"asleep", "backoff", "ended", "off"}
    /\ now' = now + 1
    /\ UNCHANGED <<up, config, processVars, file, gitlabVars, historyVars>>

Task ==
    \/ Check \/ Verify \/ VerifyFails \/ WakeUp
    \/ SaveOld \/ SaveOldFails
    \/ ResetAnswered \/ ResetLost \/ ResetFails
    \/ SaveNew \/ Mask \/ Install

Next == Start \/ Task \/ Stop \/ Kill \/ Tick

Spec == Init /\ [][Next]_vars

-----------------------------------------------------------------------------
(* Properties *)

Tokens == Configs \X (0..(MaxTime + 1))

TypeOK ==
    /\ now \in 0..MaxTime /\ up \in BOOLEAN /\ config \in Configs
    /\ token \in Tokens \cup {<<>>} /\ (up <=> token # <<>>)
    /\ masked \subseteq Tokens
    /\ pc \in {"off", "check", "asleep", "backoff", "locked", "reset", "save",
               "mask", "install", "ended"}
    /\ (up <=> pc # "off") /\ failed \in BOOLEAN
    /\ file # NoFile => file.replaces \in Configs /\ file.token \in Tokens
    /\ valid \in [Configs -> 0..(MaxTime + 1)]

(* What a start with config token c would use is the token that is valid at *)
(* GitLab: the rotation always leaves it stored, but while an answer is on  *)
(* its way to the file.  Beyond that only a lost answer, a kill in that     *)
(* window, a save that failed after the reset, or the rotation of another   *)
(* config token loses it.                                                   *)
StoredIsValid ==
    \A c \in Configs :
      \/ Loads(c) = <<c, valid[c]>>
      \/ \E f \in {"answer lost", "killed", "not saved", "overwritten"} :
           <<c, f>> \in faults
      \/ up /\ c = config /\ pc = "save"

(* GitLab is asked to reset a token only when the file holds that token for *)
(* this config token, with the lifetime it really has: a runner that is     *)
(* killed before the answer resumes where it was.                           *)
ResetsStored ==
    valid' # valid =>
        Loads(config) = token /\ LoadsExpiry(config).ends = expires[config]
ResetsOnlyStored == [][ResetsStored]_vars

(* The token in use is masked in the logs of the jobs that start now. *)
TokenIsMasked == up => token \in masked

(* The stored end of a valid token is the one GitLab has: rotate_token does *)
(* not ask again.                                                           *)
StoredEndIsTrue ==
    file # NoFile /\ file.token = <<file.replaces, valid[file.replaces]>>
      => file.ends = expires[file.replaces]

(* A token in use ends only after a failed request or a failed save: a      *)
(* runner that was started in time resets it before.                        *)
EndsByFailure ==
    now # now' /\ now' = expires[config] /\ up /\ token = <<config, valid[config]>>
        => failed \/ <<config, "no store">> \in faults
EndsOnlyByFailure == [][EndsByFailure]_vars


=============================================================================
