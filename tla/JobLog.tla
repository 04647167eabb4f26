------------------------------- MODULE JobLog -------------------------------
(***************************************************************************)
(* What a job may expect of its log, without requests, answers or offsets: *)
(* text that is written in order, of which GitLab keeps a growing          *)
(* beginning until it is done with the job, and an end at which the writer *)
(* says truthfully whether all of it was kept.  TraceStream is shown to    *)
(* implement it.                                                           *)
(***************************************************************************)
EXTENDS Integers, SequencesExt

CONSTANT Text           \* what a log can hold

VARIABLES
    written,            \* what the job wrote
    kept,               \* what GitLab has of it
    wanted,             \* GitLab still takes output
    place               \* open, closed, then complete or incomplete

logVars == <<written, kept, wanted, place>>

Init == written = <<>> /\ kept = <<>> /\ wanted = TRUE /\ place = "open"

(* The job, or the runner about it, adds text; closing may add the last.     *)
Add(more) ==
    /\ place = "open"
    /\ written' = written \o more
    /\ place' \in {"open", "closed"}
    /\ UNCHANGED <<kept, wanted>>

(* GitLab keeps more of it, also of what was sent before the end. *)
Keep(n) ==
    /\ wanted
    /\ n \in Len(kept) .. Len(written)
    /\ kept' = SubSeq(written, 1, n)
    /\ UNCHANGED <<written, wanted, place>>

Unwant ==
    /\ wanted' = FALSE
    /\ UNCHANGED <<written, kept, place>>

(* The writer ends, and says so if anything may be missing that was wanted.  *)
End ==
    /\ place = "closed"
    /\ \/ place' = "complete" /\ (wanted => kept = written)
       \/ place' = "incomplete"
    /\ UNCHANGED <<written, kept, wanted>>

Appended == SubSeq(written', Len(written) + 1, Len(written'))

Next == \/ Appended \in Seq(Text) /\ Add(Appended)
        \/ Keep(Len(kept'))
        \/ Unwant
        \/ End

SafeSpec == Init /\ [][Next]_logVars

(* A log that was closed is ended. *)
Spec == SafeSpec /\ WF_logVars(End)
=============================================================================
