----------------------------- MODULE ScriptRun ------------------------------
(***************************************************************************)
(* One script of a job: ScriptRunner::run of the shell executor (pipes and *)
(* a process group) and of the Docker executor (an exec in the job's       *)
(* container), its output, its deadline and its cancellation.  The script  *)
(* is a leader that may start a child in the background; output is bytes,  *)
(* of which "L" and "C" make one character.                                *)
(***************************************************************************)
EXTENDS Integers, SequencesExt

CONSTANTS
    Executors,          \* of {"shell", "docker"}
    MaxBytes,           \* the script's output (a bound)
    Endless             \* the script prints forever; what is kept of it is not

ScriptAssumption ==
    Executors \subseteq {"shell", "docker"} /\ MaxBytes \in Nat /\ Endless \in BOOLEAN

Processes == {"leader", "child"}
Streams == {"stdout", "stderr"}
Bytes == {"a", "L", "C"}

VARIABLES
    executor,
    state,              \* of the processes: not started, in the leader's process
                        \* group, out of it (setsid), gone
    holds,              \* processes that have the script's output open
    pipe,               \* output that was not read yet
    written,            \* all output (history)
    open, decoder,      \* the runner's side of the streams; Utf8Decoder::pending
    shown,              \* text in the trace, of each stream
    pc, due, canceled,  \* the runner; the deadline passed; a cancel arrived
    code,               \* exit code of the leader
    killed,             \* whether a stop was tried, and killed what it should
    result              \* RunStatus

script == <<state, holds, code>>
output == <<pipe, written, open, decoder, shown>>
control == <<due, canceled>>
vars == <<executor, script, output, pc, control, killed, result>>

Alive(p) == state[p] \in {"group", "escaped"}
Ready(s) == pipe[s] # <<>>

-----------------------------------------------------------------------------
(* Utf8Decoder: the text of some bytes, "?" where they are no text. *)

FromUtf8Lossy(bytes) ==
    LET from[i \in 1..(Len(bytes) + 1)] ==
            IF i > Len(bytes) THEN <<>>
            ELSE IF bytes[i] = "L" /\ i < Len(bytes) /\ bytes[i + 1] = "C"
            THEN <<"LC">> \o from[i + 2]
            ELSE <<IF bytes[i] = "a" THEN "a" ELSE "?">> \o from[i + 1]
    IN from[1]

Valid(bytes) == ~Contains(FromUtf8Lossy(bytes), "?")

(* Mutant: what cannot be decoded yet is no character. *)
Rest_Nothing(bytes) == <<>>

(* What is kept for the next chunk: an incomplete character at the end. *)
Rest(bytes) ==
    IF bytes # <<>> /\ Last(bytes) = "L" /\ Valid(Front(bytes)) THEN <<"L">> ELSE <<>>

Decoded(bytes) == FromUtf8Lossy(SubSeq(bytes, 1, Len(bytes) - Len(Rest(bytes))))

-----------------------------------------------------------------------------
(* The script and what happens around it. *)

Init ==
    /\ executor \in Executors
    /\ state = [p \in Processes |-> "none"] /\ holds = [p \in Processes |-> FALSE]
    /\ pipe = [s \in Streams |-> <<>>] /\ written = [s \in Streams |-> <<>>]
    /\ open = [s \in Streams |-> TRUE] /\ decoder = [s \in Streams |-> <<>>]
    /\ shown = [s \in Streams |-> <<>>]
    /\ pc = "start" /\ due = FALSE /\ canceled = FALSE
    /\ code = 0 /\ killed = "no" /\ result = "none"

Write(p, s, b) ==
    /\ Alive(p) /\ holds[p] /\ open[s] /\ pc # "done"
    /\ IF Endless THEN ~Ready(s) /\ b = "a" /\ UNCHANGED written
       ELSE /\ Len(written["stdout"]) + Len(written["stderr"]) < MaxBytes
            /\ written' = [written EXCEPT ![s] = Append(@, b)]
    /\ pipe' = [pipe EXCEPT ![s] = Append(@, b)]
    /\ UNCHANGED <<executor, script, open, decoder, shown, pc, control, killed, result>>

Background ==
    /\ Alive("leader") /\ state["child"] = "none"
    /\ state' = [state EXCEPT !["child"] = "group"]
    /\ holds' = [holds EXCEPT !["child"] = holds["leader"]]
    /\ UNCHANGED <<executor, code, output, pc, control, killed, result>>

Escape ==
    /\ state["child"] = "group" /\ state' = [state EXCEPT !["child"] = "escaped"]
    /\ UNCHANGED <<executor, holds, code, output, pc, control, killed, result>>

CloseOutput(p) ==
    /\ Alive(p) /\ holds[p]
    /\ holds' = [holds EXCEPT ![p] = FALSE]
    /\ UNCHANGED <<executor, state, code, output, pc, control, killed, result>>

(* A process ends by itself; -1 stands for the end by a signal. *)
Exit(p, c) ==
    /\ Alive(p)
    /\ state' = [state EXCEPT ![p] = "gone"] /\ holds' = [holds EXCEPT ![p] = FALSE]
    /\ IF p = "leader" THEN code' = c ELSE c = 0 /\ UNCHANGED code
    /\ UNCHANGED <<executor, output, pc, control, killed, result>>

Expire ==
    /\ ~due /\ due' = TRUE
    /\ UNCHANGED <<executor, script, output, pc, canceled, killed, result>>

Cancel ==
    /\ ~canceled /\ canceled' = TRUE
    /\ UNCHANGED <<executor, script, output, pc, due, killed, result>>

Gone(ps) ==
    /\ state' = [p \in Processes |-> IF p \in ps /\ Alive(p) THEN "gone" ELSE state[p]]
    /\ holds' = [p \in Processes |-> holds[p] /\ p \notin ps]
    /\ code' = IF "leader" \in ps /\ Alive("leader") THEN -1 ELSE code

Ends(r) == pc' = "done" /\ result' = r

-----------------------------------------------------------------------------
(* ScriptRunner::run *)

(* sh is spawned, or an exec created and started. *)
Start ==
    /\ pc = "start" /\ pc' = "reading"
    /\ state' = [state EXCEPT !["leader"] = "group"]
    /\ holds' = [holds EXCEPT !["leader"] = TRUE]
    /\ UNCHANGED <<executor, code, output, control, killed, result>>

(* An answer to start_exec may be lost although the script runs. *)
StartFails ==
    /\ pc = "start" /\ Ends("error")
    /\ \/ UNCHANGED <<state, holds>>
       \/ /\ executor = "docker"
          /\ state' = [state EXCEPT !["leader"] = "group"]
          /\ holds' = [holds EXCEPT !["leader"] = TRUE]
    /\ UNCHANGED <<executor, code, output, control, killed>>

Read(s) ==
    /\ pc = "reading" /\ open[s] /\ Ready(s)
    /\ \E n \in 1..Len(pipe[s]) :
        LET bytes == decoder[s] \o SubSeq(pipe[s], 1, n) IN
        /\ pipe' = [pipe EXCEPT ![s] = SubSeq(@, n + 1, Len(@))]
        /\ decoder' = [decoder EXCEPT ![s] = Rest(bytes)]
        /\ shown' = IF Endless THEN shown ELSE [shown EXCEPT ![s] = @ \o Decoded(bytes)]
    /\ UNCHANGED <<executor, script, written, open, pc, control, killed, result>>

(* An error of a read ends the run; dropping the child kills the leader only. *)
ReadFails ==
    /\ pc = "reading" /\ Ends("error")
    /\ IF executor = "shell" THEN Gone({"leader"}) ELSE UNCHANGED script
    /\ UNCHANGED <<executor, output, control, killed>>

(* A pipe ends when nobody has its other end. *)
StreamEnds(s) ==
    /\ pc = "reading" /\ executor = "shell" /\ open[s] /\ ~Ready(s)
    /\ ~\E p \in Processes : holds[p]
    /\ open' = [open EXCEPT ![s] = FALSE]
    /\ UNCHANGED <<executor, script, pipe, written, decoder, shown, pc, control, killed, result>>

(* Docker ends the exec's stream after the leader; a child that has the       *)
(* output may keep it open or not.                                           *)
ExecEnds ==
    /\ pc = "reading" /\ executor = "docker" /\ ~Alive("leader")
    /\ \A s \in Streams : open[s] /\ ~Ready(s)
    /\ open' = [s \in Streams |-> FALSE]
    /\ UNCHANGED <<executor, script, pipe, written, decoder, shown, pc, control, killed, result>>

Drained ==
    /\ pc = "reading" /\ pc' = "waiting" /\ \A s \in Streams : ~open[s]
    /\ decoder' = [s \in Streams |-> <<>>]
    /\ shown' = IF Endless THEN shown
                ELSE [s \in Streams |-> shown[s] \o FromUtf8Lossy(decoder[s])]
    /\ UNCHANGED <<executor, script, pipe, written, open, control, killed, result>>

Exited ==
    /\ pc = "waiting" /\ ~Alive("leader")
    /\ \/ Ends(IF code = 0 THEN "success" ELSE "failed")
       \/ executor = "docker" /\ Ends("error")
    /\ UNCHANGED <<executor, script, output, control, killed>>

(* Mutant: only the leader is killed. *)
Kills_Leader == {"leader"}

(* What a stop kills: the process group; all processes of the container.     *)
Kills == {p \in Processes : executor = "docker" \/ state[p] = "group"}

(* The shell executor waits for the leader afterwards, the Docker executor   *)
(* for the end of `kill`, for at most ten seconds.                           *)
Stop(r) ==
    /\ \/ killed' = "yes" /\ Gone(Kills)
       \/ killed' = "failed" /\ UNCHANGED script
    /\ IF executor = "docker" THEN Ends(r) ELSE pc' = "stopping" /\ result' = r
    /\ UNCHANGED <<executor, output, control>>

(* Mutant: the deadline bounds the output only. *)
TimesOut_Reading ==
    /\ due /\ Stop("timed out") /\ pc = "reading"
    /\ executor = "shell" \/ \A s \in Streams : ~Ready(s)

(* select! takes any branch that is ready; but timeout_at takes output that   *)
(* is ready before it looks at the deadline.  The exec is not waited for.    *)
TimesOut ==
    /\ due /\ Stop("timed out")
    /\ \/ pc = "reading" /\ (executor = "shell" \/ \A s \in Streams : ~Ready(s))
       \/ pc = "waiting" /\ executor = "shell"

(* Mutant: nothing stops a script whose output has ended. *)
IsCanceled_Reading ==
    canceled /\ pc = "reading" /\ Stop("canceled")

IsCanceled ==
    /\ canceled /\ Stop("canceled")
    /\ \/ pc = "reading"
       \/ pc = "waiting" /\ executor = "shell"

Stopped ==
    /\ pc = "stopping" /\ ~Alive("leader") /\ Ends(result)
    /\ UNCHANGED <<executor, script, output, control, killed>>

-----------------------------------------------------------------------------

Runner ==
    \/ Start \/ StartFails \/ ReadFails \/ ExecEnds \/ Drained \/ Exited
    \/ TimesOut \/ IsCanceled \/ Stopped
    \/ \E s \in Streams : Read(s) \/ StreamEnds(s)

Script ==
    \/ Background \/ Escape \/ \E p \in Processes : CloseOutput(p)
    \/ \E p \in Processes : \E s \in Streams : \E b \in Bytes : Write(p, s, b)
    \/ \E p \in Processes : \E c \in {-1, 0, 1} : Exit(p, c)

Next == Runner \/ Script \/ Expire \/ Cancel

Spec == Init /\ [][Next]_vars

(* A branch of the select! that stays ready is taken; a process that was      *)
(* killed is waited for.  The script owes nothing.                           *)
Fairness ==
    /\ WF_vars(Start \/ StartFails) /\ WF_vars(Drained) /\ WF_vars(Exited)
    /\ WF_vars(ExecEnds) /\ \A s \in Streams : WF_vars(Read(s)) /\ WF_vars(StreamEnds(s))
    /\ WF_vars(TimesOut) /\ WF_vars(IsCanceled) /\ WF_vars(Stopped)

FairSpec == Spec /\ Fairness

-----------------------------------------------------------------------------
(* Properties *)

TypeOK ==
    /\ executor \in Executors
    /\ state \in [Processes -> {"none", "group", "escaped", "gone"}]
    /\ holds \in [Processes -> BOOLEAN]
    /\ \A p \in Processes : holds[p] => Alive(p)
    /\ pipe \in [Streams -> Seq(Bytes)] /\ written \in [Streams -> Seq(Bytes)]
    /\ open \in [Streams -> BOOLEAN] /\ decoder \in [Streams -> {<<>>, <<"L">>}]
    /\ shown \in [Streams -> Seq({"a", "LC", "?"})]
    /\ pc \in {"start", "reading", "waiting", "stopping", "done"}
    /\ due \in BOOLEAN /\ canceled \in BOOLEAN /\ code \in {-1, 0, 1}
    /\ killed \in {"no", "yes", "failed"}
    /\ result \in {"none", "success", "failed", "timed out", "canceled", "error"}

(* A script that ended by itself has all its output in the trace, if that is *)
(* text, with the output of its background processes until then, however     *)
(* reads cut it: the loop over out_open and err_open, and the decoders.      *)
OutputIsShown ==
    result \in {"success", "failed"} =>
        \A s \in Streams : Valid(written[s]) => shown[s] = FromUtf8Lossy(written[s])

(* After a stop that could kill, no process of the script runs next to       *)
(* after_script, except, of the shell executor, one that left the process    *)
(* group (see AllIsGone).                                                    *)
StoppedIsGone ==
    pc = "done" /\ killed = "yes" =>
        \A p \in Processes : Alive(p) => executor = "shell" /\ state[p] = "escaped"

(* A cancel ends the run, whatever the script does: its branch of select!.   *)
CancelEnds == canceled ~> (pc = "done" \/ killed = "failed")

(* The deadline ends a script of the shell executor, even one that prints    *)
(* forever or has closed its output.                                         *)
DeadlineEnds == (due /\ executor = "shell") ~> (pc = "done" \/ killed = "failed")

(* A claim the code does not keep: "a timeout kills everything the script    *)
(* started" (shell.rs:107).  The group is killed, and what called setsid is  *)
(* no longer in it (shell.rs:168).                                           *)
AllIsGone ==
    pc = "done" /\ killed = "yes" => \A p \in Processes : ~Alive(p)

=============================================================================
