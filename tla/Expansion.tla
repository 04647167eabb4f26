------------------------------ MODULE Expansion ------------------------------
(***************************************************************************)
(* Values with references to variables: src/runner_daemon/script.rs.       *)
(*                                                                         *)
(* A value is a sequence of texts and of references to variables; in the   *)
(* environment of a job a reference is a text, too.                        *)
(***************************************************************************)
EXTENDS SequencesExt

Text(t) == <<"text", t>>
Ref(key) == <<"ref", key>>

Set(env, key, value) == [k \in DOMAIN env \cup {key} |-> IF k = key THEN value ELSE env[k]]
None == [k \in {} |-> <<>>]

(* One pass; names that are not defined expand to nothing. *)
Expand(value, values) ==
    FlattenSeq([i \in DOMAIN value |->
        CASE value[i][1] = "text" -> <<value[i]>>
          [] value[i][1] = "ref" /\ value[i][2] \in DOMAIN values -> values[value[i][2]]
          [] OTHER -> <<>>])

=============================================================================
