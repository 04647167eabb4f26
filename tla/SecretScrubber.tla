--------------------------- MODULE SecretScrubber ---------------------------
(***************************************************************************)
(* Masking of secrets in a job's output: security/secret_scrubber.rs.  The *)
(* job's output arrives in chunks; what may be the start of a secret is    *)
(* held back until the next chunk.  A text is a sequence of characters;    *)
(* ranges are <<start, end>> as in the code, from 0, end excluded.  One    *)
(* pattern stands for all: the key, white space, and a value of at least   *)
(* ShortestValue characters up to the next white space, as that of         *)
(* passwords.                                                              *)
(***************************************************************************)
EXTENDS Integers, SequencesExt

CONSTANTS
    Letters,            \* characters of tokens (is_token_char)
    Others,             \* other characters, no white space
    Key,                \* stands for `password=`, characters of tokens
    Percent,            \* a character of tokens that encodes others
    JobSecrets,         \* what with_job_secrets finds, in its order
    MAX_HOLDBACK,
    MAX_PENDING,
    ShortestSecret,     \* shorter ones are not masked (5 in the code)
    ShortestValue,      \* of the pattern (8 in the code)
    Printed,            \* the characters that the job prints (a bound)
    ChunkSizes, MaxInput \* bounds of the output

Space == " "
Masked == <<"[", "]">>  \* stands for [MASKED]; as long as ShortestValue
TokenChars == Letters \cup {Key, Percent}
Alphabet == TokenChars \cup Others \cup {Space}

ScrubberAssumption ==
    /\ JobSecrets \in Seq(Seq(Alphabet)) /\ ShortestValue <= Len(Masked)
    /\ Printed \subseteq Alphabet /\ MAX_HOLDBACK \in Nat /\ MAX_PENDING \in Nat /\ ShortestSecret \in Nat

VARIABLES
    input,              \* the output of the job so far (history)
    pending, swallowing,
    out,                \* what was returned for the trace
    finished

vars == <<input, pending, swallowing, out, finished>>

-----------------------------------------------------------------------------
(* SecretScrubber: the secrets and what they match. *)

PercentEncode(value) ==
    FlattenSeq([i \in DOMAIN value |->
        IF value[i] \in Letters \cup {Key} THEN <<value[i]>>
        ELSE <<Percent, CHOOSE l \in Letters : TRUE>>])

AddSecret(list, secret) ==
    IF secret = <<>> \/ Contains(list, secret) THEN list ELSE Append(list, secret)

LongestFirst(list) == SortSeq(list, LAMBDA a, b : Len(a) > Len(b))

(* Every secret is also masked in its encoded form. *)
WithJobSecrets ==
    LongestFirst(FoldLeft(LAMBDA list, value :
        AddSecret(IF PercentEncode(value) = value THEN list
                  ELSE AddSecret(list, PercentEncode(value)), value),
        <<>>, JobSecrets))

secrets == WithJobSecrets

Masks(secret) == Len(secret) >= ShortestSecret

(* Length of the secret, or of the pattern's match, that starts at i; or 0.  *)
SecretAt(text, secret, i) ==
    IF i + Len(secret) - 1 <= Len(text) /\ SubSeq(text, i, i + Len(secret) - 1) = secret
    THEN Len(secret) ELSE 0

PatternAt(text, i) ==
    LET value == CHOOSE j \in (i + 1)..(Len(text) + 1) :
            /\ \A k \in (i + 1)..(j - 1) : text[k] = Space
            /\ j <= Len(text) => text[j] # Space
        end == CHOOSE j \in value..(Len(text) + 1) :
            /\ \A k \in value..(j - 1) : text[k] # Space
            /\ j <= Len(text) => text[j] = Space
    IN IF text[i] = Key /\ end - value >= ShortestValue THEN end - i ELSE 0

(* The leftmost ranges that do not overlap, given the lengths of matches.    *)
Ranges(len) ==
    LET from[i \in 1..(Len(len) + 1)] ==
            IF i = Len(len) + 1 THEN <<>>
            ELSE IF len[i] > 0 THEN <<<<i - 1, i - 1 + len[i]>>>> \o from[i + len[i]]
            ELSE from[i + 1]
    IN from[1]

SecretRanges(text, secret) == Ranges([i \in DOMAIN text |-> SecretAt(text, secret, i)])
PatternRanges(text) == Ranges([i \in DOMAIN text |-> PatternAt(text, i)])

Replace(text, ranges) ==
    FlattenSeq([i \in DOMAIN text |->
        IF \E r \in ToSet(ranges) : r[1] = i - 1 THEN Masked
        ELSE IF \E r \in ToSet(ranges) : r[1] < i - 1 /\ i - 1 < r[2] THEN <<>>
        ELSE <<text[i]>>])

Scrub(text) ==
    LET exact == FoldLeft(LAMBDA t, secret : Replace(t, SecretRanges(t, secret)),
                          text, SelectSeq(secrets, Masks))
    IN Replace(exact, PatternRanges(exact))

MatchRanges(text) ==
    FlattenSeq([s \in DOMAIN SelectSeq(secrets, Masks) |->
                    SecretRanges(text, SelectSeq(secrets, Masks)[s])])
    \o PatternRanges(text)

LongestSecret == Max({Len(s) : s \in ToSet(secrets)} \cup {0})

-----------------------------------------------------------------------------
(* StreamScrubber *)

Init ==
    /\ input = <<>> /\ pending = <<>> /\ out = <<>>
    /\ swallowing = FALSE /\ finished = FALSE

(* Length of the longest proper prefix of a secret that the text ends with.  *)
SecretStart(text) ==
    Max({k \in 0..Len(text) : \E s \in ToSet(secrets) :
            k < Len(s) /\ IsSuffix(SubSeq(s, 1, k), text)})

(* Mutant: only runs of token characters are held back. *)
HeldBack_Token(text) ==
    Min({Len(text), MAX_HOLDBACK,
         Max({k \in 0..Len(text) : \A i \in (Len(text) - k + 1)..Len(text) :
                text[i] \in TokenChars})})

HeldBack(text) ==
    Max({SecretStart(text),
         Min({MAX_HOLDBACK,
              Max({k \in 0..Len(text) : \A i \in (Len(text) - k + 1)..Len(text) :
                     text[i] \in TokenChars})})})

(* Mutant: only matches that may grow are kept. *)
Boundary_Cuts(text) ==
    FoldLeft(LAMBDA b, m : IF m[1] < b /\ m[2] = Len(text) THEN m[1] ELSE b,
             Len(text) - HeldBack(text), MatchRanges(text))

(* Never cut through a match, and keep matches that touch the end.           *)
Boundary(text) ==
    FoldLeft(LAMBDA b, m :
                IF m[1] < b /\ (m[2] > b \/ m[2] = Len(text)) THEN m[1] ELSE b,
             Len(text) - HeldBack(text), MatchRanges(text))

Limit == Max({MAX_PENDING, LongestSecret + MAX_HOLDBACK})

Growing(text) == {m \in ToSet(MatchRanges(text)) : m[2] = Len(text)}

(* The chunk without what is swallowed. *)
Fed(chunk) ==
    IF ~swallowing THEN chunk
    ELSE SubSeq(chunk, Min({i \in DOMAIN chunk : chunk[i] = Space}), Len(chunk))

(* A match that grows beyond the limit is masked as a whole. *)
MaskGrowing(text, growing) ==
    /\ out' = out \o Scrub(SubSeq(text, 1, Min({m[1] : m \in growing}))) \o Masked
    /\ pending' = <<>> /\ swallowing' = TRUE

Emit(text, boundary) ==
    /\ out' = out \o Scrub(SubSeq(text, 1, boundary))
    /\ pending' = SubSeq(text, boundary + 1, Len(text)) /\ swallowing' = FALSE

Push(chunk) ==
    /\ ~finished /\ Len(input) + Len(chunk) <= MaxInput
    /\ input' = input \o chunk /\ UNCHANGED finished
    /\ IF swallowing /\ ~Contains(chunk, Space) THEN UNCHANGED <<pending, swallowing, out>>
       ELSE LET text == pending \o Fed(chunk)
                boundary == Boundary(text)
            IN IF Len(text) - boundary <= Limit THEN Emit(text, boundary)
               ELSE IF Growing(text) # {} THEN MaskGrowing(text, Growing(text))
               ELSE Emit(text, Len(text) - Limit)

Finish ==
    /\ ~finished /\ finished' = TRUE
    /\ out' = out \o Scrub(pending) /\ pending' = <<>> /\ swallowing' = FALSE
    /\ UNCHANGED input

Next == Finish \/ \E n \in ChunkSizes : \E chunk \in [1..n -> Printed] : Push(chunk)

Spec == Init /\ [][Next]_vars

-----------------------------------------------------------------------------
(* Properties *)

(* The state is well-formed, and what is held back never exceeds the limit   *)
(* on memory (MAX_PENDING, or a secret and a token).                         *)
TypeOK ==
    /\ input \in Seq(Alphabet) /\ Len(input) <= MaxInput
    /\ pending \in Seq(Alphabet) /\ Len(pending) <= Limit
    /\ swallowing \in BOOLEAN /\ finished \in BOOLEAN
    /\ out \in Seq(Alphabet \cup ToSet(Masked))

InLog(s) == \E i \in DOMAIN out : SecretAt(out, s, i) > 0

(* Two secrets in the text of which one ends within the other. *)
Cross(text) ==
    \E m, n \in ToSet(MatchRanges(text)) : m[1] < n[1] /\ n[1] < m[2] /\ m[2] < n[2]

(* No secret of the job, nor its encoded form, is in the log, wherever the   *)
(* chunks of the output split it, where no two secrets cross (NeverCuts has  *)
(* what happens to those): push.                                            *)
SecretsAreMasked ==
    ~Cross(input) => \A s \in ToSet(secrets) : Masks(s) => ~InLog(s)

(* The start of the pattern's value has other characters than tokens have.   *)
NoToken(text) ==
    \E i \in DOMAIN text : /\ text[i] = Key
        /\ \E j \in DOMAIN text \cap ((i + 1)..(i + ShortestValue)) : text[j] \notin TokenChars

(* However the output is split into chunks, the log is what masking the      *)
(* whole output at once gives: nothing is lost, added, or left unmasked.     *)
(* Exceptions are values of the pattern that start with other characters,    *)
(* as SplitIsMasked says, and secrets that cross, of which either way shows  *)
(* a part of one.                                                           *)
ChunksDoNotMatter ==
    finished /\ ~NoToken(input) /\ ~Cross(input) => out = Scrub(input)

(* A claim the code does not keep: "a secret split across chunks is still    *)
(* masked" (secret_scrubber.rs:166), of any value of the pattern.  What ends *)
(* with a blank, as `password: ` does, ends with no token, so the name is    *)
(* out before the value arrives and the pattern can match (:208 and :213).   *)
SplitIsMasked == finished /\ ~Cross(input) => out = Scrub(input)

(* A claim the code does not keep: "Never cut through a match"               *)
(* (secret_scrubber.rs:219), below the limit of what is held back.  The      *)
(* matches are looked at once, from the first to the last, and a later one   *)
(* may move the boundary into an earlier one (:221).                         *)
NeverCuts ==
    ~finished' /\ input' # input /\ ~swallowing =>
        LET text == pending \o SubSeq(input', Len(input) + 1, Len(input'))
            cut  == Len(text) - Len(pending')
        IN  Len(pending') < Limit /\ ~swallowing' =>
                \A m \in ToSet(MatchRanges(text)) : ~(m[1] < cut /\ cut < m[2])

=============================================================================
