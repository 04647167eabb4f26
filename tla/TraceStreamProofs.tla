-------------------------- MODULE TraceStreamProofs --------------------------
(***************************************************************************)
(* Proofs about TraceStream, for every limit, every number of attempts and *)
(* every amount of output: what GitLab has is what the writer believes.    *)
(***************************************************************************)
EXTENDS TraceStream, SequenceTheorems, TLAPS

Byte == 0..MaxOutput
Message == [from : Nat, body : Seq(Byte), live : BOOLEAN]
Reply == [code : Nat, offset : Nat, remote : DOMAIN Strength]

(* Types, and the flushes of finish that are left. *)
TypeInv ==
    /\ produced \in 0..MaxOutput /\ truncated \in BOOLEAN
    /\ trace \in Seq(Byte) /\ log \in Seq(Byte)
    /\ sent \in 0..Len(trace)
    /\ cancel \in DOMAIN Strength
    /\ phase \in {"open", "finish", "complete", "incomplete"}
    /\ tries \in 0..FinishAttempts /\ flushes \in 0..MaxFlushes
    /\ attempt \in 0..MaxAttempts
    /\ net \subseteq Message
    /\ answer \in Reply
    /\ status \in {"running", "canceling", "canceled"}
    /\ phase = "open" => tries = 0
    /\ phase = "finish" /\ attempt = 0 => tries < FinishAttempts

(* A sequence begins with another. *)
Begins(s, t) == Len(s) <= Len(t) /\ \A i \in 1..Len(s) : s[i] = t[i]

(* Every request holds the part of the trace its range says, however old it *)
(* is.                                                                      *)
Faithful(m) ==
    /\ m.from + Len(m.body) <= Len(trace)
    /\ \A i \in 1..Len(m.body) : m.body[i] = trace[m.from + i]

(* A request that is still waited for starts where the acknowledged part    *)
(* ends, and an answer is about that request.                               *)
CallInv ==
    /\ \A m \in net : m.live => m.from = sent /\ attempt > 0
    /\ answer # NoAnswer =>
         /\ attempt > 0
         /\ answer.remote = "Aborted" => status = "canceled"
         /\ answer.remote # "Aborted" => sent <= answer.offset
                                           /\ answer.offset <= Len(log)

StoredInv ==
    /\ Begins(log, trace)
    /\ \A m \in net : Faithful(m)
    /\ AckedIsStored
    /\ cancel = "Aborted" => status = "canceled"
    /\ phase = "complete" => Len(log) = Len(trace) \/ status = "canceled"

IInv == TypeInv /\ CallInv /\ StoredInv

-----------------------------------------------------------------------------
LEMMA BeginsTransitive ==
    ASSUME NEW r \in Seq(Byte), NEW s \in Seq(Byte), NEW t \in Seq(Byte),
           Begins(r, s), Begins(s, t)
    PROVE  Begins(r, t)
BY DEF Begins

(* append only adds to the trace. *)
LEMMA AppendGrows ==
    ASSUME TypeInv, NEW k \in Nat, produced + k <= MaxOutput, AppendOutput(k)
    PROVE  /\ trace' \in Seq(Byte) /\ Begins(trace, trace')
           /\ produced' \in 0..MaxOutput /\ truncated' \in BOOLEAN
<1> DEFINE bytes == [i \in 1..k |-> produced + i]
           room  == IF Limit > Len(trace) THEN Limit - Len(trace) ELSE 0
<1>1. bytes \in Seq(Byte)
  <2>1. bytes \in [1..k -> Byte]
    BY TraceAssumption DEF TypeInv, Byte
  <2> QED BY <2>1, SeqDef
<1>2. room \in Nat /\ Len(bytes) = k
  BY <1>1, TraceAssumption DEF TypeInv
<1>3. <<Notice>> \in Seq(Byte)
  BY TraceAssumption DEF Notice, Byte
<1>4. ASSUME NEW cut \in 0..room, k > room
      PROVE  SubSeq(bytes, 1, cut) \in Seq(Byte)
  BY <1>1, <1>2, <1>4, SubSeqProperties
<1>5. trace \in Seq(Byte) /\ produced \in Nat
  BY DEF TypeInv
<1>6. ASSUME NEW s \in Seq(Byte) PROVE trace \o s \in Seq(Byte) /\ Begins(trace, trace \o s)
  BY <1>5, <1>6, ConcatProperties DEF Begins
<1> HIDE DEF bytes, room
<1>7. trace' \in Seq(Byte) /\ Begins(trace, trace')
  <2>1. CASE trace' = trace
    BY <1>5, <2>1 DEF Begins
  <2>2. CASE trace' = trace \o bytes
    BY <1>1, <1>6, <2>2
  <2>3. CASE k > room /\ \E cut \in 0..room :
               trace' = trace \o SubSeq(bytes, 1, cut) \o <<Notice>>
    <3>1. PICK cut \in 0..room :
            trace' = (trace \o SubSeq(bytes, 1, cut)) \o <<Notice>>
      BY <2>3
    <3>2. PICK s \in Seq(Byte) : s = trace \o SubSeq(bytes, 1, cut)
      BY <1>4, <1>6, <2>3
    <3>3. Begins(trace, s)
      BY <1>4, <1>6, <2>3, <3>2
    <3>4. s \o <<Notice>> \in Seq(Byte) /\ Begins(s, s \o <<Notice>>)
      BY <1>3, ConcatProperties DEF Begins
    <3>5. trace' = s \o <<Notice>>
      BY <3>1, <3>2
    <3> QED BY <1>5, <3>3, <3>4, <3>5, BeginsTransitive
  <2> QED BY <2>1, <2>2, <2>3 DEF AppendOutput, bytes, room
<1>8. produced' \in 0..MaxOutput
  BY <1>5, TraceAssumption DEF AppendOutput
<1>9. truncated' \in BOOLEAN
  BY DEF AppendOutput, TypeInv
<1> QED BY <1>7, <1>8, <1>9

-----------------------------------------------------------------------------
(* The requests under way stay faithful when the trace grows. *)
LEMMA FaithfulGrows ==
    ASSUME TypeInv, trace' \in Seq(Byte), Begins(trace, trace'),
           NEW m \in Message, Faithful(m)
    PROVE  Faithful(m)'
<1>1. /\ m.from \in Nat /\ Len(m.body) \in Nat
      /\ Len(trace) \in Nat /\ Len(trace') \in Nat
  BY DEF TypeInv, Message
<1>2. m.from + Len(m.body) <= Len(trace')
  BY <1>1 DEF Faithful, Begins
<1>3. ASSUME NEW i \in 1..Len(m.body) PROVE m.body[i] = trace'[m.from + i]
  <2>1. m.from + i \in 1..Len(trace)
    BY <1>1 DEF Faithful
  <2> QED BY <2>1 DEF Faithful, Begins
<1> QED BY <1>2, <1>3 DEF Faithful

(* A request is the unsent rest of the trace, at the offset it starts. *)
LEMMA RequestFaithful ==
    ASSUME TypeInv
    PROVE  /\ Request \in Message /\ Faithful(Request)
           /\ Request.live /\ Request.from = sent
<1> DEFINE body == SubSeq(trace, sent + 1, Len(trace))
<1>1. /\ body \in Seq(Byte) /\ Len(body) = Len(trace) - sent
      /\ \A i \in 1..Len(body) : body[i] = trace[sent + i]
  <2>1. \A i \in (sent + 1)..Len(trace) : trace[i] \in Byte
    BY DEF TypeInv
  <2>2. sent \in Nat /\ Len(trace) \in Nat /\ sent <= Len(trace)
    BY DEF TypeInv
  <2> HIDE DEF body
  <2>3. body \in Seq(Byte)
    BY <2>1, <2>2, SubSeqProperties DEF body
  <2>4. Len(body) = Len(trace) - sent
    BY <2>1, <2>2, SubSeqProperties DEF body
  <2>5. ASSUME NEW i \in 1..Len(body) PROVE body[i] = trace[sent + i]
    <3>1. i \in 1..(Len(trace) - (sent + 1) + 1)
      BY <2>2, <2>4, <2>5
    <3>2. body[i] = trace[(sent + 1) + i - 1]
      BY <2>1, <2>2, <3>1, SubSeqProperties DEF body
    <3> QED BY <2>2, <3>1, <3>2
  <2> QED BY <2>3, <2>4, <2>5
<1>2. Request = [from |-> sent, body |-> body, live |-> TRUE] /\ sent \in Nat
  BY DEF Request, TypeInv
<1> HIDE DEF body
<1>3. Request \in Message /\ Request.live /\ Request.from = sent /\ Request.body = body
  BY <1>1, <1>2 DEF Message
<1>4. Faithful(Request)
  BY <1>1, <1>3, <1>2 DEF Faithful, TypeInv
<1> QED BY <1>3, <1>4

(* Giving requests up changes nothing but that nobody waits for them. *)
LEMMA GivenUpFaithful ==
    ASSUME TypeInv, \A m \in net : Faithful(m), NEW g \in GivenUp(net)
    PROVE  g \in Message /\ ~g.live /\ Faithful(g)
<1>1. PICK m \in net : g = [m EXCEPT !.live = FALSE]
  BY DEF GivenUp
<1>2. m \in Message /\ Faithful(m)
  BY <1>1 DEF TypeInv
<1>3. g \in Message /\ ~g.live /\ g.from = m.from /\ g.body = m.body
  BY <1>1, <1>2 DEF Message
<1> QED BY <1>2, <1>3 DEF Faithful

(* What the writer and the log have to do with each other, apart from the   *)
(* requests: each step below changes one side or the other.                 *)
LEMMA SendStep ==
    ASSUME IInv, NEW n \in 1..MaxAttempts, Send(n),
           UNCHANGED <<trace, sent>>
    PROVE  /\ attempt' \in 1..MaxAttempts /\ net' \subseteq Message
           /\ answer' = NoAnswer /\ answer' \in Reply
           /\ CallInv' /\ \A m \in net' : Faithful(m)'
<1>1. /\ attempt' = n /\ answer' = NoAnswer
      /\ net' = GivenUp(net) \cup {Request}
  BY DEF Send
<1>2. \A g \in GivenUp(net) : g \in Message /\ ~g.live /\ Faithful(g)
  BY GivenUpFaithful DEF IInv, StoredInv
<1>3. Request \in Message /\ Faithful(Request) /\ Request.from = sent
  BY RequestFaithful DEF IInv
<1>4. \A m \in net' : m \in Message /\ Faithful(m) /\ (m.live => m.from = sent)
  BY <1>1, <1>2, <1>3
<1>5. n > 0 /\ n \in 1..MaxAttempts
  BY TraceAssumption
<1>6. CallInv'
  BY <1>1, <1>4, <1>5 DEF CallInv
<1>7. \A m \in net' : Faithful(m)'
  BY <1>4 DEF Faithful
<1>8. NoAnswer \in Reply
  BY DEF NoAnswer, Reply, Strength
<1> QED BY <1>1, <1>4, <1>6, <1>7, <1>8

LEMMA FlushReturnsStep ==
    ASSUME IInv, NEW acked \in 0..Len(trace), FlushReturns(acked),
           UNCHANGED <<trace, tries>>, phase # "open" \/ tries = 0
    PROVE  /\ attempt' = 0 /\ net' \subseteq Message
           /\ answer' = NoAnswer /\ answer' \in Reply
           /\ CallInv' /\ \A m \in net' : Faithful(m)'
           /\ phase' \in {"open", "finish", "complete", "incomplete"}
           /\ phase' = "open" => phase = "open"
           /\ phase' = "finish" => tries < FinishAttempts
           /\ phase' = "complete" /\ phase # "complete" => acked = Len(trace)
<1>1. /\ attempt' = 0 /\ answer' = NoAnswer /\ net' = GivenUp(net)
  BY DEF FlushReturns
<1>2. \A g \in GivenUp(net) : g \in Message /\ ~g.live /\ Faithful(g)
  BY GivenUpFaithful DEF IInv, StoredInv
<1>3. CallInv' /\ \A m \in net' : Faithful(m)'
  BY <1>1, <1>2 DEF CallInv, Faithful
<1>4. NoAnswer \in Reply
  BY DEF NoAnswer, Reply, Strength
<1>5. /\ phase' \in {"open", "finish", "complete", "incomplete"}
      /\ phase' = "open" => phase = "open"
      /\ phase' = "finish" => tries < FinishAttempts
      /\ phase' = "complete" /\ phase # "complete" => acked = Len(trace)
  <2>1. /\ phase \in {"open", "finish", "complete", "incomplete"}
        /\ tries \in 0..FinishAttempts /\ Len(trace) \in Nat
    BY DEF IInv, TypeInv
  <2>2. CASE phase # "finish"
    BY <2>1, <2>2 DEF FlushReturns
  <2>3. CASE phase = "finish" /\ acked >= Len(trace)
    BY <2>1, <2>3 DEF FlushReturns
  <2>4. CASE phase = "finish" /\ ~(acked >= Len(trace))
    BY <2>1, <2>4, TraceAssumption DEF FlushReturns
  <2> QED BY <2>2, <2>3, <2>4
<1> QED BY <1>1, <1>2, <1>3, <1>4, <1>5

-----------------------------------------------------------------------------
(* Init and the steps of the writer *)

LEMMA InitIInv == Init => IInv
<1> SUFFICES ASSUME Init PROVE IInv
  OBVIOUS
<1>1. TypeInv
  <2>1. NoAnswer \in Reply /\ "Running" \in DOMAIN Strength
    BY DEF NoAnswer, Reply, Strength
  <2>2. <<>> \in Seq(Byte) /\ Len(<<>>) = 0
    OBVIOUS
  <2>3. /\ produced \in 0..MaxOutput /\ tries \in 0..FinishAttempts
        /\ flushes \in 0..MaxFlushes /\ attempt \in 0..MaxAttempts
    BY TraceAssumption DEF Init
  <2>4. trace \in Seq(Byte) /\ log \in Seq(Byte) /\ sent \in 0..Len(trace)
    BY <2>2 DEF Init
  <2> QED BY <2>1, <2>3, <2>4 DEF Init, TypeInv
<1>2. CallInv /\ StoredInv
  BY DEF Init, CallInv, StoredInv, Begins, AckedIsStored
<1> QED BY <1>1, <1>2 DEF IInv

(* Output is only appended while no request is waited for. *)
LEMMA AppendStep ==
    ASSUME IInv, NEW k \in Nat, produced + k <= MaxOutput, AppendOutput(k),
           phase = "open", attempt = 0, phase' \in {"open", "finish"},
           UNCHANGED <<sent, cancel, tries, flushes, callVars, gitlabVars>>
    PROVE  IInv'
<1>1. /\ trace' \in Seq(Byte) /\ Begins(trace, trace')
      /\ produced' \in 0..MaxOutput /\ truncated' \in BOOLEAN
  BY AppendGrows DEF IInv
<1>2. sent' \in 0..Len(trace')
  BY <1>1 DEF IInv, TypeInv, Begins
<1>3. TypeInv'
  BY <1>1, <1>2, TraceAssumption DEF IInv, TypeInv, callVars, gitlabVars
<1>4. CallInv'
  BY DEF IInv, CallInv, callVars, gitlabVars
<1>5. \A m \in net' : Faithful(m)'
  BY <1>1, FaithfulGrows DEF IInv, TypeInv, StoredInv, callVars
<1>6. Begins(log, trace)'
  <2>1. Begins(log, trace')
    BY <1>1, BeginsTransitive DEF IInv, TypeInv, StoredInv
  <2> QED BY <2>1 DEF gitlabVars
<1>7. StoredInv'
  BY <1>5, <1>6 DEF IInv, StoredInv, AckedIsStored, callVars, gitlabVars
<1> QED BY <1>3, <1>4, <1>7 DEF IInv

LEMMA FlushStep ==
    ASSUME IInv, Flush \/ FinishFlush
    PROVE  IInv'
<1>1. /\ attempt' \in 1..MaxAttempts /\ net' \subseteq Message
      /\ answer' = NoAnswer /\ answer' \in Reply
      /\ CallInv' /\ \A m \in net' : Faithful(m)'
  <2>1. Send(1) /\ UNCHANGED <<trace, sent>>
    BY DEF Flush, FinishFlush, writerVars
  <2>2. 1 \in 1..MaxAttempts
    BY TraceAssumption
  <2> QED BY <2>1, <2>2, SendStep
<1>2. TypeInv'
  <2>1. /\ tries' \in 0..FinishAttempts /\ flushes' \in 0..MaxFlushes
        /\ phase' = "open" => tries' = 0
        /\ phase' = "finish" /\ attempt' = 0 => tries' < FinishAttempts
    <3>1. CASE Flush
      BY <1>1, <3>1, TraceAssumption DEF Flush, IInv, TypeInv
    <3>2. CASE FinishFlush
      BY <1>1, <3>2, TraceAssumption DEF FinishFlush, IInv, TypeInv
    <3> QED BY <3>1, <3>2
  <2>2. UNCHANGED <<writerVars, sent, cancel, phase, gitlabVars>>
    BY DEF Flush, FinishFlush
  <2>3. attempt' \in 0..MaxAttempts
    BY <1>1, TraceAssumption
  <2> QED BY <1>1, <2>1, <2>2, <2>3 DEF IInv, TypeInv, writerVars, gitlabVars
<1>3. StoredInv'
  BY <1>1 DEF Flush, FinishFlush, IInv, StoredInv, AckedIsStored, Begins,
              writerVars, gitlabVars
<1> QED BY <1>1, <1>2, <1>3 DEF IInv

LEMMA FinishIdleStep ==
    ASSUME IInv, FinishIdle
    PROVE  IInv'
<1>1. TypeInv'
  BY DEF FinishIdle, IInv, TypeInv, writerVars, callVars, gitlabVars
<1>2. CallInv'
  BY DEF FinishIdle, IInv, CallInv, callVars, gitlabVars
<1>3. Len(log) = Len(trace) \/ status = "canceled"
  <2>1. /\ Len(log) \in Nat /\ Len(trace) \in Nat /\ sent \in Nat
        /\ Len(log) <= Len(trace) /\ sent >= Len(trace)
    BY DEF FinishIdle, IInv, TypeInv, StoredInv, Begins
  <2> QED BY <2>1 DEF IInv, StoredInv, AckedIsStored
<1>4. StoredInv'
  BY <1>3 DEF FinishIdle, IInv, StoredInv, AckedIsStored, Begins, Faithful,
              writerVars, callVars, gitlabVars
<1> QED BY <1>1, <1>2, <1>4 DEF IInv

(* patch_trace's answer moves `sent` forward, to what GitLab has. *)
LEMMA TakeAnswerStep ==
    ASSUME IInv, TakeAnswer
    PROVE  IInv' /\ sent' >= sent
<1> DEFINE offset == IF answer.offset < Len(trace) THEN answer.offset ELSE Len(trace)
           acked  == IF answer.remote = "Aborted" THEN Len(trace) ELSE offset
<1>1. /\ sent' = acked /\ FlushReturns(acked)
      /\ cancel' = IF Strength[answer.remote] > Strength[cancel]
                     THEN answer.remote ELSE cancel
      /\ UNCHANGED <<writerVars, tries, flushes, gitlabVars>>
  BY DEF TakeAnswer
<1>2. /\ answer.remote = "Aborted" => status = "canceled"
      /\ answer.remote # "Aborted" => sent <= answer.offset /\ answer.offset <= Len(log)
  BY DEF TakeAnswer, IInv, CallInv
<1>3. /\ answer.offset \in Nat /\ answer.remote \in DOMAIN Strength
      /\ cancel \in DOMAIN Strength
      /\ sent \in 0..Len(trace) /\ Len(trace) \in Nat /\ Len(log) \in Nat
      /\ Len(log) <= Len(trace)
  BY DEF IInv, TypeInv, StoredInv, Begins, Reply
<1>4. /\ acked \in 0..Len(trace) /\ acked >= sent
      /\ acked <= Len(log) \/ answer.remote = "Aborted"
  BY <1>2, <1>3
<1>5. /\ cancel' \in DOMAIN Strength
      /\ answer.remote = "Aborted" => cancel' = "Aborted"
      /\ cancel = "Aborted" => cancel' = "Aborted"
      /\ cancel' = "Aborted" => cancel = "Aborted" \/ answer.remote = "Aborted"
  BY <1>1, <1>3 DEF Strength
<1> HIDE DEF acked, offset
<1>6. /\ attempt' = 0 /\ net' \subseteq Message
      /\ answer' = NoAnswer /\ answer' \in Reply
      /\ CallInv' /\ \A m \in net' : Faithful(m)'
      /\ phase' \in {"open", "finish", "complete", "incomplete"}
      /\ phase' = "open" => phase = "open"
      /\ phase' = "finish" => tries < FinishAttempts
      /\ phase' = "complete" /\ phase # "complete" => acked = Len(trace)
  <2>1. phase # "open" \/ tries = 0
    BY DEF IInv, TypeInv
  <2> QED BY <1>1, <1>4, <2>1, FlushReturnsStep DEF writerVars
<1>7. TypeInv'
  BY <1>1, <1>4, <1>5, <1>6, TraceAssumption DEF IInv, TypeInv, writerVars, gitlabVars
<1>8. cancel' = "Aborted" => status = "canceled"
  BY <1>2, <1>5 DEF IInv, StoredInv
<1>9. phase' = "complete" => Len(log) = Len(trace) \/ status = "canceled"
  BY <1>2, <1>3, <1>4, <1>6 DEF IInv, StoredInv
<1>10. StoredInv'
  BY <1>1, <1>4, <1>5, <1>6, <1>8, <1>9
     DEF IInv, StoredInv, AckedIsStored, Begins, writerVars, gitlabVars
<1> QED BY <1>1, <1>4, <1>6, <1>7, <1>10 DEF IInv

LEMMA AttemptFailsStep ==
    ASSUME IInv, AttemptFails
    PROVE  IInv'
<1>1. CASE attempt < MaxAttempts /\ Send(attempt + 1) /\ UNCHANGED phase
  <2>1. UNCHANGED <<writerVars, sent, cancel, tries, flushes, gitlabVars>>
    BY DEF AttemptFails
  <2>2. attempt + 1 \in 1..MaxAttempts
    BY <1>1, TraceAssumption DEF IInv, TypeInv
  <2>3. /\ attempt' \in 1..MaxAttempts /\ net' \subseteq Message
        /\ answer' = NoAnswer /\ answer' \in Reply
        /\ CallInv' /\ \A m \in net' : Faithful(m)'
    BY <1>1, <2>1, <2>2, SendStep DEF writerVars
  <2>4. attempt' \in 0..MaxAttempts /\ attempt' # 0
    BY <2>3, TraceAssumption
  <2>5. TypeInv'
    BY <1>1, <2>1, <2>3, <2>4 DEF IInv, TypeInv, writerVars, gitlabVars
  <2>6. StoredInv'
    BY <1>1, <2>1, <2>3 DEF IInv, StoredInv, AckedIsStored, Begins,
                            writerVars, gitlabVars
  <2> QED BY <2>3, <2>5, <2>6 DEF IInv
<1>2. CASE FlushReturns(sent)
  <2>1. UNCHANGED <<writerVars, sent, cancel, tries, flushes, gitlabVars>>
    BY DEF AttemptFails
  <2>2. sent \in 0..Len(trace) /\ (phase # "open" \/ tries = 0)
    BY DEF IInv, TypeInv
  <2>3. /\ attempt' = 0 /\ net' \subseteq Message
        /\ answer' = NoAnswer /\ answer' \in Reply
        /\ CallInv' /\ \A m \in net' : Faithful(m)'
        /\ phase' \in {"open", "finish", "complete", "incomplete"}
        /\ phase' = "open" => phase = "open"
        /\ phase' = "finish" => tries < FinishAttempts
        /\ phase' = "complete" /\ phase # "complete" => sent = Len(trace)
    BY <1>2, <2>1, <2>2, FlushReturnsStep DEF writerVars
  <2>4. TypeInv'
    BY <2>1, <2>3, TraceAssumption DEF IInv, TypeInv, writerVars, gitlabVars
  <2>5. phase' = "complete" => Len(log) = Len(trace) \/ status = "canceled"
    <3>1. Len(log) \in Nat /\ Len(trace) \in Nat /\ Len(log) <= Len(trace)
      BY DEF IInv, TypeInv, StoredInv, Begins
    <3> QED BY <2>2, <2>3, <3>1 DEF IInv, StoredInv, AckedIsStored
  <2>6. StoredInv'
    BY <2>1, <2>3, <2>5 DEF IInv, StoredInv, AckedIsStored, Begins,
                            writerVars, gitlabVars
  <2> QED BY <2>3, <2>4, <2>6 DEF IInv
<1> QED BY <1>1, <1>2 DEF AttemptFails

-----------------------------------------------------------------------------
(* The steps of GitLab and the network *)

(* A PATCH that continues the log keeps it the beginning of the trace; no   *)
(* answer promises more than the log then holds.                            *)
LEMMA ServeStep ==
    ASSUME IInv, NEW m \in net, Serve(m)
    PROVE  IInv'
<1> DEFINE over     == status = "canceled"
           gap      == ~over /\ m.from # Len(log)
           continue == ~over /\ m.from = Len(log)
           reply ==
             CASE status = "canceled"  -> [code |-> 403, offset |-> m.from,
                                           remote |-> "Aborted"]
               [] status # "canceled" /\ m.from # Len(log)
                                       -> [code |-> 416, offset |-> Len(log),
                                           remote |-> Remote]
               [] OTHER                -> [code |-> 202, offset |-> m.from + Len(m.body),
                                           remote |-> Remote]
<1>1. /\ net' = net \ {m}
      /\ log' = IF reply.code = 202 THEN log \o m.body ELSE log
      /\ answer' = answer \/ (m.live /\ answer' = reply)
      /\ UNCHANGED <<writerVars, sent, cancel, phase, tries, flushes, attempt, status>>
  BY DEF Serve
<1>2. over => reply = [code |-> 403, offset |-> m.from, remote |-> "Aborted"]
  OBVIOUS
<1>3. gap => reply = [code |-> 416, offset |-> Len(log), remote |-> Remote]
  OBVIOUS
<1>4. continue => reply = [code |-> 202, offset |-> m.from + Len(m.body), remote |-> Remote]
  OBVIOUS
<1> HIDE DEF reply
<1>5. /\ m \in Message /\ m.from \in Nat /\ m.body \in Seq(Byte) /\ Faithful(m)
      /\ Len(m.body) \in Nat
      /\ log \in Seq(Byte) /\ trace \in Seq(Byte)
      /\ Len(log) \in Nat /\ Len(trace) \in Nat /\ Len(log) <= Len(trace)
  BY DEF IInv, TypeInv, StoredInv, Begins, Message
<1>6. Remote \in {"Canceling", "Running"}
  BY DEF Remote
<1>7. /\ ~continue => log' = log
      /\ continue => log' = log \o m.body
  BY <1>1, <1>2, <1>3, <1>4
<1>8. /\ log' \in Seq(Byte) /\ Begins(log', trace) /\ Len(log) <= Len(log')
      /\ Len(log') \in Nat /\ Len(log') <= Len(trace)
      /\ continue => Len(log') = Len(log) + Len(m.body)
  <2>1. CASE ~continue
    BY <1>5, <1>7, <2>1 DEF IInv, StoredInv
  <2>2. CASE continue
    <3>1. log' = log \o m.body /\ m.from = Len(log)
      BY <1>7, <2>2
    <3>2. /\ log' \in Seq(Byte) /\ Len(log') = Len(log) + Len(m.body)
          /\ \A i \in 1..Len(log') : log'[i] = IF i <= Len(log) THEN log[i]
                                                 ELSE m.body[i - Len(log)]
      BY <1>5, <3>1, ConcatProperties
    <3>3. ASSUME NEW i \in 1..Len(log') PROVE log'[i] = trace[i]
      <4>1. CASE i <= Len(log)
        BY <1>5, <3>2, <4>1 DEF IInv, StoredInv, Begins
      <4>2. CASE i > Len(log)
        <5>1. i - Len(log) \in 1..Len(m.body) /\ Len(log) + (i - Len(log)) = i
          BY <1>5, <3>2, <4>2
        <5> QED BY <1>5, <3>1, <3>2, <4>2, <5>1 DEF Faithful
      <4> QED BY <1>5, <3>2, <4>1, <4>2
    <3>4. Len(log') <= Len(trace)
      BY <1>5, <3>1, <3>2 DEF Faithful
    <3> QED BY <1>5, <3>2, <3>3, <3>4 DEF Begins
  <2> QED BY <2>1, <2>2
<1>9. /\ reply.offset \in Nat /\ reply.remote \in DOMAIN Strength
      /\ reply \in Reply
  BY <1>2, <1>3, <1>4, <1>5, <1>6 DEF Reply, Strength
<1>10. answer' \in Reply
  BY <1>1, <1>9 DEF IInv, TypeInv
<1>11. TypeInv'
  BY <1>1, <1>8, <1>10 DEF IInv, TypeInv, writerVars
<1>12. CallInv'
  <2>1. \A x \in net' : x.live => x.from = sent' /\ attempt' > 0
    BY <1>1 DEF IInv, CallInv
  <2>2. CASE answer' = answer
    BY <1>1, <1>5, <1>8, <2>1, <2>2 DEF IInv, TypeInv, CallInv, Reply
  <2>3. CASE m.live /\ answer' = reply
    <3>1. attempt > 0 /\ m.from = sent /\ sent \in Nat
      BY <2>3 DEF IInv, TypeInv, CallInv
    <3>2. reply.remote = "Aborted" => over
      BY <1>2, <1>3, <1>4, <1>6
    <3>3. CASE gap
      <4>1. sent <= Len(log)
        BY <3>3 DEF IInv, StoredInv, AckedIsStored
      <4>2. reply.offset = Len(log)
        BY <1>3, <3>3
      <4> QED BY <1>1, <1>8, <1>5, <2>1, <2>3, <3>1, <3>2, <4>1, <4>2 DEF CallInv
    <3>4. CASE continue
      <4>1. reply.offset = Len(log') /\ sent <= Len(log')
        BY <1>4, <1>5, <1>8, <3>1, <3>4
      <4> QED BY <1>1, <1>8, <2>1, <2>3, <3>1, <3>2, <4>1 DEF CallInv
    <3>5. CASE over
      <4>1. reply.remote = "Aborted"
        BY <1>2, <3>5
      <4> QED BY <1>1, <2>1, <2>3, <3>1, <3>5, <4>1 DEF CallInv
    <3> QED BY <3>3, <3>4, <3>5
  <2> QED BY <1>1, <2>2, <2>3
<1>13. StoredInv'
  <2>1. AckedIsStored'
    BY <1>1, <1>5, <1>8 DEF IInv, TypeInv, StoredInv, AckedIsStored
  <2>2. \A x \in net' : Faithful(x)'
    BY <1>1 DEF IInv, StoredInv, Faithful, writerVars
  <2>3. Begins(log, trace)'
    BY <1>1, <1>8 DEF Begins, writerVars
  <2> QED BY <1>1, <1>5, <1>8, <2>1, <2>2, <2>3 DEF IInv, StoredInv, writerVars
<1> QED BY <1>11, <1>12, <1>13 DEF IInv

LEMMA OutsideStep ==
    ASSUME IInv, (\E m \in net : Lose(m)) \/ CancelJob \/ UNCHANGED vars
    PROVE  IInv'
<1>1. /\ UNCHANGED <<writerVars, sent, cancel, phase, tries, flushes, attempt, answer, log>>
      /\ net' \subseteq net
      /\ status' \in {"running", "canceling", "canceled"}
      /\ status = "canceled" => status' = "canceled"
  <2>1. CASE \E m \in net : Lose(m)
    BY <2>1 DEF Lose, IInv, TypeInv, gitlabVars
  <2>2. CASE CancelJob
    BY <2>2 DEF CancelJob, IInv, TypeInv, callVars
  <2>3. CASE UNCHANGED vars
    BY <2>3 DEF vars, IInv, TypeInv, callVars, gitlabVars
  <2> QED BY <2>1, <2>2, <2>3
<1>2. TypeInv'
  BY <1>1 DEF IInv, TypeInv, writerVars
<1>3. CallInv'
  BY <1>1 DEF IInv, CallInv
<1>4. StoredInv'
  BY <1>1 DEF IInv, StoredInv, AckedIsStored, Begins, Faithful, writerVars
<1> QED BY <1>2, <1>3, <1>4 DEF IInv

-----------------------------------------------------------------------------
(* The theorems *)

LEMMA NextIInv == IInv /\ [Next]_vars => IInv'
<1> SUFFICES ASSUME IInv, [Next]_vars PROVE IInv'
  OBVIOUS
<1>1. CASE \E k \in 1..MaxOutput : Write(k)
  <2>1. PICK k \in 1..MaxOutput : Write(k)
    BY <1>1
  <2>2. k \in Nat
    BY TraceAssumption
  <2> QED BY <2>1, <2>2, AppendStep DEF Write
<1>2. CASE \E k \in 0..1 : Finish(k)
  <2>1. PICK k \in 0..1 : Finish(k)
    BY <1>2
  <2> QED BY <2>1, AppendStep DEF Finish
<1>3. CASE Flush \/ FinishFlush
  BY <1>3, FlushStep
<1>4. CASE FinishIdle
  BY <1>4, FinishIdleStep
<1>5. CASE TakeAnswer
  BY <1>5, TakeAnswerStep
<1>6. CASE AttemptFails
  BY <1>6, AttemptFailsStep
<1>7. CASE \E m \in net : Serve(m)
  BY <1>7, ServeStep
<1>8. CASE (\E m \in net : Lose(m)) \/ CancelJob \/ UNCHANGED vars
  BY <1>8, OutsideStep
<1>9. CASE Ended
  BY <1>9, OutsideStep DEF Ended
<1> QED BY <1>1, <1>2, <1>3, <1>4, <1>5, <1>6, <1>7, <1>8, <1>9
        DEF Next, WriterStep

(* The invariant the theorems below rest on: the requests under way are     *)
(* parts of the trace, the answer under way promises no more than GitLab    *)
(* has, and `sent` is never ahead of GitLab's log.                          *)
THEOREM Invariant == Spec => []IInv
BY InitIInv, NextIInv, PTL DEF Spec

(* Types and bounds: `sent` stays within the trace, and the retries of      *)
(* patch_trace and of finish within their limits.                           *)
THEOREM TypeCorrect == Spec => []TypeOK
<1>1. IInv => TypeOK
  BY DEF IInv, TypeInv, TypeOK, Message, Byte
<1> QED BY <1>1, Invariant, PTL

(* What GitLab has is the beginning of the trace, whatever append_trace's   *)
(* retries repeat and whenever a given up PATCH arrives.                    *)
THEOREM LogsArePrefixes == Spec => []LogIsPrefix
<1>1. IInv => LogIsPrefix
  <2> SUFFICES ASSUME IInv PROVE LogIsPrefix
    OBVIOUS
  <2>1. /\ log \in Seq(Byte) /\ trace \in Seq(Byte)
        /\ Len(log) \in Nat /\ Len(trace) \in Nat /\ Len(log) <= Len(trace)
        /\ \A i \in 1..Len(log) : log[i] = trace[i]
    BY DEF IInv, TypeInv, StoredInv, Begins
  <2>2. SubSeq(log, 1, Len(log)) = SubSeq(trace, 1, Len(log))
    <3> DEFINE a == SubSeq(log, 1, Len(log))
               b == SubSeq(trace, 1, Len(log))
    <3>1. /\ \A i \in 1..Len(log) : log[i] \in Byte /\ trace[i] \in Byte
          /\ 1 \in Int /\ Len(log) \in Int
      BY <2>1
    <3>2. /\ a \in Seq(Byte) /\ Len(a) = IF 1 <= Len(log) THEN Len(log) - 1 + 1 ELSE 0
          /\ \A i \in 1..(Len(log) - 1 + 1) : a[i] = log[1 + i - 1]
      BY <3>1, SubSeqProperties
    <3>3. /\ b \in Seq(Byte) /\ Len(b) = IF 1 <= Len(log) THEN Len(log) - 1 + 1 ELSE 0
          /\ \A i \in 1..(Len(log) - 1 + 1) : b[i] = trace[1 + i - 1]
      BY <3>1, SubSeqProperties
    <3> HIDE DEF a, b
    <3>4. Len(a) = Len(log) /\ Len(b) = Len(log)
      BY <2>1, <3>2, <3>3
    <3>5. \A i \in 1..Len(a) : a[i] = b[i]
      BY <2>1, <3>2, <3>3, <3>4
    <3>6. a = b
      BY <3>2, <3>3, <3>4, <3>5, SeqEqual
    <3> QED BY <3>6 DEF a, b
  <2> QED BY <2>1, <2>2 DEF LogIsPrefix, IsPrefix
<1> QED BY <1>1, Invariant, PTL

(* flush never counts output as sent that GitLab does not have, as long as  *)
(* GitLab takes output of this job.                                         *)
THEOREM AckedAreStored == Spec => []AckedIsStored
<1>1. IInv => AckedIsStored
  BY DEF IInv, StoredInv
<1> QED BY <1>1, Invariant, PTL

(* When finish returns without its warning, GitLab has the whole trace or   *)
(* the job was canceled there.                                              *)
THEOREM CompletesAreStored == Spec => []CompleteIsStored
<1>1. IInv => CompleteIsStored
  <2> SUFFICES ASSUME IInv, phase = "complete", status # "canceled"
               PROVE  log = trace
    BY DEF CompleteIsStored
  <2>1. /\ log \in Seq(Byte) /\ trace \in Seq(Byte) /\ Len(log) = Len(trace)
        /\ \A i \in 1..Len(log) : log[i] = trace[i]
    BY DEF IInv, TypeInv, StoredInv, Begins
  <2> QED BY <2>1, SeqEqual
<1> QED BY <1>1, Invariant, PTL

(* The acknowledged offset never goes back: the offset of a 416 that flush  *)
(* takes over is never below the one it knew.                               *)
THEOREM SentNeverBack == Spec => NeverUnacknowledged
<1>1. IInv /\ [Next]_vars => [sent' >= sent]_vars
  <2> SUFFICES ASSUME IInv, Next PROVE sent' >= sent
    OBVIOUS
  <2>1. CASE TakeAnswer
    BY <2>1, TakeAnswerStep
  <2>2. CASE ~TakeAnswer
    <3>1. sent' = sent /\ sent \in Nat
      BY <2>2 DEF Next, WriterStep, Write, Finish, Flush, FinishFlush, FinishIdle,
                  AttemptFails, Serve, Lose, CancelJob, Ended, vars, IInv, TypeInv
    <3> QED BY <3>1
  <2> QED BY <2>1, <2>2
<1> QED BY <1>1, Invariant, PTL DEF Spec, NeverUnacknowledged

-----------------------------------------------------------------------------
(* What the trace holds *)

(* TraceIsOutput, byte by byte: everything that was produced, or what fits  *)
(* and the notice.                                                          *)
OutputInv ==
    /\ ~truncated => /\ Len(trace) = produced /\ produced <= Limit
                     /\ \A i \in 1..produced : trace[i] = i
    /\ truncated  => \E n \in Nat :
                        /\ Len(trace) = n + 1 /\ n <= Limit /\ n < produced
                        /\ trace[n + 1] = Notice
                        /\ \A i \in 1..n : trace[i] = i

(* A trace of n bytes, and what is added to it. *)
LEMMA AppendedBytes ==
    ASSUME NEW s \in Seq(Byte), NEW t \in Seq(Byte),
           NEW n \in Nat, n = Len(s), NEW k \in Nat, k = Len(t)
    PROVE  /\ s \o t \in Seq(Byte) /\ Len(s \o t) = n + k
           /\ \A i \in 1..(n + k) : (s \o t)[i] = IF i <= n THEN s[i] ELSE t[i - n]
BY ConcatProperties

LEMMA AppendKeepsOutput ==
    ASSUME TypeInv, OutputInv, NEW k \in Nat, AppendOutput(k),
           produced + k <= MaxOutput
    PROVE  OutputInv'
<1> DEFINE bytes == [i \in 1..k |-> produced + i]
           room  == IF Limit > Len(trace) THEN Limit - Len(trace) ELSE 0
<1>1. /\ produced \in Nat /\ produced' = produced + k /\ trace \in Seq(Byte)
      /\ Limit \in Nat /\ MaxOutput \in Nat
  BY TraceAssumption DEF TypeInv, AppendOutput
<1>2. bytes \in Seq(Byte) /\ Len(bytes) = k /\ \A i \in 1..k : bytes[i] = produced + i
  <2>1. bytes \in [1..k -> Byte]
    BY <1>1 DEF Byte
  <2> QED BY <2>1, SeqDef
<1>7. \/ truncated /\ truncated' = truncated /\ trace' = trace
      \/ ~truncated /\ k <= room /\ truncated' = truncated /\ trace' = trace \o bytes
      \/ /\ ~truncated /\ k > room /\ truncated' = TRUE
         /\ \E cut \in {c \in 0..room : c >= room - 3} :
              trace' = (trace \o SubSeq(bytes, 1, cut)) \o <<Notice>>
  BY Zenon DEF AppendOutput
<1>8. room = IF Limit > Len(trace) THEN Limit - Len(trace) ELSE 0
  OBVIOUS
<1> HIDE DEF bytes, room
<1>9. room \in Nat
  BY <1>1, <1>8
<1>3. CASE truncated
  <2>1. truncated' /\ trace' = trace
    BY <1>3, <1>7
  <2>2. PICK n \in Nat :
          /\ Len(trace) = n + 1 /\ n <= Limit /\ n < produced
          /\ trace[n + 1] = Notice
          /\ \A i \in 1..n : trace[i] = i
    BY <1>3 DEF OutputInv
  <2>3. n < produced'
    BY <1>1, <2>2
  <2> QED BY <2>1, <2>2, <2>3 DEF OutputInv
<1>4. CASE ~truncated /\ k <= room
  <2>1. ~truncated' /\ trace' = trace \o bytes
    BY <1>4, <1>7, <1>9, <1>1
  <2>2. /\ Len(trace) = produced /\ produced <= Limit
        /\ \A i \in 1..produced : trace[i] = i
    BY <1>4 DEF OutputInv
  <2>3. /\ Len(trace') = produced + k
        /\ \A i \in 1..(produced + k) :
             trace'[i] = IF i <= produced THEN trace[i] ELSE bytes[i - produced]
    <3>1. /\ trace \in Seq(Byte) /\ produced \in Nat /\ produced = Len(trace)
          /\ bytes \in Seq(Byte) /\ k = Len(bytes)
      BY <1>1, <1>2, <2>2
    <3> QED BY ONLY <2>1, <3>1, k \in Nat, AppendedBytes
  <2>4. \A i \in 1..(produced + k) : trace'[i] = i
    BY <1>1, <1>2, <2>2, <2>3
  <2>5. produced + k <= Limit
    BY <1>1, <1>4, <1>8, <2>2
  <2> QED BY <1>1, <2>1, <2>3, <2>4, <2>5 DEF OutputInv
<1>5. CASE ~truncated /\ k > room
  <2>1. ~(k <= room)
    BY <1>5, <1>9
  <2>2. PICK cut \in {c \in 0..room : c >= room - 3} :
            trace' = (trace \o SubSeq(bytes, 1, cut)) \o <<Notice>>
    BY <1>5, <1>7, <2>1
  <2>3. /\ Len(trace) = produced /\ produced <= Limit
        /\ \A i \in 1..produced : trace[i] = i
    BY <1>5 DEF OutputInv
  <2>12. truncated'
    BY <1>5, <1>7, <2>1
  <2>4. cut \in Nat /\ cut < k /\ produced + cut <= Limit /\ cut \in Int
    BY <1>1, <1>5, <1>8, <1>9, <2>3
  <2> DEFINE part == SubSeq(bytes, 1, cut)
             s    == trace \o part
             end  == <<Notice>>
  <2>5. /\ part \in Seq(Byte) /\ Len(part) = cut
        /\ \A i \in 1..cut : part[i] = produced + i
    <3>1. \A i \in 1..cut : bytes[i] \in Byte
      BY <1>2, <2>4
    <3>2. /\ part \in Seq(Byte) /\ Len(part) = IF 1 <= cut THEN cut - 1 + 1 ELSE 0
          /\ \A i \in 1..(cut - 1 + 1) : part[i] = bytes[1 + i - 1]
      BY <1>2, <2>4, <3>1, SubSeqProperties
    <3> HIDE DEF part
    <3> QED BY <1>2, <2>4, <3>2
  <2> HIDE DEF part
  <2>6. /\ s \in Seq(Byte) /\ Len(s) = produced + cut
        /\ \A i \in 1..(produced + cut) : s[i] = i
    <3>1. /\ trace \in Seq(Byte) /\ produced \in Nat /\ produced = Len(trace)
          /\ part \in Seq(Byte) /\ cut \in Nat /\ cut = Len(part)
      BY <1>1, <2>3, <2>4, <2>5
    <3>2. /\ s \in Seq(Byte) /\ Len(s) = produced + cut
          /\ \A i \in 1..(produced + cut) :
               s[i] = IF i <= produced THEN trace[i] ELSE part[i - produced]
      BY ONLY <3>1, AppendedBytes
    <3> HIDE DEF s
    <3> QED BY <1>1, <2>3, <2>4, <2>5, <3>2
  <2>7. trace' = s \o end
    BY <2>2 DEF part
  <2>8. end \in Seq(Byte) /\ Len(end) = 1 /\ end[1] = Notice
    BY <1>1 DEF Notice, Byte
  <2> HIDE DEF s, end
  <2>13. produced + cut \in Nat /\ 1 \in Nat
    BY <1>1, <2>4
  <2>9. /\ Len(trace') = (produced + cut) + 1
        /\ \A i \in 1..(produced + cut + 1) :
             trace'[i] = IF i <= produced + cut THEN s[i]
                           ELSE end[i - (produced + cut)]
    <3>1. /\ s \in Seq(Byte) /\ produced + cut = Len(s)
          /\ end \in Seq(Byte) /\ 1 = Len(end)
      BY <2>6, <2>8
    <3>2. PICK n \in Nat, k1 \in Nat : n = produced + cut /\ k1 = 1
      BY <2>13
    <3>3. n = Len(s) /\ k1 = Len(end)
      BY <3>1, <3>2
    <3>4. /\ Len(s \o end) = n + k1
          /\ \A i \in 1..(n + k1) : (s \o end)[i] = IF i <= n THEN s[i] ELSE end[i - n]
      BY ONLY n \in Nat, k1 \in Nat, <3>1, <3>3, AppendedBytes
    <3> QED BY ONLY <2>7, <3>2, <3>4
  <2>10. /\ trace'[produced + cut + 1] = Notice
         /\ \A i \in 1..(produced + cut) : trace'[i] = i
    BY <1>1, <2>4, <2>6, <2>8, <2>9
  <2>11. produced + cut \in Nat /\ produced + cut < produced'
    BY <1>1, <2>4
  <2> QED BY <2>12, <2>4, <2>9, <2>10, <2>11 DEF OutputInv
<1>6. k <= room \/ k > room
  BY <1>9
<1> QED BY <1>3, <1>4, <1>5, <1>6

LEMMA NextOutput == IInv /\ OutputInv /\ [Next]_vars => OutputInv'
<1> SUFFICES ASSUME IInv, OutputInv, [Next]_vars PROVE OutputInv'
  OBVIOUS
<1>1. CASE \E k \in 1..MaxOutput : Write(k)
  <2>1. PICK k \in 1..MaxOutput : Write(k)
    BY <1>1
  <2> QED BY <2>1, AppendKeepsOutput, TraceAssumption DEF Write, IInv
<1>2. CASE \E k \in 0..1 : Finish(k)
  <2>1. PICK k \in 0..1 : Finish(k)
    BY <1>2
  <2> QED BY <2>1, AppendKeepsOutput DEF Finish, IInv
<1>3. CASE UNCHANGED writerVars
  BY <1>3 DEF OutputInv, writerVars
<1>4. \/ \E k \in 1..MaxOutput : Write(k)
      \/ \E k \in 0..1 : Finish(k)
      \/ UNCHANGED writerVars
  BY DEF Next, WriterStep, Flush, FinishFlush, FinishIdle, TakeAnswer, AttemptFails,
         Serve, Lose, CancelJob, Ended, vars, writerVars
<1> QED BY <1>1, <1>2, <1>3, <1>4

(* The trace is what the job wrote, cut at output_limit, with the notice of *)
(* append once and at the end, however its output came in pieces.           *)
THEOREM TracesAreOutput == Spec => []TraceIsOutput
<1>1. Init => OutputInv
  BY TraceAssumption DEF Init, OutputInv
<1>2. IInv /\ OutputInv => TraceIsOutput
  <2> SUFFICES ASSUME IInv, OutputInv PROVE TraceIsOutput
    OBVIOUS
  <2>1. produced \in Nat /\ trace \in Seq(Byte) /\ Len(trace) \in Nat
    BY TraceAssumption DEF IInv, TypeInv, Byte
  <2>2. ASSUME ~truncated PROVE trace = [i \in 1..produced |-> i] /\ Len(trace) <= Limit
    <3>1. trace = [i \in 1..Len(trace) |-> trace[i]]
      BY <2>1
    <3>2. [i \in 1..Len(trace) |-> trace[i]] = [i \in 1..produced |-> i]
      BY <2>2 DEF OutputInv
    <3> QED BY <2>2, <3>1, <3>2 DEF OutputInv
  <2>3. ASSUME truncated
        PROVE  /\ trace[Len(trace)] = Notice
               /\ Len(trace) - 1 <= Limit /\ Len(trace) - 1 < produced
               /\ \A i \in 1..(Len(trace) - 1) : trace[i] = i
    <3>1. PICK n \in Nat :
            /\ Len(trace) = n + 1 /\ n <= Limit /\ n < produced
            /\ trace[n + 1] = Notice
            /\ \A i \in 1..n : trace[i] = i
      BY <2>3 DEF OutputInv
    <3>2. Len(trace) - 1 = n
      BY <2>1, <3>1
    <3> QED BY <3>1, <3>2
  <2> QED BY <2>2, <2>3 DEF TraceIsOutput
<1> QED BY <1>1, <1>2, NextOutput, Invariant, PTL DEF Spec

-----------------------------------------------------------------------------
(* TraceStream implements JobLog. *)

LEMMA BeginsIsCut ==
    ASSUME NEW s \in Seq(Byte), NEW t \in Seq(Byte), Begins(s, t)
    PROVE  s = SubSeq(t, 1, Len(s))
<1> DEFINE cut == SubSeq(t, 1, Len(s))
<1>1. /\ Len(s) \in Nat /\ Len(t) \in Nat /\ Len(s) <= Len(t)
      /\ \A i \in 1..Len(s) : s[i] = t[i] /\ t[i] \in Byte
  BY DEF Begins
<1>2. /\ cut \in Seq(Byte) /\ Len(cut) = IF 1 <= Len(s) THEN Len(s) - 1 + 1 ELSE 0
      /\ \A i \in 1..(Len(s) - 1 + 1) : cut[i] = t[1 + i - 1]
  BY <1>1, SubSeqProperties
<1> HIDE DEF cut
<1>3. Len(cut) = Len(s) /\ \A i \in 1..Len(cut) : s[i] = cut[i]
  BY <1>1, <1>2
<1>4. s = cut
  BY <1>2, <1>3, SeqEqual
<1> QED BY <1>4 DEF cut

LEMMA BeginsAndRest ==
    ASSUME NEW s \in Seq(Byte), NEW t \in Seq(Byte), Begins(s, t)
    PROVE  /\ SubSeq(t, Len(s) + 1, Len(t)) \in Seq(Byte)
           /\ t = s \o SubSeq(t, Len(s) + 1, Len(t))
<1> DEFINE rest == SubSeq(t, Len(s) + 1, Len(t))
           both == s \o rest
<1>1. PICK n \in Nat, m \in Nat : n = Len(s) /\ m = Len(t)
  OBVIOUS
<1>2. n <= m /\ \A i \in 1..n : s[i] = t[i]
  BY <1>1 DEF Begins
<1>3. \A i \in (n + 1)..m : t[i] \in Byte
  BY <1>1
<1>4. /\ rest \in Seq(Byte) /\ Len(rest) = IF n + 1 <= m THEN m - (n + 1) + 1 ELSE 0
      /\ \A i \in 1..(m - (n + 1) + 1) : rest[i] = t[(n + 1) + i - 1]
  BY <1>1, <1>3, SubSeqProperties
<1> HIDE DEF rest
<1>5. PICK k \in Nat : k = m - n
  BY <1>2
<1>6. Len(rest) = k /\ \A i \in 1..k : rest[i] = t[n + i]
  BY <1>2, <1>4, <1>5
<1>7. /\ both \in Seq(Byte) /\ Len(both) = n + k
      /\ \A i \in 1..(n + k) : both[i] = IF i <= n THEN s[i] ELSE rest[i - n]
  <2>1. /\ s \in Seq(Byte) /\ n \in Nat /\ n = Len(s)
        /\ rest \in Seq(Byte) /\ k \in Nat /\ k = Len(rest)
    BY <1>1, <1>4, <1>6
  <2> QED BY ONLY <2>1, AppendedBytes
<1> HIDE DEF both
<1>8. Len(both) = Len(t) /\ \A i \in 1..Len(both) : both[i] = t[i]
  <2>1. Len(both) = m /\ n + k = m
    BY <1>5, <1>7
  <2>2. ASSUME NEW i \in 1..m PROVE both[i] = t[i]
    <3>1. CASE i <= n
      BY <1>2, <1>7, <2>1, <3>1
    <3>2. CASE i > n
      <4>1. i - n \in 1..k /\ n + (i - n) = i
        BY <1>5, <3>2
      <4> QED BY <1>6, <1>7, <2>1, <3>2, <4>1
    <3> QED BY <3>1, <3>2
  <2> QED BY <1>1, <2>1, <2>2
<1>9. t = both
  BY <1>7, <1>8, SeqEqual
<1> QED BY <1>4, <1>9 DEF both, rest

(* append adds text, and finish closes the log with it. *)
LEMMA AppendIsAdd ==
    ASSUME TypeInv, NEW k \in Nat, produced + k <= MaxOutput, AppendOutput(k),
           phase = "open", phase' \in {"open", "finish"}, UNCHANGED gitlabVars
    PROVE  Kept!Next
<1>1. trace \in Seq(Byte) /\ trace' \in Seq(Byte) /\ Begins(trace, trace')
  BY AppendGrows DEF TypeInv
<1>2. Kept!Appended \in Seq(Byte) /\ trace' = trace \o Kept!Appended
  BY <1>1, BeginsAndRest DEF Kept!Appended
<1>3. Kept!Add(Kept!Appended)
  BY <1>2 DEF Kept!Add, gitlabVars
<1> QED BY <1>2, <1>3 DEF Kept!Next, Byte

(* GitLab appends a PATCH that continues its log: it keeps more. *)
LEMMA ServeIsKeep ==
    ASSUME IInv, NEW m \in net, Serve(m)
    PROVE  [Kept!Next]_(Kept!logVars)
<1>1. /\ UNCHANGED <<trace, phase, status>>
      /\ log' = log \/ (status # "canceled" /\ log' = log \o m.body)
  BY DEF Serve, writerVars
<1>2. /\ log \in Seq(Byte) /\ trace \in Seq(Byte) /\ m.body \in Seq(Byte)
  BY DEF IInv, TypeInv, Message
<1>3. log' \in Seq(Byte) /\ Begins(log', trace)
  <2>1. IInv'
    BY ServeStep
  <2> QED BY <1>1, <2>1 DEF IInv, TypeInv, StoredInv, Begins
<1>4. CASE log' = log
  BY <1>1, <1>4 DEF Kept!logVars
<1>5. CASE status # "canceled" /\ log' = log \o m.body
  <2>1. Len(log) \in Nat /\ Len(log') \in Nat /\ Len(trace) \in Nat
    BY <1>2, <1>3
  <2>2. Len(log) <= Len(log')
    BY <1>2, <1>5, <2>1, ConcatProperties
  <2>3. Len(log') <= Len(trace) /\ log' = SubSeq(trace, 1, Len(log'))
    BY <1>2, <1>3, BeginsIsCut DEF Begins
  <2>4. Len(log') \in Len(log) .. Len(trace)
    BY <2>1, <2>2, <2>3
  <2>5. Kept!Keep(Len(log'))
    BY <1>1, <1>5, <2>3, <2>4 DEF Kept!Keep
  <2> QED BY <2>5 DEF Kept!Next
<1> QED BY <1>1, <1>4, <1>5

(* The loop of finish ends: with the truth about what was kept. *)
LEMMA EndIsEnd ==
    ASSUME IInv, FinishIdle \/ TakeAnswer \/ AttemptFails
    PROVE  [Kept!Next]_(Kept!logVars)
<1>1. UNCHANGED <<trace, log, status>>
  BY DEF FinishIdle, TakeAnswer, AttemptFails, writerVars, gitlabVars
<1>2. \/ phase' = phase
      \/ phase = "finish" /\ phase' \in {"complete", "incomplete"}
  <2>1. ASSUME NEW acked, FlushReturns(acked)
        PROVE  phase # "finish" => phase' = phase
    BY <2>1 DEF FlushReturns
  <2>2. ASSUME NEW acked, FlushReturns(acked), phase = "finish"
        PROVE  phase' \in {"complete", "incomplete", "finish"}
    BY <2>2 DEF FlushReturns
  <2>3. CASE FinishIdle
    BY <2>3 DEF FinishIdle
  <2>4. CASE ~FinishIdle
    <3>1. (\E acked : FlushReturns(acked)) \/ phase' = phase
      BY <2>4 DEF TakeAnswer, AttemptFails
    <3> QED BY <2>1, <2>2, <3>1
  <2> QED BY <2>3, <2>4
<1>3. phase' = "complete" /\ status # "canceled" => log = trace
  <2>1. IInv'
    BY FinishIdleStep, TakeAnswerStep, AttemptFailsStep
  <2>2. ASSUME phase' = "complete", status # "canceled" PROVE log = trace
    <3>1. /\ log \in Seq(Byte) /\ trace \in Seq(Byte) /\ Len(log) = Len(trace)
          /\ \A i \in 1..Len(log) : log[i] = trace[i]
      BY <1>1, <2>1, <2>2 DEF IInv, TypeInv, StoredInv, Begins
    <3> QED BY <3>1, SeqEqual
  <2> QED BY <2>2
<1>4. CASE phase' = phase
  BY <1>1, <1>4 DEF Kept!logVars
<1>5. CASE phase = "finish" /\ phase' \in {"complete", "incomplete"}
  BY <1>1, <1>3, <1>5 DEF Kept!End, Kept!Next
<1> QED BY <1>2, <1>4, <1>5

LEMMA LogStep == IInv /\ [Next]_vars => [Kept!Next]_(Kept!logVars)
<1> SUFFICES ASSUME IInv, [Next]_vars PROVE [Kept!Next]_(Kept!logVars)
  OBVIOUS
<1>1. CASE \E k \in 1..MaxOutput : Write(k)
  <2>1. PICK k \in 1..MaxOutput : Write(k)
    BY <1>1
  <2>2. k \in Nat
    BY TraceAssumption
  <2> QED BY <2>1, <2>2, AppendIsAdd DEF Write, IInv
<1>2. CASE \E k \in 0..1 : Finish(k)
  <2>1. PICK k \in 0..1 : Finish(k)
    BY <1>2
  <2> QED BY <2>1, AppendIsAdd DEF Finish, IInv
<1>3. CASE FinishIdle \/ TakeAnswer \/ AttemptFails
  BY <1>3, EndIsEnd
<1>4. CASE \E m \in net : Serve(m)
  BY <1>4, ServeIsKeep
<1>5. CASE CancelJob
  <2>1. UNCHANGED <<trace, log, phase>>
    BY <1>5 DEF CancelJob, writerVars
  <2>2. CASE status' = "canceled"
    BY <2>1, <2>2 DEF Kept!Unwant, Kept!Next
  <2>3. CASE status' # "canceled"
    BY <1>5, <2>1, <2>3 DEF CancelJob, Kept!logVars
  <2> QED BY <2>2, <2>3
<1>6. CASE UNCHANGED <<trace, log, status, phase>>
  BY <1>6 DEF Kept!logVars
<1>7. \/ \E k \in 1..MaxOutput : Write(k)
      \/ \E k \in 0..1 : Finish(k)
      \/ FinishIdle \/ TakeAnswer \/ AttemptFails
      \/ \E m \in net : Serve(m)
      \/ CancelJob
      \/ UNCHANGED <<trace, log, status, phase>>
  BY DEF Next, WriterStep, Flush, FinishFlush, Lose, Ended, vars, writerVars, gitlabVars
<1> QED BY <1>1, <1>2, <1>3, <1>4, <1>5, <1>6, <1>7

(* The job log of trace.rs is the log a job may expect: text of which GitLab *)
(* keeps a growing beginning, until the job is over there, and an end that  *)
(* tells the truth about it.  (That the end comes is checked by TLC.)       *)
THEOREM ImplementsLogSafety == Spec => Kept!SafeSpec
<1>1. Init => Kept!Init
  BY DEF Init, Kept!Init
<1> QED BY <1>1, LogStep, Invariant, PTL DEF Spec, Kept!SafeSpec
=============================================================================
