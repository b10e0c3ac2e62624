-------------------------- MODULE LogWriterProofs --------------------------
(***************************************************************************)
(* The log writer's safety, for any actors, sinks and number of records.   *)
(* Everything rests on one invariant, Inv: what a sink holds is a prefix   *)
(* of what was handed out, how the writer stands says which sinks have     *)
(* failed, and no record is lost while the writer has not failed.          *)
(***************************************************************************)
EXTENDS LogWriter, SequenceTheorems, TLAPS

Has(q, record) == \E j \in DOMAIN q : q[j] = record

(***************************************************************************)
(* Sequences.                                                              *)
(***************************************************************************)

\* Appending keeps what is there and adds what is appended.
LEMMA AppendHas ==
  ASSUME NEW S, NEW q \in Seq(S), NEW x \in S
  PROVE  /\ Append(q, x) \in Seq(S)
         /\ Has(Append(q, x), x)
         /\ \A y : Has(q, y) => Has(Append(q, x), y)
<1>1. /\ Append(q, x) \in Seq(S)
      /\ DOMAIN Append(q, x) = 1 .. Len(q) + 1 /\ DOMAIN q = 1 .. Len(q)
      /\ \A i \in 1 .. Len(q) : Append(q, x)[i] = q[i]
      /\ Append(q, x)[Len(q) + 1] = x /\ Len(q) \in Nat
  BY AppendProperties, LenProperties
<1> QED
  BY <1>1 DEF Has

\* What a sequence has is its head or in its tail.
LEMMA HeadOrTail ==
  ASSUME NEW S, NEW q \in Seq(S), q # << >>
  PROVE  /\ Head(q) \in S /\ Tail(q) \in Seq(S)
         /\ \A y : Has(q, y) => y = Head(q) \/ Has(Tail(q), y)
<1>1. /\ Head(q) \in S /\ Tail(q) \in Seq(S)
      /\ Len(Tail(q)) = Len(q) - 1
      /\ \A i \in 1 .. Len(Tail(q)) : Tail(q)[i] = q[i + 1]
      /\ Head(q) = q[1]
  BY HeadTailProperties
<1>2. DOMAIN q = 1 .. Len(q) /\ DOMAIN Tail(q) = 1 .. Len(Tail(q)) /\ Len(q) \in Nat
  BY <1>1, LenProperties
<1>3. ASSUME NEW y, Has(q, y), y # Head(q) PROVE Has(Tail(q), y)
  <2>1. PICK j \in DOMAIN q : q[j] = y
    BY <1>3 DEF Has
  <2>2. j - 1 \in DOMAIN Tail(q) /\ Tail(q)[j - 1] = y
    BY <1>1, <1>2, <1>3, <2>1
  <2> QED
    BY <2>2 DEF Has
<1> QED
  BY <1>1, <1>3

\* A prefix stays one as the whole grows; a sequence is a prefix of itself.
LEMMA PrefixGrows ==
  ASSUME NEW S, NEW s \in Seq(S), NEW t \in Seq(S), NEW x \in S
  PROVE  IsPrefix(s, s) /\ (IsPrefix(s, t) => IsPrefix(s, Append(t, x)))
<1>1. IsPrefix(s, s)
  BY DEF IsPrefix
<1>2. ASSUME IsPrefix(s, t) PROVE IsPrefix(s, Append(t, x))
  <2>1. Len(s) \in Nat /\ Len(t) \in Nat /\ Len(s) <= Len(t)
    BY <1>2, LenProperties DEF IsPrefix
  <2>2. Len(Append(t, x)) = Len(t) + 1
    BY AppendProperties
  <2>3. SubSeq(Append(t, x), 1, Len(s)) = SubSeq(t, 1, Len(s))
    BY <2>1, <2>2
  <2> QED
    BY <1>2, <2>1, <2>2, <2>3 DEF IsPrefix
<1> QED
  BY <1>1, <1>2

(***************************************************************************)
(* The invariant.                                                          *)
(***************************************************************************)

\* What the state of the writer says of the sinks and of those that send.
Standing ==
  /\ writer = "failed" <=> ~(Required \subseteq live)
  /\ writer # "failed" => closed = {}
  /\ Alive => finished = {}
  /\ writer = "done" => senders = {} /\ finished = live /\ channel = << >>

\* No record sent is lost while the writer has not failed.
Kept ==
  writer # "failed" =>
    \A a \in Actors : \A i \in 1 .. sent[a] :
      Has(channel, <<a, i>>) \/ Has(taken, <<a, i>>)

Inv == TypeOK /\ NoGaps /\ Standing /\ Kept

\* The header counts as a record.
LEMMA HeaderIsARecord == Header \in Record
  BY DEF Record

\* The writer starts in the invariant.
LEMMA InitInv == Init => Inv
<1> SUFFICES ASSUME Init PROVE Inv
  OBVIOUS
<1> USE SinksAssumption
<1>1. << >> \in Seq(Record)
  BY EmptySeq
<1>2. TypeOK
  BY <1>1 DEF Init, TypeOK
<1>3. NoGaps
  BY <1>1, PrefixGrows, HeaderIsARecord DEF Init, NoGaps
<1>4. Standing /\ Kept
  BY DEF Init, Standing, Kept
<1> QED
  BY <1>2, <1>3, <1>4 DEF Inv

\* A delivery keeps the invariant, given that what it leaves in the channel
\* and what it takes is what the channel had.
LEMMA DeliverInv ==
  ASSUME Inv, Alive,
         NEW record \in Record, NEW rest \in Seq(Record), NEW failing \in SUBSET live,
         \A y : Has(channel, y) => y = record \/ Has(rest, y),
         Deliver(record, failing, rest),
         UNCHANGED <<senders, sent, closed, finished>>
  PROVE  Inv'
<1> USE SinksAssumption
<1> USE DEF Inv
<1>1. Append(taken, record) \in Seq(Record)
  BY AppendHas DEF TypeOK
<1>2. \A s \in Sinks : Append(lines[s], record) \in Seq(Record)
  BY AppendHas DEF TypeOK
<1>3. << >> \in Seq(Record)
  BY EmptySeq
<1>4. finished = {}
  BY DEF Standing
<1>5. TypeOK'
  BY <1>1, <1>2, <1>3, <1>4 DEF TypeOK, Deliver, HangUp, Recorded
<1>6. NoGaps'
  <2> SUFFICES ASSUME NEW s \in Sinks
               PROVE  IsPrefix(lines'[s], taken') /\ (s \in live' => lines'[s] = taken')
    BY DEF NoGaps
  <2>1. taken' = Append(taken, record) /\ live' = live \ failing
    BY DEF Deliver
  <2>2. CASE s \in live'
    <3>1. lines'[s] = taken'
      BY <2>1, <2>2 DEF Deliver, Recorded, NoGaps
    <3> QED
      BY <3>1, <1>1, <2>1, PrefixGrows
  <2>3. CASE s \notin live'
    <3>1. lines'[s] = lines[s] /\ IsPrefix(lines[s], taken)
      BY <2>1, <2>3 DEF Deliver, Recorded, NoGaps
    <3> QED
      BY <3>1, <2>1, <2>3, PrefixGrows DEF TypeOK
  <2> QED
    BY <2>2, <2>3
<1>7. Standing'
  BY DEF Standing, Deliver, HangUp, Alive, TypeOK
<1>8. Kept'
  <2> SUFFICES ASSUME writer' # "failed", NEW a \in Actors, NEW i \in 1 .. sent[a]
               PROVE  Has(channel', <<a, i>>) \/ Has(taken', <<a, i>>)
    BY DEF Kept
  <2>1. channel' = rest /\ taken' = Append(taken, record)
    BY DEF Deliver, HangUp
  <2>2. Has(channel, <<a, i>>) \/ Has(taken, <<a, i>>)
    BY DEF Kept, Alive
  <2>3. Has(Append(taken, record), record)
        /\ \A y : Has(taken, y) => Has(Append(taken, record), y)
    BY AppendHas DEF TypeOK
  <2> QED
    BY <2>1, <2>2, <2>3
<1> QED
  BY <1>5, <1>6, <1>7, <1>8

\* Every step keeps the invariant.
LEMMA NextInv == Inv /\ [Next]_vars => Inv'
<1> SUFFICES ASSUME Inv, [Next]_vars PROVE Inv'
  OBVIOUS
<1> USE SinksAssumption
<1>1. ASSUME NEW a \in Actors, Send(a) PROVE Inv'
  <2>0. sent[a] \in Nat /\ <<a, sent[a] + 1>> \in Record /\ channel \in Seq(Record)
    BY <1>1 DEF Inv, TypeOK, Send, Record
  <2> DEFINE record == <<a, sent[a] + 1>>
  <2>a. /\ Append(channel, record) \in Seq(Record)
        /\ Has(Append(channel, record), record)
        /\ \A y : Has(channel, y) => Has(Append(channel, record), y)
    BY <2>0, AppendHas
  <2>1. /\ channel' \in Seq(Record)
        /\ Has(channel', <<a, sent[a] + 1>>)
        /\ \A y : Has(channel, y) => Has(channel', y)
    BY <1>1, <2>a DEF Send
  <2>2. TypeOK'
    BY <1>1, <2>1 DEF Inv, TypeOK, Send
  <2>3. NoGaps'
    BY <1>1 DEF Inv, NoGaps, Send
  <2>4. Standing'
    BY <1>1 DEF Inv, Standing, Send, Alive
  <2>5. Kept'
    <3> SUFFICES ASSUME NEW b \in Actors, NEW i \in 1 .. sent'[b]
                 PROVE  Has(channel', <<b, i>>) \/ Has(taken', <<b, i>>)
      BY DEF Kept
    <3>1. CASE b = a /\ i = sent[a] + 1
      BY <2>1, <3>1
    <3>2. CASE ~(b = a /\ i = sent[a] + 1)
      <4>1. i \in 1 .. sent[b]
        BY <1>1, <2>0, <3>2 DEF Send, Inv, TypeOK
      <4>2. Has(channel, <<b, i>>) \/ Has(taken, <<b, i>>)
        BY <1>1, <4>1 DEF Inv, Kept, Send, Alive
      <4> QED
        BY <1>1, <2>1, <4>2 DEF Send
    <3> QED
      BY <3>1, <3>2
  <2> QED
    BY <2>2, <2>3, <2>4, <2>5 DEF Inv
<1>2. ASSUME NEW a \in Actors, SendFails(a) PROVE Inv'
  <2>1. writer = "failed"
    BY <1>2 DEF SendFails, Inv, Standing, TypeOK, Alive
  <2>2. TypeOK'
    BY <1>2 DEF Inv, TypeOK, SendFails
  <2>3. NoGaps' /\ Standing' /\ Kept'
    BY <1>2, <2>1 DEF Inv, NoGaps, Standing, Kept, Alive, SendFails
  <2> QED
    BY <2>2, <2>3 DEF Inv
<1>3. ASSUME NEW a \in Actors, Drop(a) PROVE Inv'
  <2>1. TypeOK'
    BY <1>3 DEF Inv, TypeOK, Drop
  <2>2. NoGaps' /\ Standing' /\ Kept'
    BY <1>3 DEF Inv, NoGaps, Standing, Kept, Alive, Drop
  <2> QED
    BY <2>1, <2>2 DEF Inv
<1>4. ASSUME WriteHeader PROVE Inv'
  <2>1. PICK failing \in SUBSET live : Deliver(Header, failing, channel)
    BY <1>4 DEF WriteHeader
  <2>2. channel \in Seq(Record) /\ Alive
    BY <1>4 DEF WriteHeader, Alive, Inv, TypeOK
  <2> QED
    BY <1>4, <2>1, <2>2, DeliverInv, HeaderIsARecord DEF WriteHeader
<1>5. ASSUME WriteRecord PROVE Inv'
  <2>1. PICK failing \in SUBSET live : Deliver(Head(channel), failing, Tail(channel))
    BY <1>5 DEF WriteRecord
  <2>2. /\ Head(channel) \in Record /\ Tail(channel) \in Seq(Record)
        /\ \A y : Has(channel, y) => y = Head(channel) \/ Has(Tail(channel), y)
    BY <1>5, HeadOrTail DEF WriteRecord, Inv, TypeOK
  <2>3. Alive /\ UNCHANGED <<senders, sent, closed, finished>>
    BY <1>5 DEF WriteRecord, Alive
  <2> QED
    BY <2>1, <2>2, <2>3, DeliverInv
<1>6. ASSUME Finish PROVE Inv'
  <2>1. PICK failing \in SUBSET live : Flush(failing)
    BY <1>6 DEF Finish
  <2>2. << >> \in Seq(Record)
    BY EmptySeq
  <2>3. TypeOK'
    BY <1>6, <2>1, <2>2 DEF Inv, TypeOK, Finish, Flush, HangUp
  <2>4. NoGaps'
    BY <1>6, <2>1 DEF Inv, NoGaps, Finish, Flush
  <2>5. Standing'
    BY <1>6, <2>1 DEF Inv, Standing, Finish, Flush, HangUp, TypeOK, Alive
  <2>6. Kept'
    BY <1>6, <2>1 DEF Inv, Kept, Finish, Flush, HangUp
  <2> QED
    BY <2>3, <2>4, <2>5, <2>6 DEF Inv
<1>7. CASE UNCHANGED vars
  BY <1>7 DEF Inv, TypeOK, NoGaps, Standing, Kept, Alive, vars
<1>8. CASE Joined
  BY <1>7, <1>8 DEF Joined
<1> QED
  BY <1>1, <1>2, <1>3, <1>4, <1>5, <1>6, <1>7, <1>8 DEF Next

(***************************************************************************)
(* The theorems.                                                           *)
(***************************************************************************)

\* The invariant holds of every state of the writer.
THEOREM WriterInvariant == Spec => []Inv
  BY InitInv, NextInv, PTL DEF Spec

\* The types of the writer's state hold for any actors, sinks and records.
THEOREM WriterTypes == Spec => []TypeOK
<1>1. Inv => TypeOK
  BY DEF Inv
<1> QED
  BY <1>1, WriterInvariant, PTL

\* A sink has a prefix of what the writer handed out (deliver): the sinks that
\* fail never leave a gap, in their own record or in another's.
THEOREM SinksHaveNoGaps == Spec => []NoGaps
<1>1. Inv => NoGaps
  BY DEF Inv
<1> QED
  BY <1>1, WriterInvariant, PTL

\* No failure of optional sinks alone fails the writer or an actor's send.
THEOREM OptionalSinksCostNothing == Spec => []OptionalCostsNothing
<1>1. Inv => OptionalCostsNothing
  BY DEF Inv, Standing, OptionalCostsNothing
<1> QED
  BY <1>1, WriterInvariant, PTL

\* A writer whose join answers Ok has left every record sent in every required
\* sink, and finished it.
THEOREM TheRecordIsComplete == Spec => []CompleteIfDone
<1>1. ASSUME Inv, writer = "done" PROVE closed = {} /\ Required \subseteq finished
  BY <1>1 DEF Inv, Standing
<1>2. ASSUME Inv, writer = "done", NEW s \in Required, NEW a \in Actors, NEW i \in 1 .. sent[a]
      PROVE  \E j \in DOMAIN lines[s] : lines[s][j] = <<a, i>>
  <2>1. lines[s] = taken
    BY <1>2, SinksAssumption DEF Inv, Standing, NoGaps
  <2>2. Has(channel, <<a, i>>) \/ Has(taken, <<a, i>>)
    BY <1>2 DEF Inv, Kept
  <2>3. channel = << >>
    BY <1>2 DEF Inv, Standing
  <2>4. ~Has(channel, <<a, i>>)
    BY <2>3, EmptySeq, LenProperties DEF Has
  <2> QED
    BY <2>1, <2>2, <2>4 DEF Has
<1>3. Inv => CompleteIfDone
  BY <1>1, <1>2 DEF CompleteIfDone
<1> QED
  BY <1>3, WriterInvariant, PTL
=============================================================================
