-------------------------- MODULE RemindersProofs --------------------------
(***************************************************************************)
(* What Reminders promises, proved for every set of deadlines, every bound *)
(* and both timers.                                                        *)
(*                                                                         *)
(* The types come first, and with them the promise about the channel: the  *)
(* channel a thread waits on has a type only because an earliest deadline  *)
(* exists, which is the well-foundedness of the naturals.  The order of    *)
(* the reminders needs more than the property says: what is still held     *)
(* must not be able to overtake what has already been handed back.         *)
(***************************************************************************)
EXTENDS Reminders, SequenceTheorems, WellFoundedInduction, TLAPS

(***************************************************************************)
(* The queue.                                                              *)
(***************************************************************************)

\* Any nonempty set of deadlines has an earliest one.
LEMMA SmallestOfSome ==
  ASSUME NEW T \in SUBSET Nat, T # {}
  PROVE  \E x \in T : \A y \in T : x <= y
<1> DEFINE R == {ss \in Nat \X Nat : ss[1] < ss[2]}
<1>1. IsWellFoundedOn(R, Nat)
  BY NatLessThanWellFounded DEF OpToRel
<1> HIDE DEF R
<1>2. PICK x \in T : \A y \in T : ~(<<y, x>> \in R)
  BY <1>1, WFMin
<1>3. \A y \in T : ~(y < x)
  BY <1>2 DEF R
<1> QED
  BY <1>3

Queue == [Deadlines -> Seq(Ids)]

\* What the timer is armed for is one of the channels there are, and with a
\* real timer it is the earliest deadline held, if anything is.
LEMMA ArmSpec ==
  ASSUME NEW h \in Queue
  PROVE  /\ Arm(h) \in Deadlines \cup {Never}
         /\ ~IsHeld => IF Waiting(h) = {} THEN Arm(h) = Never ELSE IsEarliest(h, Arm(h))
<1>1. Waiting(h) \subseteq Deadlines
  BY DEF Waiting, Queue
<1>2. CASE IsHeld \/ Waiting(h) = {}
  BY <1>2 DEF Arm
<1>3. CASE ~IsHeld /\ Waiting(h) # {}
  <2>1. \E d \in Waiting(h) : IsEarliest(h, d)
    BY <1>1, <1>3, SmallestOfSome, DeadlinesAssumption DEF IsEarliest
  <2> QED
    BY <1>1, <1>3, <2>1 DEF Arm
<1> QED
  BY <1>2, <1>3

\* Holding one more reminder puts its number at the end of its deadline's
\* queue and changes nothing else.
LEMMA PushedSpec ==
  ASSUME NEW h \in Queue, NEW d \in Deadlines, NEW n \in Ids
  PROVE  /\ Pushed(h, d, n) \in Queue
         /\ Waiting(Pushed(h, d, n)) = Waiting(h) \cup {d}
         /\ Len(Pushed(h, d, n)[d]) = Len(h[d]) + 1
         /\ Pushed(h, d, n)[d][Len(h[d]) + 1] = n
         /\ \A i \in 1 .. Len(h[d]) : Pushed(h, d, n)[d][i] = h[d][i]
         /\ \A e \in Deadlines \ {d} : Pushed(h, d, n)[e] = h[e]
<1>1. h[d] \in Seq(Ids) /\ Append(h[d], n) \in Seq(Ids)
  BY DEF Queue
<1>2. /\ Len(Append(h[d], n)) = Len(h[d]) + 1
      /\ Append(h[d], n)[Len(h[d]) + 1] = n
      /\ \A i \in 1 .. Len(h[d]) : Append(h[d], n)[i] = h[d][i]
  BY <1>1
<1>3. Append(h[d], n) # << >>
  BY <1>1, <1>2, EmptySeq
<1> QED
  BY <1>1, <1>2, <1>3 DEF Pushed, Queue, Waiting

\* A queue taken out leaves the others.
LEMMA TakenSpec ==
  ASSUME NEW h \in Queue, NEW d \in Deadlines
  PROVE  /\ [h EXCEPT ![d] = << >>] \in Queue
         /\ [h EXCEPT ![d] = << >>][d] = << >>
         /\ \A e \in Deadlines \ {d} : [h EXCEPT ![d] = << >>][e] = h[e]
  BY EmptySeq DEF Queue

\* What one turn of the loop in `due` hands back: the queue of d, in order,
\* behind what was handed back before.
Out(d) == [i \in DOMAIN held[d] |-> [reminder |-> held[d][i], deadline |-> d, at |-> now]]
LEMMA OutSpec ==
  ASSUME TypeOK, NEW d \in Deadlines
  PROVE  /\ Out(d) \in Seq(Fired)
         /\ Len(Out(d)) = Len(held[d])
         /\ fired \o Out(d) \in Seq(Fired)
         /\ Len(fired \o Out(d)) = Len(fired) + Len(held[d])
         /\ \A i \in 1 .. Len(fired) : (fired \o Out(d))[i] = fired[i]
         /\ \A i \in 1 .. Len(held[d]) :
              (fired \o Out(d))[Len(fired) + i] =
                [reminder |-> held[d][i], deadline |-> d, at |-> now]
<1>1. held[d] \in Seq(Ids) /\ fired \in Seq(Fired) /\ now \in 0 .. MaxTime
  BY DEF TypeOK
<1>2. /\ DOMAIN held[d] = 1 .. Len(held[d]) /\ Len(held[d]) \in Nat
      /\ \A i \in 1 .. Len(held[d]) : held[d][i] \in Ids
  BY <1>1, LenProperties
<1>3. Out(d) \in [1 .. Len(held[d]) -> Fired]
  BY <1>1, <1>2 DEF Out, Fired
<1>4. Out(d) \in Seq(Fired) /\ Len(Out(d)) = Len(held[d])
  BY <1>2, <1>3
<1>5. /\ fired \o Out(d) \in Seq(Fired)
      /\ Len(fired \o Out(d)) = Len(fired) + Len(Out(d))
      /\ \A i \in 1 .. Len(fired) + Len(Out(d)) :
           (fired \o Out(d))[i] = IF i <= Len(fired) THEN fired[i] ELSE Out(d)[i - Len(fired)]
  BY <1>1, <1>4, ConcatProperties
<1>6. Len(fired) \in Nat
  BY <1>1, LenProperties
<1>7. \A i \in 1 .. Len(held[d]) :
        Out(d)[i] = [reminder |-> held[d][i], deadline |-> d, at |-> now]
  BY <1>2 DEF Out
<1>8. \A i \in 1 .. Len(held[d]) : (fired \o Out(d))[Len(fired) + i] = Out(d)[i]
  BY <1>2, <1>4, <1>5, <1>6
<1> QED
  BY <1>2, <1>4, <1>5, <1>6, <1>7, <1>8

(***************************************************************************)
(* The channel.                                                            *)
(***************************************************************************)

Armed == TypeOK /\ ArmedForEarliest

\* The types are right from the start, and nothing is armed.
LEMMA ArmedInit == Init => Armed
<1> SUFFICES ASSUME Init PROVE Armed
  OBVIOUS
<1>1. TypeOK
  BY BoundsAssumption, EmptySeq DEF Init, TypeOK, Nothing, Never
<1>2. ArmedForEarliest
  BY DEF Init, ArmedForEarliest, Waiting, Nothing
<1> QED
  BY <1>1, <1>2 DEF Armed

\* Every step keeps the types, and leaves the channel armed for the earliest
\* deadline by the time the thread waits on it again.
LEMMA ArmedStep == Armed /\ [Next]_vars => Armed'
<1> SUFFICES ASSUME Armed, [Next]_vars PROVE Armed'
  OBVIOUS
<1> USE BoundsAssumption, DeadlinesAssumption
<1>0. TypeOK /\ ArmedForEarliest /\ held \in Queue
  BY DEF Armed, TypeOK, Queue
<1>1. CASE Tick
  BY <1>0, <1>1 DEF Tick, Armed, TypeOK, ArmedForEarliest
<1>2. ASSUME NEW d \in Deadlines, Hold(d) PROVE Armed'
  <2>1. Len(asked) + 1 \in Ids /\ asked' \in Seq(Deadlines) /\ Len(asked') = Len(asked) + 1
    BY <1>0, <1>2 DEF Hold, TypeOK, Ids
  <2>2. /\ held' \in Queue
        /\ Waiting(held') = Waiting(held) \cup {d}
    BY <1>0, <1>2, <2>1, PushedSpec DEF Hold
  <2>3. TypeOK'
    BY <1>0, <1>2, <2>1, <2>2, ArmSpec DEF Hold, TypeOK, Queue, Ids
  <2>4. Waiting(held) \subseteq Deadlines
    BY <1>0 DEF Waiting, Queue
  <2>5. CASE \A e \in Waiting(held) : d < e
    BY <1>2, <2>2, <2>3, <2>5, ArmSpec DEF Hold, Armed, ArmedForEarliest
  <2>6. CASE ~IsHeld /\ ~(\A e \in Waiting(held) : d < e)
    <3>1. armed' = armed /\ IsEarliest(held, armed)
      BY <1>0, <1>2, <2>6 DEF Hold, ArmedForEarliest
    <3>2. PICK e \in Waiting(held) : ~(d < e)
      BY <2>6
    <3>3. armed \in Waiting(held) /\ armed <= e
      BY <3>1 DEF IsEarliest
    <3>4. armed \in Nat /\ d \in Nat /\ e \in Nat
      BY <2>4, <3>3
    <3>5. armed <= d
      BY <3>2, <3>3, <3>4
    <3>6. IsEarliest(held', armed')
      BY <2>2, <3>1, <3>3, <3>5 DEF IsEarliest
    <3> QED
      BY <2>2, <2>3, <3>6 DEF Armed, ArmedForEarliest
  <2> QED
    BY <2>3, <2>5, <2>6 DEF Armed, ArmedForEarliest
<1>3. ASSUME NEW d \in Deadlines, TakeDue(d) PROVE Armed'
  <2>1. fired' \in Seq(Fired)
    BY <1>0, <1>3, OutSpec DEF TakeDue, Out
  <2>2. held' \in Queue
    BY <1>0, <1>3, TakenSpec DEF TakeDue
  <2> QED
    BY <1>0, <1>3, <2>1, <2>2 DEF TakeDue, Armed, TypeOK, ArmedForEarliest, Queue
<1>4. CASE Wake
  BY <1>0, <1>4 DEF Wake, Armed, TypeOK, ArmedForEarliest
<1>5. CASE Rearm
  BY <1>0, <1>5, ArmSpec DEF Rearm, Armed, TypeOK, ArmedForEarliest
<1>6. CASE Drain
  <2>1. held' \in Queue /\ Waiting(held') = {}
    BY <1>6, EmptySeq DEF Drain, Nothing, Queue, Waiting
  <2>2. dropped' \subseteq Ids
    BY <1>0, <1>6, LenProperties DEF Drain, HeldSeqs, Elements, Queue
  <2> QED
    BY <1>0, <1>6, <2>1, <2>2 DEF Drain, Armed, TypeOK, ArmedForEarliest, Queue
<1>7. CASE UNCHANGED vars
  BY <1>0, <1>7 DEF vars, Armed, TypeOK, ArmedForEarliest
<1> QED
  BY <1>1, <1>2, <1>3, <1>4, <1>5, <1>6, <1>7 DEF Next, Finished

\* The variables have their types throughout.
THEOREM TypesHold == Spec => []TypeOK
<1>1. Init => Armed
  BY ArmedInit
<1>2. Armed /\ [Next]_vars => Armed'
  BY ArmedStep
<1>3. Armed => TypeOK
  BY DEF Armed
<1> QED
  BY <1>1, <1>2, <1>3, PTL DEF Spec

\* A thread that waits on the real timer's channel is woken for the earliest
\* deadline it holds, whatever was set and handed back before (timer.rs,
\* `hold` and `due`).
THEOREM TheChannelIsArmed == Spec => []ArmedForEarliest
<1>1. Init => Armed
  BY ArmedInit
<1>2. Armed /\ [Next]_vars => Armed'
  BY ArmedStep
<1>3. Armed => ArmedForEarliest
  BY DEF Armed
<1> QED
  BY <1>1, <1>2, <1>3, PTL DEF Spec

(***************************************************************************)
(* Each reminder once.                                                     *)
(***************************************************************************)

\* The numbers held, one by one: what a membership in HeldSeqs comes from.
LEMMA HeldSeqsSpec ==
  ASSUME NEW h \in Queue
  PROVE  /\ HeldSeqs(h) \subseteq Ids
         /\ \A n : n \in HeldSeqs(h) <=> \E d \in Deadlines : \E i \in 1 .. Len(h[d]) : h[d][i] = n
<1>1. \A d \in Deadlines :
        DOMAIN h[d] = 1 .. Len(h[d]) /\ \A i \in 1 .. Len(h[d]) : h[d][i] \in Ids
  BY LenProperties DEF Queue
<1>2. DOMAIN h = Deadlines
  BY DEF Queue
<1> QED
  BY <1>1, <1>2 DEF HeldSeqs, Elements

\* A thread that has not given up has dropped nothing.
Once == Armed /\ FiresOnce /\ (step # "drained" => dropped = {})

LEMMA OnceInit == Init => Once
<1> SUFFICES ASSUME Init PROVE Once
  OBVIOUS
<1>1. Armed
  BY ArmedInit
<1>2. /\ fired = << >> /\ asked = << >> /\ dropped = {}
      /\ \A d \in Deadlines : held[d] = << >>
      /\ DOMAIN held = Deadlines
  BY DEF Init, Nothing
<1>3. Len(asked) = 0 /\ DOMAIN fired = {} /\ \A d \in Deadlines : DOMAIN held[d] = {}
  BY <1>2
<1>4. FiredSeqs = {} /\ HeldSeqs(held) = {}
  BY <1>2, <1>3 DEF FiredSeqs, HeldSeqs, Elements
<1>5. FiresOnce
  BY <1>2, <1>3, <1>4 DEF FiresOnce, NoneFiredTwice, NoneHeldTwice, EachSomewhere
<1> QED
  BY <1>1, <1>2, <1>5 DEF Once

\* A reminder that is set is held under a number that nothing had.
LEMMA OnceHold ==
  ASSUME Once, NEW d \in Deadlines, Hold(d), Armed'
  PROVE  FiresOnce'
<1> DEFINE n == Len(asked) + 1
<1>1. /\ held \in Queue /\ Len(asked) \in Nat /\ n \in Ids
      /\ Len(asked') = n
  BY DEF Once, Armed, TypeOK, Hold, Queue, Ids
<1>2. /\ held' = Pushed(held, d, n)
      /\ fired' = fired /\ dropped' = dropped
  BY DEF Hold
<1>3. /\ held' \in Queue
      /\ Len(held'[d]) = Len(held[d]) + 1
      /\ held'[d][Len(held[d]) + 1] = n
      /\ \A i \in 1 .. Len(held[d]) : held'[d][i] = held[d][i]
      /\ \A e \in Deadlines \ {d} : held'[e] = held[e]
  BY <1>1, <1>2, PushedSpec
<1>4. /\ \A e \in Deadlines : /\ Len(held[e]) \in Nat
                              /\ DOMAIN held[e] = 1 .. Len(held[e])
                              /\ DOMAIN held'[e] = 1 .. Len(held'[e])
  BY <1>1, <1>3, LenProperties DEF Queue
<1>5. /\ n \notin HeldSeqs(held) /\ n \notin FiredSeqs /\ n \notin dropped
  BY <1>1 DEF Once, FiresOnce, EachSomewhere
<1>6. \A e \in Deadlines : \A i \in 1 .. Len(held[e]) : held[e][i] # n
  BY <1>1, <1>5, HeldSeqsSpec
<1> HIDE DEF n
<1>7. NoneFiredTwice'
  BY <1>2 DEF NoneFiredTwice, Once, FiresOnce
<1>8. NoneHeldTwice'
  <2> SUFFICES ASSUME NEW e \in Deadlines, NEW f \in Deadlines,
                      NEW i \in 1 .. Len(held'[e]), NEW j \in 1 .. Len(held'[f]),
                      held'[e][i] = held'[f][j]
               PROVE  e = f /\ i = j
    BY <1>4 DEF NoneHeldTwice
  <2>1. NoneHeldTwice
    BY DEF Once, FiresOnce
  <2>2. /\ i \in 1 .. Len(held[e]) => held'[e][i] = held[e][i]
        /\ j \in 1 .. Len(held[f]) => held'[f][j] = held[f][j]
        /\ i \notin 1 .. Len(held[e]) => e = d /\ i = Len(held[d]) + 1 /\ held'[e][i] = n
        /\ j \notin 1 .. Len(held[f]) => f = d /\ j = Len(held[d]) + 1 /\ held'[f][j] = n
    BY <1>3, <1>4
  <2> QED
    BY <1>4, <1>6, <2>1, <2>2 DEF NoneHeldTwice
<1>9. HeldSeqs(held') = HeldSeqs(held) \cup {n}
  <2>1. \A m : m \in HeldSeqs(held) <=>
          \E e \in Deadlines : \E i \in 1 .. Len(held[e]) : held[e][i] = m
    BY <1>1, HeldSeqsSpec
  <2>2. \A m : m \in HeldSeqs(held') <=>
          \E e \in Deadlines : \E i \in 1 .. Len(held'[e]) : held'[e][i] = m
    BY <1>3, HeldSeqsSpec
  <2>3. n \in HeldSeqs(held')
    BY <1>3, <1>4, <2>2
  <2>4. ASSUME NEW m \in HeldSeqs(held) PROVE m \in HeldSeqs(held')
    BY <1>3, <1>4, <2>1, <2>2
  <2>5. ASSUME NEW m \in HeldSeqs(held'), m # n PROVE m \in HeldSeqs(held)
    BY <1>3, <1>4, <2>1, <2>2, <2>5
  <2> QED
    BY <2>3, <2>4, <2>5
<1>10. EachSomewhere'
  <2>1. 1 .. n = (1 .. Len(asked)) \cup {n}
    BY <1>1 DEF n
  <2> QED
    BY <1>1, <1>2, <1>5, <1>9, <2>1 DEF EachSomewhere, FiredSeqs, Once, FiresOnce
<1> QED
  BY <1>7, <1>8, <1>10 DEF FiresOnce

\* What `due` has handed back after a turn of its loop: what it had before,
\* and d's queue behind it.
LEMMA HandedBack ==
  ASSUME TypeOK, NEW d \in Deadlines, TakeDue(d)
  PROVE  /\ Len(fired) \in Nat /\ Len(held[d]) \in Nat
         /\ DOMAIN fired = 1 .. Len(fired)
         /\ DOMAIN fired' = 1 .. (Len(fired) + Len(held[d]))
         /\ \A i \in 1 .. Len(fired) : fired'[i] = fired[i]
         /\ \A i \in 1 .. Len(held[d]) :
              /\ fired'[Len(fired) + i].reminder = held[d][i]
              /\ fired'[Len(fired) + i].deadline = d
              /\ fired'[Len(fired) + i].at = now
<1>1. fired' = fired \o Out(d) /\ held[d] \in Seq(Ids) /\ fired \in Seq(Fired)
  BY DEF TakeDue, Out, TypeOK
<1>2. Len(fired') = Len(fired) + Len(held[d]) /\ fired' \in Seq(Fired)
  BY <1>1, OutSpec
<1>3. /\ Len(fired) \in Nat /\ Len(held[d]) \in Nat
      /\ DOMAIN fired = 1 .. Len(fired) /\ DOMAIN fired' = 1 .. (Len(fired) + Len(held[d]))
  BY <1>1, <1>2, LenProperties
<1>4. \A i \in 1 .. Len(fired) : fired'[i] = fired[i]
  BY <1>1, OutSpec
<1>5. \A i \in 1 .. Len(held[d]) :
        fired'[Len(fired) + i] = [reminder |-> held[d][i], deadline |-> d, at |-> now]
  BY <1>1, OutSpec
<1>6. ASSUME NEW i \in 1 .. Len(held[d])
      PROVE  /\ fired'[Len(fired) + i].reminder = held[d][i]
             /\ fired'[Len(fired) + i].deadline = d
             /\ fired'[Len(fired) + i].at = now
  <2>1. fired'[Len(fired) + i] = [reminder |-> held[d][i], deadline |-> d, at |-> now]
    BY <1>5
  <2> QED
    BY <2>1
<1> QED
  BY <1>3, <1>4, <1>6

\* A turn of the loop moves one queue from what is held to what was handed
\* back, and nothing is in both.
LEMMA OnceTakeDue ==
  ASSUME Once, NEW d \in Deadlines, TakeDue(d), Armed'
  PROVE  FiresOnce'
<1> DEFINE l == Len(fired)
           k == Len(held[d])
<1>1. /\ held \in Queue /\ held' = [held EXCEPT ![d] = << >>]
      /\ held' \in Queue /\ held'[d] = << >>
      /\ \A e \in Deadlines \ {d} : held'[e] = held[e]
      /\ asked' = asked /\ dropped' = dropped
  BY TakenSpec DEF TakeDue, Once, Armed, TypeOK, Queue
<1>2. /\ fired' = fired \o Out(d)
      /\ TypeOK
  BY DEF TakeDue, Out, Once, Armed
<1>3. /\ l \in Nat /\ k \in Nat
      /\ DOMAIN fired = 1 .. l /\ DOMAIN fired' = 1 .. (l + k)
      /\ \A i \in 1 .. l : fired'[i] = fired[i]
      /\ \A i \in 1 .. k : fired'[l + i].reminder = held[d][i]
  BY <1>2, HandedBack
<1>4. /\ \A e \in Deadlines : DOMAIN held[e] = 1 .. Len(held[e])
      /\ \A e \in Deadlines : DOMAIN held'[e] = 1 .. Len(held'[e])
      /\ 1 .. Len(held'[d]) = {}
  BY <1>1, LenProperties DEF Queue
<1>5. NoneFiredTwice /\ NoneHeldTwice /\ EachSomewhere
  BY DEF Once, FiresOnce
<1>6. /\ \A m : m \in HeldSeqs(held) <=>
            \E e \in Deadlines : \E i \in 1 .. Len(held[e]) : held[e][i] = m
      /\ \A m : m \in HeldSeqs(held') <=>
            \E e \in Deadlines : \E i \in 1 .. Len(held'[e]) : held'[e][i] = m
  BY <1>1, HeldSeqsSpec
<1> DEFINE Taken == {held[d][i] : i \in 1 .. k}
<1>7. HeldSeqs(held') = HeldSeqs(held) \ Taken
  <2>1. ASSUME NEW m \in HeldSeqs(held') PROVE m \in HeldSeqs(held) \ Taken
    <3>1. PICK e \in Deadlines : \E i \in 1 .. Len(held'[e]) : held'[e][i] = m
      BY <1>6
    <3>2. e # d
      BY <1>4, <3>1
    <3>3. \E i \in 1 .. Len(held[e]) : held[e][i] = m
      BY <1>1, <3>1, <3>2
    <3>4. m \notin Taken
      BY <1>4, <1>5, <3>2, <3>3 DEF NoneHeldTwice
    <3> QED
      BY <1>6, <3>3, <3>4
  <2>2. ASSUME NEW m \in HeldSeqs(held) \ Taken PROVE m \in HeldSeqs(held')
    BY <1>1, <1>6
  <2> QED
    BY <2>1, <2>2
<1>8. FiredSeqs' = FiredSeqs \cup Taken
  <2>1. ASSUME NEW i \in 1 .. (l + k) PROVE fired'[i].reminder \in FiredSeqs \cup Taken
    <3>1. CASE i <= l
      BY <1>3, <3>1 DEF FiredSeqs
    <3>2. CASE ~(i <= l)
      <4>1. i - l \in 1 .. k /\ i = l + (i - l)
        BY <1>3, <3>2
      <4> QED
        BY <1>3, <4>1
    <3> QED
      BY <3>1, <3>2
  <2>2. \A i \in 1 .. l : i \in 1 .. (l + k)
    BY <1>3
  <2>3. \A i \in 1 .. k : l + i \in 1 .. (l + k)
    BY <1>3
  <2>4. FiredSeqs' \subseteq FiredSeqs \cup Taken
    BY <1>3, <2>1 DEF FiredSeqs
  <2>5. FiredSeqs \subseteq FiredSeqs'
    BY <1>3, <2>2 DEF FiredSeqs
  <2>6. ASSUME NEW i \in 1 .. k PROVE held[d][i] \in FiredSeqs'
    <3>1. l + i \in DOMAIN fired' /\ fired'[l + i].reminder = held[d][i]
      BY <1>3, <2>3
    <3> QED
      BY <3>1 DEF FiredSeqs
  <2> QED
    BY <2>4, <2>5, <2>6
<1>9. Taken \subseteq HeldSeqs(held)
  BY <1>6
<1>10. NoneFiredTwice'
  <2> SUFFICES ASSUME NEW i \in 1 .. (l + k), NEW j \in 1 .. (l + k),
                      fired'[i].reminder = fired'[j].reminder
               PROVE  i = j
    BY <1>3 DEF NoneFiredTwice
  <2>1. \A x \in 1 .. l : fired'[x].reminder \in FiredSeqs /\ fired'[x].reminder \notin Taken
    BY <1>3, <1>5, <1>9 DEF FiredSeqs, EachSomewhere
  <2>2. \A x \in 1 .. (l + k) : ~(x <= l) =>
          x - l \in 1 .. k /\ fired'[x].reminder = held[d][x - l] /\ fired'[x].reminder \in Taken
    <3> SUFFICES ASSUME NEW x \in 1 .. (l + k), ~(x <= l)
                 PROVE  x - l \in 1 .. k /\ fired'[x].reminder = held[d][x - l]
      OBVIOUS
    <3>1. x - l \in 1 .. k /\ x = l + (x - l)
      BY <1>3
    <3> QED
      BY <1>3, <3>1
  <2>3. CASE i <= l /\ j <= l
    BY <1>3, <1>5, <2>3 DEF NoneFiredTwice
  <2>4. CASE ~(i <= l) /\ ~(j <= l)
    <3>1. i - l = j - l
      BY <1>4, <1>5, <2>2, <2>4 DEF NoneHeldTwice
    <3> QED
      BY <1>3, <3>1
  <2>5. CASE (i <= l) # (j <= l)
    BY <1>3, <2>1, <2>2, <2>5
  <2> QED
    BY <2>3, <2>4, <2>5
<1>11. NoneHeldTwice'
  BY <1>1, <1>4, <1>5 DEF NoneHeldTwice
<1>12. EachSomewhere'
  <2> HIDE DEF Taken
  <2> QED
    BY <1>1, <1>5, <1>7, <1>8, <1>9 DEF EachSomewhere
<1> QED
  BY <1>10, <1>11, <1>12 DEF FiresOnce

\* Giving up moves everything held to what was dropped.
LEMMA OnceDrain ==
  ASSUME Once, Drain
  PROVE  FiresOnce'
<1>1. /\ dropped = {} /\ dropped' = HeldSeqs(held) /\ fired' = fired /\ asked' = asked
      /\ DOMAIN held' = Deadlines /\ \A d \in Deadlines : held'[d] = << >>
  BY DEF Once, Drain, Nothing
<1>2. \A d \in Deadlines : DOMAIN held'[d] = {}
  BY <1>1
<1>3. HeldSeqs(held') = {}
  BY <1>1, <1>2 DEF HeldSeqs, Elements
<1> QED
  BY <1>1, <1>2, <1>3 DEF FiresOnce, NoneFiredTwice, NoneHeldTwice, EachSomewhere, FiredSeqs, Once

LEMMA OnceStep == Once /\ [Next]_vars => Once'
<1> SUFFICES ASSUME Once, [Next]_vars PROVE Once'
  OBVIOUS
<1>0. Armed'
  BY ArmedStep DEF Once
<1>1. ASSUME NEW d \in Deadlines, Hold(d) PROVE Once'
  BY <1>0, <1>1, OnceHold DEF Hold, Once
<1>2. ASSUME NEW d \in Deadlines, TakeDue(d) PROVE Once'
  BY <1>0, <1>2, OnceTakeDue DEF TakeDue, Once
<1>3. CASE Drain
  BY <1>0, <1>3, OnceDrain DEF Drain, Once
<1>4. CASE Tick \/ Wake \/ Rearm \/ UNCHANGED vars
  <2>1. /\ asked' = asked /\ held' = held /\ fired' = fired /\ dropped' = dropped
        /\ step' # "drained" => step # "drained"
    BY <1>4 DEF Tick, Wake, Rearm, vars
  <2>2. FiresOnce'
    BY <2>1 DEF Once, FiresOnce, NoneFiredTwice, NoneHeldTwice, EachSomewhere, FiredSeqs
  <2> QED
    BY <1>0, <2>1, <2>2 DEF Once
<1> QED
  BY <1>1, <1>2, <1>3, <1>4 DEF Next, Finished

\* Each reminder set is handed back once, by `due` or by `drain`, or is held
\* (timer.rs, "each fires once; nothing is cancelled").
THEOREM EachFiresOnce == Spec => []FiresOnce
<1>1. Init => Once
  BY OnceInit
<1>2. Once /\ [Next]_vars => Once'
  BY OnceStep
<1>3. Once => FiresOnce
  BY DEF Once
<1> QED
  BY <1>1, <1>2, <1>3, PTL DEF Spec

(***************************************************************************)
(* In time, and in order.                                                  *)
(***************************************************************************)

\* Nothing held under d can still overtake what has been handed back, unless
\* it is for a later instant than that was: this is what makes the order of
\* `due` an order over all its calls, and it holds because a queue leaves
\* whole, with every earlier one gone before it.
QueuesInOrder ==
  \A d \in Deadlines : \A i, j \in DOMAIN held[d] : i < j => held[d][i] < held[d][j]
HeldCannotOvertake ==
  \A i \in DOMAIN fired : \A d \in Deadlines : \A j \in DOMAIN held[d] :
    held[d][j] < fired[i].reminder => fired[i].deadline < d
InOrder ==
  Once /\ NeverEarly /\ OvertakenOnlyByNearer /\ QueuesInOrder /\ HeldCannotOvertake

LEMMA InOrderInit == Init => InOrder
<1> SUFFICES ASSUME Init PROVE InOrder
  OBVIOUS
<1>1. Once
  BY OnceInit
<1>2. /\ DOMAIN fired = {} /\ \A d \in Deadlines : DOMAIN held[d] = {}
  BY DEF Init, Nothing
<1> QED
  BY <1>1, <1>2 DEF InOrder, NeverEarly, OvertakenOnlyByNearer, QueuesInOrder, HeldCannotOvertake

\* A new reminder has the greatest number there is: it goes behind the others
\* of its queue, and is less than nothing that was handed back.
LEMMA InOrderHold ==
  ASSUME InOrder, NEW d \in Deadlines, Hold(d)
  PROVE  QueuesInOrder' /\ HeldCannotOvertake'
<1> DEFINE n == Len(asked) + 1
<1>0. TypeOK
  BY DEF InOrder, Once, Armed
<1>1. /\ held \in Queue /\ n \in Ids /\ Len(asked) \in Nat
      /\ held' = Pushed(held, d, n) /\ fired' = fired
  BY <1>0, BoundsAssumption, LenProperties DEF TypeOK, Hold, Queue, Ids
<1>2. /\ held' \in Queue
      /\ Len(held'[d]) = Len(held[d]) + 1
      /\ held'[d][Len(held[d]) + 1] = n
      /\ \A i \in 1 .. Len(held[d]) : held'[d][i] = held[d][i]
      /\ \A e \in Deadlines \ {d} : held'[e] = held[e]
  BY <1>1, PushedSpec
<1>3. /\ \A e \in Deadlines : /\ Len(held[e]) \in Nat
                              /\ DOMAIN held[e] = 1 .. Len(held[e])
                              /\ DOMAIN held'[e] = 1 .. Len(held'[e])
  BY <1>1, <1>2, LenProperties DEF Queue
<1>4. EachSomewhere /\ QueuesInOrder /\ HeldCannotOvertake
  BY DEF InOrder, Once, FiresOnce
<1>5. \A e \in Deadlines : \A i \in 1 .. Len(held[e]) : held[e][i] \in 1 .. Len(asked)
  BY <1>1, <1>4, HeldSeqsSpec DEF EachSomewhere
<1>6. \A i \in DOMAIN fired : fired[i].reminder \in 1 .. Len(asked)
  BY <1>4 DEF EachSomewhere, FiredSeqs
<1>7. QueuesInOrder'
  <2> SUFFICES ASSUME NEW i \in 1 .. Len(held'[d]), NEW j \in 1 .. Len(held'[d]), i < j
               PROVE  held'[d][i] < held'[d][j]
    BY <1>2, <1>3, <1>4 DEF QueuesInOrder
  <2>1. i \in 1 .. Len(held[d])
    BY <1>2, <1>3
  <2>2. CASE j \in 1 .. Len(held[d])
    BY <1>2, <1>3, <1>4, <2>1, <2>2 DEF QueuesInOrder
  <2>3. CASE j = Len(held[d]) + 1
    BY <1>1, <1>2, <1>5, <2>1, <2>3
  <2> QED
    BY <1>2, <1>3, <2>2, <2>3
<1>8. HeldCannotOvertake'
  <2> SUFFICES ASSUME NEW i \in DOMAIN fired, NEW e \in Deadlines, NEW j \in 1 .. Len(held'[e]),
                      held'[e][j] < fired[i].reminder
               PROVE  fired[i].deadline < e
    BY <1>1, <1>3 DEF HeldCannotOvertake
  <2>1. CASE j \in 1 .. Len(held[e])
    BY <1>2, <1>3, <1>4, <2>1 DEF HeldCannotOvertake
  <2>2. CASE ~(j \in 1 .. Len(held[e]))
    <3>1. held'[e][j] = n
      BY <1>2, <1>3, <2>2
    <3> QED
      BY <1>1, <1>6, <3>1
  <2> QED
    BY <2>1, <2>2
<1> QED
  BY <1>7, <1>8

\* What comes out is for the earliest instant held, and in order.
LEMMA InOrderTakeDue ==
  ASSUME InOrder, NEW d \in Deadlines, TakeDue(d)
  PROVE  NeverEarly' /\ OvertakenOnlyByNearer' /\ QueuesInOrder' /\ HeldCannotOvertake'
<1> DEFINE l == Len(fired)
           k == Len(held[d])
<1>0. TypeOK /\ Once
  BY DEF InOrder, Once, Armed
<1>1. /\ held \in Queue /\ held'[d] = << >>
      /\ \A e \in Deadlines \ {d} : held'[e] = held[e]
      /\ held' \in Queue
  BY <1>0, TakenSpec DEF TakeDue, TypeOK, Queue
<1>2. /\ l \in Nat /\ k \in Nat
      /\ DOMAIN fired = 1 .. l /\ DOMAIN fired' = 1 .. (l + k)
      /\ \A i \in 1 .. l : fired'[i] = fired[i]
      /\ \A i \in 1 .. k : /\ fired'[l + i].reminder = held[d][i]
                          /\ fired'[l + i].deadline = d
                          /\ fired'[l + i].at = now
  BY <1>0, HandedBack
<1>3. /\ \A e \in Deadlines : DOMAIN held[e] = 1 .. Len(held[e])
      /\ \A e \in Deadlines : DOMAIN held'[e] = 1 .. Len(held'[e])
      /\ 1 .. Len(held'[d]) = {}
  BY <1>1, LenProperties DEF Queue
<1> HIDE DEF l, k
<1>4. \A x \in 1 .. (l + k) : x \in 1 .. l \/ (x - l \in 1 .. k /\ x = l + (x - l))
  BY <1>2
<1>5. /\ d \in Nat /\ Waiting(held) \subseteq Nat
      /\ \A e \in Waiting(held) : d <= e
      /\ IsHeld \/ d <= now
  BY <1>1, DeadlinesAssumption DEF TakeDue, Due, IsEarliest, Waiting, Queue
<1>6. NeverEarly'
  <2> SUFFICES ASSUME ~IsHeld, NEW x \in 1 .. (l + k) PROVE fired'[x].deadline <= fired'[x].at
    BY <1>2 DEF NeverEarly
  <2>1. CASE x \in 1 .. l
    BY <1>2, <2>1 DEF InOrder, NeverEarly
  <2>2. CASE x - l \in 1 .. k /\ x = l + (x - l)
    BY <1>2, <1>5, <2>2
  <2> QED
    BY <1>4, <2>1, <2>2
<1>7. OvertakenOnlyByNearer'
  <2> SUFFICES ASSUME NEW x \in 1 .. (l + k), NEW y \in 1 .. (l + k),
                      x < y, fired'[y].reminder < fired'[x].reminder
               PROVE  fired'[x].deadline < fired'[y].deadline
    BY <1>2 DEF OvertakenOnlyByNearer
  <2>1. CASE x \in 1 .. l /\ y \in 1 .. l
    BY <1>2, <2>1 DEF InOrder, OvertakenOnlyByNearer
  <2>2. CASE x \in 1 .. l /\ y - l \in 1 .. k /\ y = l + (y - l)
    <3>1. fired'[y].reminder = held[d][y - l] /\ fired'[y].deadline = d /\ fired'[x] = fired[x]
      BY <1>2, <2>2
    <3> QED
      BY <1>2, <1>3, <2>2, <3>1 DEF InOrder, HeldCannotOvertake, k
  <2>3. CASE /\ x - l \in 1 .. k /\ x = l + (x - l)
             /\ y - l \in 1 .. k /\ y = l + (y - l)
    <3>1. x - l < y - l /\ fired'[x].reminder = held[d][x - l] /\ fired'[y].reminder = held[d][y - l]
      BY <1>2, <2>3
    <3>2. held[d][x - l] < held[d][y - l]
      BY <1>3, <2>3, <3>1 DEF InOrder, QueuesInOrder, k
    <3>3. held[d][x - l] \in Int /\ held[d][y - l] \in Int
      BY <1>1, <2>3, LenProperties, BoundsAssumption DEF Queue, Ids, k
    <3> QED
      BY <3>1, <3>2, <3>3
  <2>4. x \notin 1 .. l => y \notin 1 .. l
    BY <1>2
  <2> QED
    BY <1>4, <2>1, <2>2, <2>3, <2>4
<1>8. QueuesInOrder'
  BY <1>1, <1>3 DEF InOrder, QueuesInOrder
<1>9. HeldCannotOvertake'
  <2> SUFFICES ASSUME NEW x \in 1 .. (l + k), NEW e \in Deadlines, NEW j \in 1 .. Len(held'[e]),
                      held'[e][j] < fired'[x].reminder
               PROVE  fired'[x].deadline < e
    BY <1>2, <1>3 DEF HeldCannotOvertake
  <2>1. e # d /\ held'[e] = held[e] /\ j \in 1 .. Len(held[e])
    BY <1>1, <1>3
  <2>2. CASE x \in 1 .. l
    BY <1>2, <1>3, <2>1, <2>2 DEF InOrder, HeldCannotOvertake
  <2>3. CASE x - l \in 1 .. k /\ x = l + (x - l)
    <3>1. e \in Waiting(held)
      BY <1>1, <1>3, <2>1 DEF Waiting, Queue
    <3>2. fired'[x].deadline = d
      BY <1>2, <2>3
    <3> QED
      BY <1>5, <2>1, <3>1, <3>2
  <2> QED
    BY <1>4, <2>2, <2>3
<1> QED
  BY <1>6, <1>7, <1>8, <1>9

LEMMA InOrderStep == InOrder /\ [Next]_vars => InOrder'
<1> SUFFICES ASSUME InOrder, [Next]_vars PROVE InOrder'
  OBVIOUS
<1>0. Once'
  BY OnceStep DEF InOrder
<1>1. ASSUME NEW d \in Deadlines, Hold(d) PROVE InOrder'
  <2>1. fired' = fired
    BY <1>1 DEF Hold
  <2> QED
    BY <1>0, <1>1, <2>1, InOrderHold DEF InOrder, NeverEarly, OvertakenOnlyByNearer
<1>2. ASSUME NEW d \in Deadlines, TakeDue(d) PROVE InOrder'
  BY <1>0, <1>2, InOrderTakeDue DEF InOrder
<1>3. CASE Drain
  <2>1. fired' = fired /\ \A d \in Deadlines : DOMAIN held'[d] = {}
    BY <1>3 DEF Drain, Nothing
  <2> QED
    BY <1>0, <2>1 DEF InOrder, NeverEarly, OvertakenOnlyByNearer, QueuesInOrder, HeldCannotOvertake
<1>4. CASE Tick \/ Wake \/ Rearm \/ UNCHANGED vars
  <2>1. fired' = fired /\ held' = held
    BY <1>4 DEF Tick, Wake, Rearm, vars
  <2> QED
    BY <1>0, <2>1 DEF InOrder, NeverEarly, OvertakenOnlyByNearer, QueuesInOrder, HeldCannotOvertake
<1> QED
  BY <1>1, <1>2, <1>3, <1>4 DEF Next, Finished

\* Under the real timer nothing is handed back before its instant, and reminders
\* come back earliest first, and within an instant in the order they were set,
\* over all the calls of `due` and whichever timer calls it: one set later
\* overtakes only if it was set for an earlier instant.
THEOREM RemindersComeInTurn == Spec => []ComesInItsTurn
<1>1. Init => InOrder
  BY InOrderInit
<1>2. InOrder /\ [Next]_vars => InOrder'
  BY InOrderStep
<1>3. InOrder => ComesInItsTurn
  BY DEF InOrder, ComesInItsTurn
<1> QED
  BY <1>1, <1>2, <1>3, PTL DEF Spec
=============================================================================
