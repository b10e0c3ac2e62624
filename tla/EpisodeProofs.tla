--------------------------- MODULE EpisodeProofs ---------------------------
(***************************************************************************)
(* What an episode promises, for any roster, any scripts and any           *)
(* deadlines, whether or not the limit may pass and the log writer may be  *)
(* lost.                                                                   *)
(*                                                                         *)
(* First types and what becomes of the actors.  A step is a perception     *)
(* thread's, a handler thread's, the episode's own, the limit's or the     *)
(* writer's; each invariant has a lemma for the first two and one for its  *)
(* step as a whole.                                                        *)
(*                                                                         *)
(* Then what becomes of the messages, in three invariants, each resting on *)
(* those before it: Numbered, for the sending side; Placed, for where a    *)
(* message is; Ordered, for the queues between a sender and a recipient.   *)
(* And so the threads keep the contract of an episode.                     *)
(***************************************************************************)
EXTENDS EpisodeProperties, SequenceTheorems, TLAPS

USE DEF channels, perVars, hanVars, flags, log, epVars, history

(***************************************************************************)
(* Types.                                                                  *)
(***************************************************************************)

\* A sequence that is not empty has a head and a tail.
LEMMA HeadTail ==
  ASSUME NEW S, NEW q \in Seq(S), q # << >>
  PROVE  Head(q) \in S /\ Tail(q) \in Seq(S)
  OBVIOUS

\* What the item in hand is, while the handler thread is in the middle of it:
\* a message or a reminder has been numbered.
Carrying ==
  \A a \in Actors :
    /\ handler[a] = "routing" =>
         items[a] # << >> /\ Head(items[a]).kind = "send" /\ nextSeq[a] > 0
    /\ handler[a] = "reminding" =>
         items[a] # << >> /\ Head(items[a]).kind = "remind" /\ nextSeq[a] > 0
    /\ handler[a] = "commanding" =>
         items[a] # << >> /\ Head(items[a]).kind = "command"

\* A message handed over is in hand until it is recorded.
HandingOver == \A a \in Actors : perception[a] = "recording" => pending[a] # NoKey

Typed == TypeOK /\ Carrying /\ HandingOver

\* The handler thread ends in an error or in a panic.
Breaks(a) == \E how \in {"ended", "panicked"} : Break(a, how)

\* What each kind of item has.
LEMMA ItemKinds ==
  ASSUME NEW i \in Item
  PROVE  /\ i.kind = "send" => i.to \in Recipients /\ i.to \in Seq(Ids)
         /\ i.kind = "remind" => i.at \in Deadlines
         /\ i.kind = "command" => i.to \in Seq(Ids) /\ i.control \in Control
         /\ i.kind = "reward" => i.who \in Ids
  BY DEF Item, Recipients

\* The numbers held are numbers.
LEMMA HeldType ==
  ASSUME TypeOK, NEW a \in Actors
  PROVE  HeldSeqs(held[a]) \subseteq Nat
<1> SUFFICES ASSUME NEW d \in Deadlines PROVE Elements(held[a][d]) \subseteq Nat
  BY DEF HeldSeqs, TypeOK
<1>1. held[a][d] \in Seq(Nat)
  BY DEF TypeOK
<1> QED
  BY <1>1 DEF Elements

\* Everything an actor gives up is a message.
LEMMA LeftoverType ==
  ASSUME TypeOK, NEW a \in Actors
  PROVE  Leftover(a) \subseteq Key
<1>1. {pending[a]} \ {NoKey} \subseteq Key
  BY DEF TypeOK
<1>2. Elements(inbox[a]) \subseteq Key
  <2>1. inbox[a] \in Seq(Key)
    BY DEF TypeOK
  <2> QED
    BY <2>1 DEF Elements
<1>3. Reminders(a) \subseteq Nat
  <2>1. requests[a] \in Seq(Request)
    BY DEF TypeOK
  <2>2. \A i \in DOMAIN requests[a] : requests[a][i] \in Request
    BY <2>1
  <2>3. \A i \in DOMAIN requests[a] : requests[a][i].seq \in Nat
    BY <2>2 DEF Request
  <2> QED
    BY <2>3, HeldType DEF Reminders
<1>4. Own(a, Reminders(a)) \subseteq Key
  BY <1>3 DEF Own, Key
<1> QED
  BY <1>1, <1>2, <1>4 DEF Leftover

\* `abandon` either logs what is left, or leaves it all where it is and fails.
LogsLeftover(a) ==
  /\ undelivered' = [undelivered EXCEPT ![a] = @ \cup Leftover(a)]
  /\ pending' = [pending EXCEPT ![a] = NoKey]
  /\ inbox' = [inbox EXCEPT ![a] = << >>]
  /\ requests' = [requests EXCEPT ![a] = << >>]
  /\ held' = [held EXCEPT ![a] = Nothing(Deadlines)]
  /\ UNCHANGED failed
LosesLeftover(a) ==
  /\ failed' = failed \cup {a}
  /\ UNCHANGED <<undelivered, pending, inbox, requests, held>>

\* These are all an abandonment can do.
LEMMA AbandonCases ==
  ASSUME NEW a \in Actors, Abandon(a)
  PROVE  LogsLeftover(a) \/ LosesLeftover(a)
  BY DEF Abandon, LogsLeftover, LosesLeftover

\* Either way, what an abandonment writes is of its type.
LEMMA AbandonTypes ==
  ASSUME TypeOK, NEW a \in Actors, Abandon(a)
  PROVE  /\ undelivered' \in [Actors -> SUBSET Key] /\ failed' \subseteq Actors
         /\ inbox' \in [Actors -> Seq(Key)] /\ requests' \in [Actors -> Seq(Request)]
         /\ held' \in [Actors -> [Deadlines -> Seq(Nat)]]
         /\ pending' \in [Actors -> Key \cup {NoKey}]
<1>1. CASE LosesLeftover(a)
  BY <1>1 DEF TypeOK, LosesLeftover
<1>2. CASE LogsLeftover(a)
  <2>1. undelivered[a] \cup Leftover(a) \in SUBSET Key
    BY LeftoverType DEF TypeOK
  <2>2. undelivered' \in [Actors -> SUBSET Key] /\ failed' \subseteq Actors
    BY <1>2, <2>1 DEF TypeOK, LogsLeftover
  <2>3. inbox' \in [Actors -> Seq(Key)] /\ requests' \in [Actors -> Seq(Request)]
    BY <1>2 DEF TypeOK, LogsLeftover
  <2>4. held' \in [Actors -> [Deadlines -> Seq(Nat)]]
    BY <1>2 DEF TypeOK, LogsLeftover, Nothing
  <2>5. pending' \in [Actors -> Key \cup {NoKey}]
    BY <1>2 DEF TypeOK, LogsLeftover
  <2> QED
    BY <2>2, <2>3, <2>4, <2>5
<1> QED
  BY <1>1, <1>2, AbandonCases

\* Nobody has anything in hand to begin with.
LEMMA TypedInit == Init => Typed
<1> SUFFICES ASSUME Init PROVE Typed
  OBVIOUS
<1>1. script \in [Actors -> Seq(Seq(Item))]
  BY ScriptsAssumption DEF Init
<1>2. held \in [Actors -> [Deadlines -> Seq(Nat)]]
  BY DEF Init, Nothing
<1>3. TypeOK
  BY <1>1, <1>2 DEF Init, TypeOK, Place, HandlerPlace, Answer
<1> QED
  BY <1>3 DEF Init, Typed, Carrying, HandingOver

\* The shapes of the variables the steps below are about, out of TypeOK.
LEMMA Shapes ==
  ASSUME TypeOK
  PROVE  /\ perception \in [Actors -> Place] /\ handler \in [Actors -> HandlerPlace]
         /\ firing \in [Actors -> Deadlines \cup {0}] /\ late \in [Actors -> Nat]
         /\ controls \in [Actors -> Seq(Control)] /\ logged \in [Actors -> Seq(Control)]
         /\ stopped \in [Actors -> BOOLEAN] /\ failed \subseteq Actors /\ rewarded \subseteq Actors
         /\ unsent \in [Actors -> SUBSET Key] /\ acted \in [Actors -> SUBSET Key]
         /\ nextSeq \in [Actors -> Nat] /\ call \in [Actors -> Key \cup {NoKey}]
         /\ cycles \in [Actors -> SUBSET (Key \cup {NoKey})] /\ todo \in Seq(Actors)
  BY DEF TypeOK

\* A step that leaves the handler alone, and hands nothing over, leaves what is
\* in hand alone.
LEMMA StillInHand ==
  ASSUME TypeOK, Carrying, HandingOver, NEW a \in Actors,
         UNCHANGED <<handler, items, nextSeq, pending>>,
         \E place : place # "recording" /\ perception' = [perception EXCEPT ![a] = place]
  PROVE  Carrying' /\ HandingOver'
<1>1. Carrying'
  BY DEF Carrying
<1>2. HandingOver'
  BY Shapes DEF HandingOver
<1> QED
  BY <1>1, <1>2

\* A perception thread keeps the types.
LEMMA PerceiveTyped ==
  ASSUME Typed, NEW a \in Actors, Perceive(a)
  PROVE  Typed'
<1> USE DEF Typed, Goto, Place
<1>1. CASE Poll(a) \/ Fired(a)
  <2>1. /\ perception' \in [Actors -> Place]
        /\ firing' \in [Actors -> Deadlines \cup {0}]
    BY <1>1 DEF TypeOK, Poll, Fired
  <2>2. TypeOK'
    BY <1>1, <2>1 DEF TypeOK, Poll, Fired
  <2> QED
    BY <1>1, <2>2, StillInHand DEF Poll, Fired
<1>2. CASE TakeControl(a)
  <2>1. controls[a] \in Seq(Control) /\ logged[a] \in Seq(Control) /\ controls[a] # << >>
    BY <1>2 DEF TypeOK, TakeControl
  <2>2. Head(controls[a]) \in Control /\ Tail(controls[a]) \in Seq(Control)
    BY <2>1, HeadTail
  <2>3. Append(logged[a], Head(controls[a])) \in Seq(Control)
    BY <2>1, <2>2
  <2>4. /\ controls' \in [Actors -> Seq(Control)]
        /\ logged' \in [Actors -> Seq(Control)]
        /\ perception' \in [Actors -> Place]
    BY <1>2, <2>2, <2>3 DEF TypeOK, TakeControl
  <2>5. TypeOK'
    BY <1>2, <2>4 DEF TypeOK, TakeControl
  <2> QED
    BY <1>2, <2>5 DEF TypeOK, TakeControl, Carrying, HandingOver
<1>3. CASE HandStart(a) \/ Hand(a)
  <2>1. PICK key \in Key \cup {NoKey} : Meet(a, key)
    BY <1>3 DEF TypeOK, HandStart, Hand
  <2>2. /\ script[a] \in Seq(Seq(Item))
        /\ script[a] # << >> => Head(script[a]) \in Seq(Item) /\ Tail(script[a]) \in Seq(Seq(Item))
    BY HeadTail DEF TypeOK
  <2>3. script' \in [Actors -> Seq(Seq(Item))]
    BY <2>1, <2>2 DEF TypeOK, Meet, Called
  <2>4. items' \in [Actors -> Seq(Item)]
    BY <2>1, <2>2 DEF TypeOK, Meet, Called
  <2>5. call' \in [Actors -> Key \cup {NoKey}] /\ handler' \in [Actors -> HandlerPlace]
    BY <2>1 DEF TypeOK, Meet, Called, HandlerPlace
  <2>6. perception' \in [Actors -> Place] /\ UNCHANGED pending
    BY <1>3 DEF TypeOK, HandStart, Hand
  <2>7. late' \in [Actors -> Nat]
    <3>1. late \in [Actors -> Nat]
      BY DEF TypeOK
    <3>2. late' = late \/ late' = [late EXCEPT ![a] = @ + 1]
      BY <1>3 DEF HandStart, Hand
    <3> QED
      BY <3>1, <3>2
  <2>8. TypeOK'
    BY <1>3, <2>1, <2>3, <2>4, <2>5, <2>6, <2>7 DEF TypeOK, HandStart, Hand, Meet
  <2>9. Carrying'
    BY <2>1 DEF TypeOK, Meet, Called, Carrying
  <2>10. HandingOver'
    BY <1>3 DEF TypeOK, HandStart, Hand, HandingOver
  <2> QED
    BY <2>8, <2>9, <2>10
<1>4. CASE Hear(a)
  <2>1. inbox[a] \in Seq(Key) /\ inbox[a] # << >>
    BY <1>4 DEF TypeOK, Hear
  <2>2. Head(inbox[a]) \in Key /\ Tail(inbox[a]) \in Seq(Key)
    BY <2>1, HeadTail
  <2>3. /\ inbox' \in [Actors -> Seq(Key)]
        /\ pending' \in [Actors -> Key \cup {NoKey}]
        /\ perception' \in [Actors -> Place]
    BY <1>4, <2>2 DEF TypeOK, Hear
  <2>4. TypeOK'
    BY <1>4, <2>3 DEF TypeOK, Hear
  <2> QED
    BY <1>4, <2>4 DEF TypeOK, Hear, Carrying, HandingOver
<1>5. CASE RecordObservation(a)
  <2>1. pending[a] \in Key /\ observed[a] \in Seq(Key)
    BY <1>5 DEF TypeOK, HandingOver, RecordObservation
  <2>2. Append(observed[a], pending[a]) \in Seq(Key)
    BY <2>1
  <2>3. /\ observed' \in [Actors -> Seq(Key)]
        /\ pending' \in [Actors -> Key \cup {NoKey}]
        /\ perception' \in [Actors -> Place]
    BY <1>5, <2>2 DEF TypeOK, RecordObservation
  <2>4. TypeOK'
    BY <1>5, <2>3 DEF TypeOK, RecordObservation
  <2> QED
    BY <1>5, <2>4 DEF TypeOK, RecordObservation, Carrying, HandingOver
<1>6. CASE Set(a)
  <2>1. requests[a] \in Seq(Request) /\ requests[a] # << >>
    BY <1>6 DEF TypeOK, Set
  <2>2. Head(requests[a]) \in Request /\ Tail(requests[a]) \in Seq(Request)
    BY <2>1, HeadTail
  <2>3. Pushed(held[a], Head(requests[a]).at, Head(requests[a]).seq) \in [Deadlines -> Seq(Nat)]
    BY <2>2 DEF TypeOK, Pushed, Request
  <2>4. /\ requests' \in [Actors -> Seq(Request)]
        /\ held' \in [Actors -> [Deadlines -> Seq(Nat)]]
        /\ perception' \in [Actors -> Place]
    BY <1>6, <2>2, <2>3 DEF TypeOK, Set
  <2>5. TypeOK'
    BY <1>6, <2>4 DEF TypeOK, Set
  <2> QED
    BY <1>6, <2>5 DEF TypeOK, Set, Carrying, HandingOver
<1>7. CASE Fire(a)
  <2>1. firing' \in [Actors -> Deadlines \cup {0}] /\ perception' \in [Actors -> Place]
    BY <1>7, Shapes DEF Fire
  <2>2. TypeOK'
    BY <1>7, <2>1 DEF TypeOK, Fire
  <2> QED
    BY <1>7, <2>2 DEF TypeOK, Fire, Carrying, HandingOver
<1>8. CASE Deliver(a)
  <2>1. PICK d \in Deadlines :
          /\ Due(a, d, firing[a])
          /\ inbox' = [inbox EXCEPT ![a] = Append(@, <<a, Head(held[a][d])>>)]
          /\ held' = [held EXCEPT ![a][d] = Tail(@)]
    BY <1>8 DEF Deliver
  <2>2. held[a][d] \in Seq(Nat) /\ held[a][d] # << >> /\ inbox[a] \in Seq(Key)
    BY <2>1 DEF TypeOK, Due, IsEarliest, Waiting
  <2>3. Head(held[a][d]) \in Nat /\ Tail(held[a][d]) \in Seq(Nat)
    BY <2>2, HeadTail
  <2>4. Append(inbox[a], <<a, Head(held[a][d])>>) \in Seq(Key)
    BY <2>2, <2>3 DEF Key
  <2>5. inbox' \in [Actors -> Seq(Key)] /\ held' \in [Actors -> [Deadlines -> Seq(Nat)]]
    BY <2>1, <2>3, <2>4 DEF TypeOK
  <2>6. TypeOK'
    BY <1>8, <2>5 DEF TypeOK, Deliver
  <2> QED
    BY <1>8, <2>6 DEF TypeOK, Deliver, Carrying, HandingOver
<1>9. CASE Stop(a) \/ Deafen(a)
  <2>1. Abandon(a)
    BY <1>9 DEF Stop, Deafen
  <2>2. perception' \in [Actors -> Place] /\ stopped' \in [Actors -> BOOLEAN]
    BY <1>9, <2>1 DEF TypeOK, Abandon, Stop, Deafen
  <2>3. TypeOK'
    BY <2>1, <2>2, AbandonTypes DEF TypeOK, Abandon
  <2>4. Carrying'
    BY <2>1 DEF Abandon, Carrying
  <2>5. HandingOver'
    BY <2>1, AbandonCases DEF TypeOK, Abandon, HandingOver, LogsLeftover, LosesLeftover
  <2> QED
    BY <2>3, <2>4, <2>5
<1>10. CASE RecordRefused(a) \/ Close(a)
  <2>1. done' \subseteq Reports
    BY <1>10 DEF TypeOK, RecordRefused, Close, Report, Reports
  <2>2. perception' \in [Actors -> Place] /\ failed' \subseteq Actors
    BY <1>10 DEF TypeOK, RecordRefused, Close
  <2>3. TypeOK'
    BY <1>10, <2>1, <2>2 DEF TypeOK, RecordRefused, Close
  <2> QED
    BY <1>10, <2>3, StillInHand DEF RecordRefused, Close
<1> QED
  BY <1>1, <1>2, <1>3, <1>4, <1>5, <1>6, <1>7, <1>8, <1>9, <1>10 DEF Perceive

\* The item in hand, and what is left when it is done with.
LEMMA CurrentItem ==
  ASSUME TypeOK, NEW a \in Actors, items[a] # << >>
  PROVE  Current(a) \in Item /\ Tail(items[a]) \in Seq(Item)
<1>1. items[a] \in Seq(Item)
  BY DEF TypeOK
<1> QED
  BY <1>1, HeadTail DEF Current

\* The number of the message in hand is a number.
LEMMA InHandType ==
  ASSUME Typed, NEW a \in Actors, handler[a] \in {"routing", "reminding"}
  PROVE  InHand(a) \in Key /\ nextSeq[a] - 1 \in Nat
  BY DEF Typed, TypeOK, Carrying, InHand, Key

\* Whom the environment tells, and what.
LEMMA ToldWhom ==
  ASSUME Typed, NEW a \in Actors, Tell(a)
  PROVE  Head(route[a]) \in Actors /\ Tail(route[a]) \in Seq(Ids) /\ Current(a).control \in Control
<1>1. route[a] \in Seq(Ids) /\ route[a] # << >>
  BY DEF Typed, TypeOK, Tell
<1>2. Head(route[a]) \in Ids /\ Tail(route[a]) \in Seq(Ids) /\ 1 \in DOMAIN route[a] /\ Head(route[a]) = route[a][1]
  BY <1>1, HeadTail
<1>3. Head(route[a]) \in Actors
  BY <1>2 DEF Tell, Unknown, Ids
<1>4. Current(a).control \in Control
  BY CurrentItem, ItemKinds DEF Typed, Carrying, Tell, At, Current
<1> QED
  BY <1>2, <1>3, <1>4

\* Who gets a copy of a message.
LEMMA RoutedWhom ==
  ASSUME Typed, NEW a \in Actors, Route(a)
  PROVE  Head(route[a]) \in Actors \ {a} /\ Tail(route[a]) \in Seq(Ids)
<1>1. route[a] \in Seq(Ids) /\ route[a] # << >>
  BY DEF Typed, TypeOK, Route
<1>2. Head(route[a]) \in Ids /\ Tail(route[a]) \in Seq(Ids) /\ 1 \in DOMAIN route[a] /\ Head(route[a]) = route[a][1]
  BY <1>1, HeadTail
<1> QED
  BY <1>2 DEF Route, Misaddressed, Ids

\* A handler thread keeps the types.
LEMMA HandleTyped ==
  ASSUME Typed, NEW a \in Actors, Handle(a)
  PROVE  Typed'
<1> USE DEF Typed, Goes, At
<1>1. ASSUME Breaks(a) PROVE Typed'
  <2>1. /\ handler' \in [Actors -> HandlerPlace]
        /\ done' \subseteq Reports /\ failed' \subseteq Actors
    BY <1>1 DEF TypeOK, Breaks, Break, End, HandlerPlace, Report, Reports
  <2>2. TypeOK'
    BY <1>1, <2>1 DEF TypeOK, Breaks, Break, End
  <2> QED
    BY <1>1, <2>2 DEF TypeOK, Breaks, Break, End, Carrying, HandingOver
<1>2. CASE Unsent(a)
  <2>1. Tail(items[a]) \in Seq(Item)
    BY <1>2, CurrentItem DEF Unsent, Yields
  <2>2. items' \in [Actors -> Seq(Item)] /\ nextSeq' \in [Actors -> Nat]
    BY <1>2, <2>1 DEF TypeOK, Unsent, Done, Stamp
  <2>3. unsent' \in [Actors -> SUBSET Key]
    BY <1>2, Shapes DEF Unsent, Key
  <2>4. TypeOK'
    BY <1>2, <2>2, <2>3 DEF TypeOK, Unsent
  <2>5. Carrying'
    BY <1>2 DEF TypeOK, Carrying, Unsent, Yields, Done, Stamp
  <2> QED
    BY <1>2, <2>4, <2>5 DEF Unsent, HandingOver
<1>3. CASE Act(a)
  <2>1. Current(a).to \in Seq(Ids)
    BY <1>3, CurrentItem, ItemKinds DEF Act, Yields, Current
  <2>2. acted' \in [Actors -> SUBSET Key]
    BY <1>3, Shapes DEF Act, Key
  <2>3. /\ route' \in [Actors -> Seq(Ids)] /\ nextSeq' \in [Actors -> Nat]
        /\ handler' \in [Actors -> HandlerPlace]
    BY <1>3, <2>1 DEF TypeOK, Act, Stamp, HandlerPlace
  <2>4. TypeOK'
    BY <1>3, <2>2, <2>3 DEF TypeOK, Act
  <2>5. Carrying'
    BY <1>3 DEF TypeOK, Carrying, Act, Yields, Stamp
  <2> QED
    BY <1>3, <2>4, <2>5 DEF Act, HandingOver
<1>4. CASE Remember(a)
  <2>1. nextSeq' \in [Actors -> Nat] /\ handler' \in [Actors -> HandlerPlace]
    BY <1>4 DEF TypeOK, Remember, Stamp, HandlerPlace
  <2>2. TypeOK'
    BY <1>4, <2>1 DEF TypeOK, Remember
  <2>3. Carrying'
    BY <1>4 DEF TypeOK, Carrying, Remember, Yields, Stamp
  <2> QED
    BY <1>4, <2>2, <2>3 DEF Remember, HandingOver
<1>5. CASE BeginCommand(a)
  <2>1. Current(a).to \in Seq(Ids)
    BY <1>5, CurrentItem, ItemKinds DEF BeginCommand, Yields, Current
  <2>2. route' \in [Actors -> Seq(Ids)] /\ handler' \in [Actors -> HandlerPlace]
    BY <1>5, <2>1 DEF TypeOK, BeginCommand, HandlerPlace
  <2>3. TypeOK'
    BY <1>5, <2>2 DEF TypeOK, BeginCommand
  <2>4. Carrying'
    BY <1>5 DEF TypeOK, Carrying, BeginCommand, Yields
  <2> QED
    BY <1>5, <2>3, <2>4 DEF BeginCommand, HandingOver
<1>6. CASE Pay(a) \/ Skip(a)
  <2>1. items[a] # << >> /\ items' = [items EXCEPT ![a] = Tail(@)] /\ handler[a] = "calling"
    BY <1>6 DEF Pay, Skip, Yields, Done
  <2>2. items' \in [Actors -> Seq(Item)]
    BY <2>1, CurrentItem DEF TypeOK
  <2>3. rewarded' \subseteq Actors
    <3>1. rewarded' = rewarded \/ rewarded' = rewarded \cup {Current(a).who}
      BY <1>6 DEF Pay, Skip
    <3>2. rewarded' # rewarded => Current(a).who \in Actors
      BY <1>6, <2>1, CurrentItem, ItemKinds DEF Pay, Skip, Yields, Current, Ids
    <3> QED
      BY <3>1, <3>2, Shapes
  <2>4. TypeOK'
    BY <1>6, <2>2, <2>3 DEF TypeOK, Pay, Skip
  <2>5. Carrying'
    BY <1>6, <2>1 DEF TypeOK, Carrying, Pay, Skip
  <2> QED
    BY <1>6, <2>4, <2>5 DEF Pay, Skip, HandingOver
<1>7. CASE Route(a)
  <2>1. Tail(route[a]) \in Seq(Ids)
    BY <1>7, RoutedWhom
  <2>2. PICK b \in Actors : b = Head(route[a])
    BY <1>7, RoutedWhom
  <2>3. inbox[b] \in Seq(Key) /\ InHand(a) \in Key
    BY <1>7, InHandType DEF TypeOK, Route
  <2>4. Append(inbox[b], InHand(a)) \in Seq(Key)
    BY <2>3
  <2>5. inbox' \in [Actors -> Seq(Key)]
    BY <1>7, <2>2, <2>4 DEF TypeOK, Route
  <2>6. owed' \in [Actors -> SUBSET Key]
    BY <1>7, <2>2, <2>3 DEF TypeOK, Route
  <2>7. route' \in [Actors -> Seq(Ids)]
    BY <1>7, <2>1 DEF TypeOK, Route
  <2>8. TypeOK'
    BY <1>7, <2>5, <2>6, <2>7 DEF TypeOK, Route
  <2> QED
    BY <1>7, <2>8 DEF Route, Carrying, HandingOver
<1>8. CASE CarriedOut(a)
  <2>1. items[a] # << >>
    BY <1>8 DEF Carrying, CarriedOut
  <2>2. items' \in [Actors -> Seq(Item)] /\ handler' \in [Actors -> HandlerPlace]
    BY <1>8, <2>1, CurrentItem DEF TypeOK, CarriedOut, Done, HandlerPlace
  <2>3. TypeOK'
    BY <1>8, <2>2 DEF TypeOK, CarriedOut
  <2>4. Carrying'
    BY <1>8 DEF TypeOK, Carrying, CarriedOut, Done
  <2> QED
    BY <1>8, <2>3, <2>4 DEF CarriedOut, HandingOver
<1>9. CASE HandBack(a)
  <2>1. Current(a) \in Item /\ Tail(items[a]) \in Seq(Item) /\ Current(a).kind = "remind"
    BY <1>9, CurrentItem DEF Carrying, HandBack, Current
  <2>2. [seq |-> nextSeq[a] - 1, at |-> Current(a).at] \in Request
    BY <1>9, <2>1, ItemKinds, InHandType DEF HandBack, Request
  <2>3. requests[a] \in Seq(Request)
    BY DEF TypeOK
  <2>4. Append(requests[a], [seq |-> nextSeq[a] - 1, at |-> Current(a).at]) \in Seq(Request)
    BY <2>2, <2>3
  <2>5. requests' \in [Actors -> Seq(Request)]
    BY <1>9, <2>4 DEF TypeOK, HandBack
  <2>6. owed' \in [Actors -> SUBSET Key]
    BY <1>9, InHandType DEF TypeOK, HandBack
  <2>7. items' \in [Actors -> Seq(Item)] /\ handler' \in [Actors -> HandlerPlace]
    BY <1>9, <2>1 DEF TypeOK, HandBack, Done, HandlerPlace
  <2>8. TypeOK'
    BY <1>9, <2>5, <2>6, <2>7 DEF TypeOK, HandBack
  <2>9. Carrying'
    BY <1>9 DEF TypeOK, Carrying, HandBack, Done
  <2> QED
    BY <1>9, <2>8, <2>9 DEF HandBack, HandingOver
<1>10. CASE HandBackUnsent(a)
  <2>1. Tail(items[a]) \in Seq(Item)
    BY <1>10, CurrentItem DEF Carrying, HandBackUnsent
  <2>2. unsent' \in [Actors -> SUBSET Key]
    BY <1>10, InHandType DEF TypeOK, HandBackUnsent
  <2>3. items' \in [Actors -> Seq(Item)] /\ handler' \in [Actors -> HandlerPlace]
    BY <1>10, <2>1 DEF TypeOK, HandBackUnsent, Done, HandlerPlace
  <2>4. TypeOK'
    BY <1>10, <2>2, <2>3 DEF TypeOK, HandBackUnsent
  <2>5. Carrying'
    BY <1>10 DEF TypeOK, Carrying, HandBackUnsent, Done
  <2> QED
    BY <1>10, <2>4, <2>5 DEF HandBackUnsent, HandingOver
<1>11. CASE Tell(a)
  <2>1. Append(controls[Head(route[a])], Current(a).control) \in Seq(Control)
    BY <1>11, ToldWhom, Shapes
  <2>2. controls' \in [Actors -> Seq(Control)] /\ route' \in [Actors -> Seq(Ids)]
    BY <1>11, <2>1, ToldWhom DEF TypeOK, Tell
  <2>3. TypeOK'
    BY <1>11, <2>2 DEF TypeOK, Tell
  <2> QED
    BY <1>11, <2>3 DEF Tell, Carrying, HandingOver
<1>12. CASE Return(a)
  <2>1. cycles' \in [Actors -> SUBSET (Key \cup {NoKey})] /\ handler' \in [Actors -> HandlerPlace]
    BY <1>12, Shapes DEF Return, HandlerPlace
  <2>2. TypeOK'
    BY <1>12, <2>1 DEF TypeOK, Return
  <2> QED
    BY <1>12, <2>2 DEF TypeOK, Return, Carrying, HandingOver
<1>13. CASE HangUp(a)
  <2>1. handler' \in [Actors -> HandlerPlace] /\ done' \subseteq Reports
    BY <1>13 DEF TypeOK, HangUp, End, HandlerPlace, Report, Reports
  <2>2. TypeOK'
    BY <1>13, <2>1 DEF TypeOK, HangUp, End
  <2> QED
    BY <1>13, <2>2 DEF TypeOK, HangUp, End, Carrying, HandingOver
<1> QED
  BY <1>1, <1>2, <1>3, <1>4, <1>5, <1>6, <1>7, <1>8, <1>9, <1>10, <1>11, <1>12, <1>13
  DEF Handle, Carry, RouteRefused, TimerClosed, CommandRefused, PayRefused, Panics, WriterClosed, Breaks

\* What a handler thread leaves alone, but for the controls it sends.
LEMMA HandlingLeaves ==
  ASSUME NEW a \in Actors, Handle(a)
  PROVE  /\ UNCHANGED <<perVars, stopped, logged, observed, undelivered, writer, epVars, late>>
         /\ ~Tell(a) => UNCHANGED controls
<1>1. CASE Carry(a)
  BY <1>1 DEF Carry, Unsent, Act, Remember, BeginCommand, Pay, Skip
<1>2. CASE Route(a) \/ CarriedOut(a) \/ HandBack(a) \/ HandBackUnsent(a) \/ Return(a) \/ HangUp(a) \/ Tell(a)
  BY <1>2 DEF Route, CarriedOut, HandBack, HandBackUnsent, Return, HangUp, Tell
<1>3. CASE Breaks(a)
  BY <1>3 DEF Breaks, Break
<1> QED
  BY <1>1, <1>2, <1>3
  DEF Handle, RouteRefused, TimerClosed, CommandRefused, PayRefused, Panics, WriterClosed, Breaks

\* Where a handler thread goes, and how it may end.
LEMMA HandlerMoves ==
  ASSUME Typed, NEW a \in Actors, Handle(a)
  PROVE  /\ handler' = handler \/ \E place \in HandlerPlace : handler' = [handler EXCEPT ![a] = place]
         /\ failed \subseteq failed'
         /\ handler'[a] = "ended" => handler[a] = "ended" \/ a \in failed' \/ HungUp(a)
         /\ handler'[a] = "panicked" => handler[a] = "panicked" \/ a \in failed'
<1> USE DEF Typed, HandlerPlace, Goes
<1>1. CASE Carry(a)
  BY <1>1 DEF TypeOK, Carry, Unsent, Act, Remember, BeginCommand, Pay, Skip
<1>2. CASE Route(a) \/ CarriedOut(a) \/ HandBack(a) \/ HandBackUnsent(a) \/ Return(a) \/ Tell(a)
  BY <1>2 DEF TypeOK, Route, CarriedOut, HandBack, HandBackUnsent, Return, Tell
<1>3. CASE HangUp(a)
  BY <1>3 DEF TypeOK, HangUp, End
<1>4. CASE Breaks(a)
  BY <1>4 DEF TypeOK, Breaks, Break, End
<1> QED
  BY <1>1, <1>2, <1>3, <1>4
  DEF Handle, RouteRefused, TimerClosed, CommandRefused, PayRefused, Panics, WriterClosed, Breaks

\* A stop or a start is put on an actor's control channel.
LEMMA ToldTypes ==
  ASSUME TypeOK, NEW b \in Actors, NEW told \in Control
  PROVE  [controls EXCEPT ![b] = Append(@, told)] \in [Actors -> Seq(Control)]
<1>1. controls[b] \in Seq(Control)
  BY DEF TypeOK
<1>2. Append(controls[b], told) \in Seq(Control)
  BY <1>1
<1> QED
  BY <1>2 DEF TypeOK

\* Every step keeps the types.
LEMMA TypedStep == Typed /\ [Next]_vars => Typed'
<1> SUFFICES ASSUME Typed, [Next]_vars PROVE Typed'
  OBVIOUS
<1> USE RosterAssumption
<1>1. CASE \E a \in Actors : Perceive(a)
  BY <1>1, PerceiveTyped
<1>2. CASE \E a \in Actors : Handle(a)
  BY <1>2, HandleTyped
<1>3. CASE Start
  <2>1. controls' \in [Actors -> Seq(Control)]
    BY <1>3, ToldTypes DEF Start, Typed, Control
  <2>2. TypeOK'
    BY <1>3, <2>1 DEF Typed, TypeOK, Start
  <2> QED
    BY <1>3, <2>2 DEF Typed, Start, Carrying, HandingOver
<1>4. CASE AllReported \/ ReadDeparture \/ TimeOut \/ Stopped
  <2>1. /\ todo' \in Seq(Actors) /\ verdict' \in {"none", "ok", "departed", "timeout"}
        /\ phase' \in {"stopping", "joining"}
    BY <1>4 DEF Typed, TypeOK, AllReported, ReadDeparture, TimeOut, Stopped
  <2>2. TypeOK'
    BY <1>4, <2>1 DEF Typed, TypeOK, AllReported, ReadDeparture, TimeOut, Stopped
  <2> QED
    BY <1>4, <2>2 DEF Typed, AllReported, ReadDeparture, TimeOut, Stopped, Carrying, HandingOver
<1>5. CASE StopNext \/ JoinStop
  <2>1. todo \in Seq(Actors) /\ todo # << >>
    BY <1>5 DEF Typed, TypeOK, StopNext, JoinStop
  <2>2. Head(todo) \in Actors /\ Tail(todo) \in Seq(Actors)
    BY <2>1, HeadTail
  <2>3. controls' \in [Actors -> Seq(Control)]
    <3>1. TypeOK
      BY DEF Typed
    <3>2. [controls EXCEPT ![Head(todo)] = Append(@, "stop")] \in [Actors -> Seq(Control)]
      BY <2>2, <3>1, ToldTypes DEF Control
    <3>3. controls' = controls \/ controls' = [controls EXCEPT ![Head(todo)] = Append(@, "stop")]
      BY <1>5 DEF StopNext, JoinStop
    <3> QED
      BY <3>1, <3>2, <3>3, Shapes
  <2>4. TypeOK'
    BY <1>5, <2>2, <2>3 DEF Typed, TypeOK, StopNext, JoinStop
  <2> QED
    BY <1>5, <2>4 DEF Typed, StopNext, JoinStop, Carrying, HandingOver
<1>6. CASE Join
  <2>1. TypeOK'
    BY <1>6 DEF Typed, TypeOK, Join, Answer
  <2> QED
    BY <1>6, <2>1 DEF Typed, Join, Carrying, HandingOver
<1>7. CASE LoseWriter
  <2>1. TypeOK'
    BY <1>7 DEF Typed, TypeOK, LoseWriter
  <2> QED
    BY <1>7, <2>1 DEF Typed, LoseWriter, Carrying, HandingOver
<1>8. CASE UNCHANGED vars
  <2>1. TypeOK'
    BY <1>8 DEF Typed, TypeOK, vars
  <2> QED
    BY <1>8, <2>1 DEF Typed, vars, Carrying, HandingOver
<1> QED
  BY <1>1, <1>2, <1>3, <1>4, <1>5, <1>6, <1>7, <1>8 DEF Next, Run, Returned

\* The types are kept by every run of every roster.
LEMMA TypedAlways == Spec => []Typed
  BY TypedInit, TypedStep, PTL DEF Spec

\* The types alone: nothing a thread of any roster does leaves them.
THEOREM EpisodeTypes == Spec => []TypeOK
<1>1. Typed => TypeOK
  BY DEF Typed
<1> QED
  BY <1>1, TypedAlways, PTL

(***************************************************************************)
(* What becomes of an actor.                                               *)
(***************************************************************************)

Waits(a) == \E i \in DOMAIN controls[a] : controls[a][i] = "stop"

\* A thread that has handed a message over with a stop waiting does not reach
\* the `select!` again: the poll ahead of it finds the stop.
Preempted ==
  \A a \in Actors :
    /\ late[a] \in {0, 1}
    /\ late[a] = 1 =>
         /\ perception[a] \notin {"selecting", "firing"}
         /\ perception[a] \in {"polling", "recording", "starting"} => Waits(a)

\* Where the perception thread is after a stop, and why either thread ended: it
\* was stopped, or it failed, or it found that the other one had.
Halting ==
  \A a \in Actors :
    /\ HasStopped(a) => perception[a] \in {"stopping", "closing", "ended"}
    /\ perception[a] = "stopping" => HasStopped(a) /\ ~stopped[a]
    /\ stopped[a] => HasStopped(a) /\ HungUp(a)
    /\ HungUp(a) => stopped[a] \/ a \in failed
    /\ handler[a] = "ended" => a \in failed \/ HungUp(a)
    /\ handler[a] = "panicked" => a \in failed

\* A report of an actor that was not stopped is one of an actor that failed;
\* and what is answered once everybody has been joined.
Answering ==
  /\ \A r \in done : ~r.stopped => r.who \in failed
  /\ verdict = "departed" => failed # {}
  /\ phase \notin {"starting", "waiting"} => verdict # "none"
  /\ phase # "returned" => outcome = "none"
  /\ phase = "returned" =>
       /\ (\A a \in Actors : Joined(a)) /\ WriterJoined
       /\ outcome = IF failed # {} THEN "agents" ELSE verdict

\* One more control leaves a stop that waits waiting.
LEMMA StillWaits ==
  ASSUME TypeOK, NEW b \in Actors, NEW told \in Control,
         controls' = [controls EXCEPT ![b] = Append(@, told)]
  PROVE  \A a \in Actors : Waits(a) => Waits(a)'
<1> SUFFICES ASSUME Waits(b) PROVE Waits(b)'
  BY DEF Waits, TypeOK
<1>1. controls[b] \in Seq(Control) /\ controls'[b] = Append(controls[b], told)
  BY DEF TypeOK
<1>2. PICK i \in DOMAIN controls[b] : controls[b][i] = "stop"
  BY DEF Waits
<1>3. i \in DOMAIN controls'[b] /\ controls'[b][i] = "stop"
  BY <1>1, <1>2
<1> QED
  BY <1>3 DEF Waits

\* A stop behind a start waits on when the start is taken.
LEMMA WaitsBehind ==
  ASSUME TypeOK, NEW a \in Actors, Waits(a), Head(controls[a]) # "stop",
         controls' = [controls EXCEPT ![a] = Tail(@)]
  PROVE  Waits(a)'
<1>1. PICK i \in DOMAIN controls[a] : controls[a][i] = "stop"
  BY DEF Waits
<1>2. controls[a] \in Seq(Control) /\ controls[a] # << >> /\ controls'[a] = Tail(controls[a])
  BY <1>1 DEF TypeOK
<1>3. /\ Len(Tail(controls[a])) = Len(controls[a]) - 1
      /\ \A j \in 1 .. Len(Tail(controls[a])) : Tail(controls[a])[j] = controls[a][j + 1]
      /\ Tail(controls[a]) \in Seq(Control)
  BY <1>2, HeadTailProperties
<1>4. i \in 2 .. Len(controls[a])
  BY <1>1, <1>2
<1>5. i - 1 \in 1 .. Len(Tail(controls[a])) /\ Tail(controls[a])[i - 1] = "stop"
  BY <1>1, <1>3, <1>4
<1>6. i - 1 \in DOMAIN controls'[a] /\ controls'[a][i - 1] = "stop"
  BY <1>2, <1>3, <1>5, LenProperties
<1> QED
  BY <1>6 DEF Waits

\* A stop waits at the front, or its perception has stopped, whoever steps.
LEMMA PreemptedStep ==
  ASSUME Typed, Preempted, [Next]_vars
  PROVE  Preempted'
<1> USE DEF Typed
<1>1. ASSUME NEW a \in Actors, Perceive(a) PROVE Preempted'
  <2> USE DEF Goto
  <2>1. CASE Poll(a)
    BY <2>1, Shapes DEF Poll, Preempted, Waits
  <2>2. CASE TakeControl(a)
    <3>1. perception' = [perception EXCEPT ![a] =
            IF Head(controls[a]) = "start" THEN "starting" ELSE "stopping"]
      BY <2>2 DEF TakeControl
    <3>2. controls[a] # << >> /\ controls' = [controls EXCEPT ![a] = Tail(@)]
      BY <2>2 DEF TakeControl
    <3>3. Head(controls[a]) = "start" /\ Waits(a) => Waits(a)'
      BY <3>2, WaitsBehind
    <3>4. \A b \in Actors \ {a} : Waits(b)' = Waits(b)
      BY <3>2 DEF TypeOK, Waits
    <3>5. late' = late /\ perception[a] \in {"polling", "selecting"}
      BY <2>2 DEF TakeControl
    <3> QED
      BY <3>1, <3>3, <3>4, <3>5 DEF TypeOK, Preempted
  <2>3. CASE Hand(a)
    <3>1. late' = [late EXCEPT ![a] = IF Waits(a) THEN @ + 1 ELSE @]
      BY <2>3 DEF TypeOK, Hand, Waits
    <3>2. late[a] = 0 /\ perception' = [perception EXCEPT ![a] = "recording"] /\ UNCHANGED controls
      BY <2>3 DEF Hand, Preempted
    <3> QED
      BY <3>1, <3>2, Shapes DEF Preempted, Waits
  <2>4. CASE HandStart(a) \/ RecordObservation(a) \/ Hear(a) \/ Set(a) \/ Fired(a)
    <3>1. /\ perception' = [perception EXCEPT ![a] = "polling"]
          /\ UNCHANGED <<controls, late>>
          /\ perception[a] \in {"starting", "recording", "selecting", "firing"}
      BY <2>4 DEF HandStart, RecordObservation, Hear, Set, Fired
    <3> QED
      BY <3>1 DEF TypeOK, Preempted, Waits
  <2>5. CASE Fire(a)
    BY <2>5, Shapes DEF Fire, Preempted, Waits
  <2>6. CASE Deliver(a)
    BY <2>6 DEF Deliver, Preempted, Waits
  <2>7. CASE Stop(a) \/ Deafen(a) \/ RecordRefused(a) \/ Close(a)
    <3>1. /\ perception' \in {[perception EXCEPT ![a] = "closing"], [perception EXCEPT ![a] = "ended"]}
          /\ UNCHANGED <<controls, late>>
      BY <2>7 DEF Stop, Deafen, Abandon, RecordRefused, Close
    <3> QED
      BY <3>1 DEF TypeOK, Preempted, Waits
  <2> QED
    BY <1>1, <2>1, <2>2, <2>3, <2>4, <2>5, <2>6, <2>7 DEF Perceive
<1>2. ASSUME NEW b \in Actors, NEW told \in Control,
             controls' = [controls EXCEPT ![b] = Append(@, told)],
             UNCHANGED <<late, perception>>
      PROVE  Preempted'
  BY <1>2, StillWaits DEF Preempted
<1>3. ASSUME UNCHANGED <<controls, late, perception>> PROVE Preempted'
  BY <1>3 DEF Preempted, Waits
<1>4. ASSUME NEW a \in Actors, Handle(a) PROVE Preempted'
  <2>1. CASE Tell(a)
    <3>1. Head(route[a]) \in Actors /\ Current(a).control \in Control
      BY <2>1, ToldWhom
    <3> QED
      BY <1>2, <2>1, <3>1 DEF Tell
  <2>2. CASE ~Tell(a)
    BY <1>3, <1>4, <2>2, HandlingLeaves
  <2> QED
    BY <2>1, <2>2
<1>5. CASE Run \/ TimeOut \/ LoseWriter \/ UNCHANGED vars
  <2>1. CASE Start
    BY <1>2, <2>1, RosterAssumption DEF Start, Control
  <2>2. CASE StopNext \/ JoinStop
    <3>1. Head(todo) \in Actors
      BY <2>2, HeadTail DEF TypeOK, StopNext, JoinStop
    <3> QED
      BY <1>2, <1>3, <2>2, <3>1 DEF StopNext, JoinStop, Control
  <2>3. CASE AllReported \/ ReadDeparture \/ Stopped \/ Join \/ TimeOut \/ LoseWriter \/ UNCHANGED vars
    BY <1>3, <2>3 DEF AllReported, ReadDeparture, Stopped, Join, TimeOut, LoseWriter, vars
  <2> QED
    BY <1>5, <2>1, <2>2, <2>3 DEF Run
<1> QED
  BY <1>1, <1>4, <1>5 DEF Next, Returned

\* "Stop preempts everything", in every run of every roster.
THEOREM StopAlwaysPreempts == Spec => []StopPreempts
<1>1. Init => Preempted
  BY DEF Init, Preempted
<1>2. Typed /\ Preempted /\ [Next]_vars => Preempted'
  BY PreemptedStep
<1>3. Preempted => StopPreempts
  BY DEF Preempted, StopPreempts
<1> QED
  BY <1>1, <1>2, <1>3, TypedAlways, PTL DEF Spec

(***************************************************************************)
(* After a stop.                                                           *)
(***************************************************************************)

\* One more control logged.
LEMMA LoggedStop ==
  ASSUME TypeOK, NEW a \in Actors, NEW told \in Control,
         logged' = [logged EXCEPT ![a] = Append(@, told)]
  PROVE  /\ HasStopped(a)' <=> HasStopped(a) \/ told = "stop"
         /\ \A b \in Actors \ {a} : HasStopped(b)' <=> HasStopped(b)
<1>1. logged[a] \in Seq(Control) /\ logged'[a] = Append(logged[a], told)
  BY DEF TypeOK
<1>2. /\ DOMAIN logged'[a] = 1 .. Len(logged[a]) + 1 /\ DOMAIN logged[a] = 1 .. Len(logged[a])
      /\ \A i \in 1 .. Len(logged[a]) : logged'[a][i] = logged[a][i]
      /\ logged'[a][Len(logged[a]) + 1] = told /\ Len(logged[a]) \in Nat
  BY <1>1, AppendProperties, LenProperties
<1>3. \A b \in Actors \ {a} : logged'[b] = logged[b]
  BY DEF TypeOK
<1> QED
  BY <1>2, <1>3 DEF HasStopped

\* An actor that has stopped or failed makes no more calls, whoever steps.
LEMMA HaltingStep ==
  ASSUME Typed, Halting, [Next]_vars
  PROVE  Halting'
<1> USE DEF Typed
<1>1. ASSUME NEW a \in Actors, Perceive(a) PROVE Halting'
  <2> USE DEF Goto
  <2>1. CASE Poll(a) \/ HandStart(a) \/ Hear(a) \/ Hand(a) \/ RecordObservation(a)
               \/ Set(a) \/ Fire(a) \/ Deliver(a) \/ Fired(a)
    <3>1. /\ perception[a] \in {"polling", "starting", "selecting", "recording", "firing"}
          /\ \E place \in {"polling", "selecting", "recording", "firing"} :
               perception' = [perception EXCEPT ![a] = place]
      BY <2>1, Shapes DEF Poll, HandStart, Hear, Hand, RecordObservation, Set, Fire, Deliver, Fired
    <3>2. UNCHANGED <<stopped, failed, logged>>
      BY <2>1 DEF Poll, HandStart, Hear, Hand, RecordObservation, Set, Fire, Deliver, Fired
    <3>3. \A b \in Actors : HandlerGone(b)' => handler'[b] = handler[b]
      BY <2>1 DEF TypeOK, Poll, HandStart, Hear, Hand, RecordObservation, Set, Fire, Deliver, Fired, Meet, HandlerGone
    <3>4. perception' \in [Actors -> Place] /\ \A b \in Actors \ {a} : perception'[b] = perception[b]
      BY <3>1 DEF TypeOK, Place
    <3>5. perception'[a] \in {"polling", "selecting", "recording", "firing"}
      BY <3>1 DEF TypeOK
    <3>6. \A b \in Actors : HasStopped(b)' = HasStopped(b)
      BY <3>2 DEF HasStopped
    <3>7. ~HasStopped(a) /\ ~HungUp(a) /\ ~HungUp(a)'
      BY <3>1, <3>5 DEF Halting, HungUp
    <3>8. \A b \in Actors : HungUp(b)' = HungUp(b)
      BY <3>4, <3>7 DEF HungUp
    <3> QED
      BY <3>1, <3>2, <3>3, <3>4, <3>5, <3>6, <3>7, <3>8 DEF Halting, HandlerGone
  <2>2. CASE TakeControl(a)
    <3>1. Head(controls[a]) \in Control
      BY <2>2, HeadTail DEF TypeOK, TakeControl
    <3>2. /\ HasStopped(a)' <=> HasStopped(a) \/ Head(controls[a]) = "stop"
          /\ \A b \in Actors \ {a} : HasStopped(b)' <=> HasStopped(b)
      BY <2>2, <3>1, LoggedStop DEF TakeControl
    <3>3. /\ perception' = [perception EXCEPT ![a] =
               IF Head(controls[a]) = "start" THEN "starting" ELSE "stopping"]
          /\ perception[a] \in {"polling", "selecting"} /\ UNCHANGED <<stopped, failed, handler>>
      BY <2>2 DEF TakeControl
    <3> QED
      BY <3>1, <3>2, <3>3 DEF TypeOK, Halting, HungUp, Control
  <2>3. CASE Stop(a)
    <3>1. /\ perception' = [perception EXCEPT ![a] = "closing"] /\ perception[a] = "stopping"
          /\ stopped' = [stopped EXCEPT ![a] = TRUE] /\ UNCHANGED <<handler, logged>>
          /\ failed \subseteq failed'
      BY <2>3 DEF Stop, Abandon
    <3> QED
      BY <3>1, Shapes DEF Halting, HungUp, HasStopped
  <2>4. CASE Deafen(a) \/ RecordRefused(a)
    <3>1. /\ perception' = [perception EXCEPT ![a] = "closing"]
          /\ perception[a] \in {"starting", "selecting", "polling", "recording"}
          /\ UNCHANGED <<handler, logged, stopped>>
          /\ failed \subseteq failed'
      BY <2>4 DEF Deafen, Abandon, RecordRefused
    <3>2. a \in failed'
      BY <2>4, <3>1 DEF Halting, HungUp, HandlerGone, Deafen, RecordRefused
    <3> QED
      BY <3>1, <3>2, Shapes DEF Halting, HungUp, HasStopped
  <2>5. CASE Close(a)
    BY <2>5, Shapes DEF Close, Halting, HungUp, HasStopped
  <2> QED
    BY <1>1, <2>1, <2>2, <2>3, <2>4, <2>5 DEF Perceive
<1>2. ASSUME NEW a \in Actors, Handle(a) PROVE Halting'
  <2>1. /\ UNCHANGED <<perception, stopped, logged>> /\ failed \subseteq failed'
        /\ handler' = handler \/ \E place \in HandlerPlace : handler' = [handler EXCEPT ![a] = place]
        /\ handler'[a] = "ended" => handler[a] = "ended" \/ a \in failed' \/ HungUp(a)
        /\ handler'[a] = "panicked" => handler[a] = "panicked" \/ a \in failed'
    BY <1>2, HandlingLeaves, HandlerMoves
  <2> QED
    BY <2>1, Shapes DEF Halting, HungUp, HasStopped
<1>3. CASE Run \/ TimeOut \/ LoseWriter \/ UNCHANGED vars
  <2>1. UNCHANGED <<perception, stopped, logged, failed, handler>>
    BY <1>3 DEF Run, Start, AllReported, ReadDeparture, StopNext, Stopped, JoinStop, Join,
      TimeOut, LoseWriter, vars
  <2> QED
    BY <2>1 DEF Halting, HungUp, HasStopped
<1> QED
  BY <1>1, <1>2, <1>3 DEF Next, Returned

\* So it is in every run.
LEMMA HaltingAlways == Spec => []Halting
<1>1. Init => Halting
  BY DEF Init, Halting, HasStopped, HungUp
<1> QED
  BY <1>1, HaltingStep, TypedAlways, PTL DEF Spec

\* Nothing of an actor's is logged after its stop but what that left behind.
THEOREM NothingEverFollowsAStop == Spec => NothingFollowsAStop
<1>1. Typed /\ Halting /\ [Next]_vars =>
        [\A a \in Actors : HasStopped(a) => observed'[a] = observed[a] /\ logged'[a] = logged[a]]_vars
  <2> SUFFICES ASSUME Typed, Halting, Next, NEW a \in Actors, HasStopped(a)
               PROVE  observed'[a] = observed[a] /\ logged'[a] = logged[a]
    OBVIOUS
  <2>1. perception[a] \in {"stopping", "closing", "ended"}
    BY DEF Halting
  <2>2. ASSUME NEW b \in Actors, Perceive(b)
        PROVE  observed'[a] = observed[a] /\ logged'[a] = logged[a]
    <3>1. CASE TakeControl(b)
      <4>1. a # b /\ observed' = observed /\ logged' = [logged EXCEPT ![b] = Append(@, Head(controls[b]))]
        BY <2>1, <3>1 DEF TakeControl
      <4> QED
        BY <4>1 DEF Typed, TypeOK
    <3>2. CASE RecordObservation(b)
      <4>1. a # b /\ logged' = logged /\ observed' = [observed EXCEPT ![b] = Append(@, pending[b])]
        BY <2>1, <3>2 DEF RecordObservation
      <4> QED
        BY <4>1 DEF Typed, TypeOK
    <3>3. CASE ~TakeControl(b) /\ ~RecordObservation(b)
      BY <2>2, <3>3 DEF Perceive, Poll, HandStart, Hear, Hand, Set,
        Fire, Deliver, Fired, Stop, Deafen, Abandon, RecordRefused, Close
    <3> QED
      BY <3>1, <3>2, <3>3
  <2>3. ASSUME NEW b \in Actors, Handle(b)
        PROVE  observed'[a] = observed[a] /\ logged'[a] = logged[a]
    BY <2>3, HandlingLeaves
  <2>4. CASE Run \/ TimeOut \/ LoseWriter \/ UNCHANGED vars
    BY <2>4 DEF Run, Start, AllReported, ReadDeparture, StopNext, Stopped, JoinStop, Join,
      TimeOut, LoseWriter, vars
  <2> QED
    BY <2>2, <2>3, <2>4 DEF Next, Returned
<1> QED
  BY <1>1, TypedAlways, HaltingAlways, PTL DEF Spec, NothingFollowsAStop

(***************************************************************************)
(* The answer.                                                             *)
(***************************************************************************)

\* What a perception thread leaves alone, and whom it may report.
LEMMA PerceivingLeaves ==
  ASSUME NEW a \in Actors, Perceive(a)
  PROVE  /\ UNCHANGED <<epVars, acted, unsent, nextSeq, owed, cycles, rewarded, writer, route>>
         /\ failed' \in {failed, failed \cup {a}} /\ perception[a] # "ended"
         /\ handler' = handler \/ (handler[a] = "receiving" /\ handler' = [handler EXCEPT ![a] = "calling"])
         /\ \/ perception' = perception
            \/ \E place \in Place : perception' = [perception EXCEPT ![a] = place]
         /\ done' = done \/ Close(a)
<1> USE DEF Goto, Place
<1>1. CASE Poll(a) \/ Hear(a) \/ Set(a) \/ Fired(a) \/ RecordObservation(a)
  BY <1>1 DEF Poll, Hear, Set, Fired, RecordObservation
<1>2. CASE TakeControl(a)
  BY <1>2 DEF TakeControl
<1>3. CASE HandStart(a) \/ Hand(a)
  BY <1>3 DEF HandStart, Hand, Meet
<1>4. CASE Fire(a) \/ Deliver(a)
  BY <1>4 DEF Fire, Deliver
<1>5. CASE Stop(a) \/ Deafen(a)
  BY <1>5 DEF Stop, Deafen, Abandon
<1>6. CASE RecordRefused(a) \/ Close(a)
  BY <1>6 DEF RecordRefused, Close
<1> QED
  BY <1>1, <1>2, <1>3, <1>4, <1>5, <1>6 DEF Perceive

\* A handler thread that has ended does nothing, and one reports as it ends.
LEMMA HandlingReports ==
  ASSUME NEW a \in Actors, Handle(a)
  PROVE  /\ ~HandlerGone(a)
         /\ done' = done \/ HangUp(a) \/ Breaks(a)
<1> USE DEF HandlerGone
<1>1. CASE Carry(a)
  BY <1>1 DEF Carry, Unsent, Act, Remember, BeginCommand, Pay, Skip, Yields, At
<1>2. CASE Route(a) \/ CarriedOut(a) \/ HandBack(a) \/ HandBackUnsent(a) \/ Return(a) \/ HangUp(a) \/ Tell(a)
  BY <1>2 DEF Route, CarriedOut, HandBack, HandBackUnsent, Return, HangUp, Tell, At
<1>3. CASE RouteRefused(a) \/ TimerClosed(a) \/ CommandRefused(a) \/ PayRefused(a) \/ Panics(a) \/ WriterClosed(a)
  <2>1. handler[a] \in {"calling", "routing", "reminding", "commanding"}
    BY <1>3 DEF RouteRefused, TimerClosed, CommandRefused, PayRefused, Panics, WriterClosed, RecordDue, Yields, At
  <2>2. Breaks(a)
    BY <1>3 DEF RouteRefused, TimerClosed, CommandRefused, PayRefused, Panics, WriterClosed, Breaks
  <2> QED
    BY <2>1, <2>2
<1> QED
  BY <1>1, <1>2, <1>3 DEF Handle

\* What is going to be answered is what the threads have come to, whoever steps.
LEMMA AnsweringStep ==
  ASSUME Typed, Halting, Answering, [Next]_vars
  PROVE  Answering'
<1> USE DEF Typed
<1>1. ASSUME UNCHANGED epVars, failed \subseteq failed',
             \A r \in done' : ~r.stopped => r.who \in failed',
             phase = "returned" =>
               failed' = failed /\ (\A a \in Actors : Joined(a)') /\ WriterJoined'
      PROVE  Answering'
  <2>1. CASE phase = "returned"
    BY <1>1, <2>1 DEF Answering
  <2>2. CASE phase # "returned"
    BY <1>1, <2>2 DEF Answering
  <2> QED
    BY <2>1, <2>2
<1>2. ASSUME NEW a \in Actors, Perceive(a) PROVE Answering'
  <2>1. /\ failed' \in {failed, failed \cup {a}} /\ perception[a] # "ended"
        /\ handler' = handler \/ (handler[a] = "receiving" /\ handler' = [handler EXCEPT ![a] = "calling"])
        /\ perception' = perception \/ \E place \in Place : perception' = [perception EXCEPT ![a] = place]
        /\ UNCHANGED <<epVars, writer>>
    BY <1>2, PerceivingLeaves
  <2>2. \A b \in Actors : HandlerGone(b) => handler'[b] = handler[b]
    BY <2>1 DEF TypeOK, HandlerGone
  <2>3. \A b \in Actors : perception[b] = "ended" => perception'[b] = "ended"
    BY <2>1 DEF TypeOK
  <2>4. ASSUME phase = "returned"
        PROVE  failed' = failed /\ (\A b \in Actors : Joined(b)') /\ WriterJoined'
    <3>1. (\A b \in Actors : Joined(b)) /\ WriterJoined
      BY <2>4 DEF Answering
    <3>2. handler[a] = "panicked"
      BY <2>1, <3>1 DEF Joined
    <3>3. failed' = failed
      BY <2>1, <3>2 DEF Halting
    <3>4. \A b \in Actors : Joined(b)'
      BY <2>2, <2>3, <3>1 DEF Joined, HandlerGone
    <3>5. WriterJoined'
      BY <2>1, <2>3, <3>1 DEF WriterJoined
    <3> QED
      BY <3>3, <3>4, <3>5
  <2>5. failed \subseteq failed'
    BY <2>1
  <2>6. CASE done' = done
    <3>1. \A r \in done' : ~r.stopped => r.who \in failed'
      BY <2>5, <2>6 DEF Answering
    <3> QED
      BY <1>1, <2>1, <2>4, <2>5, <3>1
  <2>7. CASE Close(a)
    <3>1. ~stopped[a] => a \in failed
      BY <2>7 DEF Close, Halting, HungUp
    <3>2. done' = done \cup {Report(a, "perception", stopped[a])}
      BY <2>7 DEF Close
    <3>3. \A r \in done' : ~r.stopped => r.who \in failed'
      BY <2>5, <3>1, <3>2 DEF Answering, Report
    <3> QED
      BY <1>1, <2>1, <2>4, <2>5, <3>3
  <2>8. done' = done \/ Close(a)
    BY <1>2, PerceivingLeaves
  <2> QED
    BY <2>6, <2>7, <2>8
<1>3. ASSUME NEW a \in Actors, Handle(a) PROVE Answering'
  <2>1. phase # "returned"
    BY <1>3, HandlingReports DEF Answering, Joined, HandlerGone
  <2>2. UNCHANGED epVars /\ failed \subseteq failed'
    BY <1>3, HandlingLeaves, HandlerMoves
  <2>3. CASE done' = done
    <3>1. \A r \in done' : ~r.stopped => r.who \in failed'
      BY <2>2, <2>3 DEF Answering
    <3> QED
      BY <1>1, <2>1, <2>2, <3>1
  <2>4. CASE HangUp(a) \/ Breaks(a)
    <3>1. done' = done \cup {Report(a, "handler", stopped[a])}
      BY <2>4 DEF HangUp, Breaks, Break, End
    <3>2. ~stopped[a] => a \in failed'
      BY <2>4 DEF HangUp, Breaks, Break, Halting
    <3>3. \A r \in done' : ~r.stopped => r.who \in failed'
      BY <2>2, <3>1, <3>2 DEF Answering, Report
    <3> QED
      BY <1>1, <2>1, <2>2, <3>3
  <2>5. done' = done \/ HangUp(a) \/ Breaks(a)
    BY <1>3, HandlingReports
  <2> QED
    BY <2>3, <2>4, <2>5
<1>4. CASE Start \/ AllReported \/ TimeOut \/ StopNext \/ Stopped \/ JoinStop \/ LoseWriter \/ UNCHANGED vars
  <2>1. CASE phase = "returned"
    BY <1>4, <2>1 DEF Start, AllReported, TimeOut, StopNext, Stopped, JoinStop, LoseWriter, vars, Answering, Joined, WriterJoined
  <2>2. CASE phase # "returned"
    BY <1>4, <2>2 DEF Start, AllReported, TimeOut, StopNext, Stopped, JoinStop, LoseWriter, vars, Answering
  <2> QED
    BY <2>1, <2>2
<1>5. CASE ReadDeparture
  <2>1. failed # {}
    BY <1>5 DEF ReadDeparture, Answering
  <2> QED
    BY <1>5, <2>1 DEF ReadDeparture, Answering
<1>6. CASE Join
  BY <1>6 DEF Join, Answering, Joined, WriterJoined
<1> QED
  BY <1>2, <1>3, <1>4, <1>5, <1>6 DEF Next, Run, Returned

\* So it is in every run.
LEMMA AnsweringAlways == Spec => []Answering
<1>1. Init => Answering
  BY DEF Init, Answering
<1> QED
  BY <1>1, AnsweringStep, TypedAlways, HaltingAlways, PTL DEF Spec

\* What `run` answers fits what the threads did: an Ok is a stop of everybody
\* and nobody's failure, and whoever ended unbidden is in the answer.
THEOREM AnswerFits == Spec => []AnswerMatchesTheThreads
<1>1. Halting /\ Answering => AnswerMatchesTheThreads
  <2> SUFFICES ASSUME Halting, Answering PROVE AnswerMatchesTheThreads
    OBVIOUS
  <2>1. outcome # "none" =>
          /\ \A a \in Actors : stopped[a] \/ a \in failed
          /\ outcome = IF failed # {} THEN "agents" ELSE verdict
    BY DEF TypeOK, Halting, Answering, Joined, HungUp
  <2>2. outcome # "none" => outcome # "departed"
    BY <2>1 DEF Answering
  <2>3. outcome = "ok" => failed = {}
    BY <2>1
  <2> QED
    BY <2>1, <2>2, <2>3 DEF AnswerMatchesTheThreads, Halting
<1> QED
  BY <1>1, HaltingAlways, AnsweringAlways, PTL

(***************************************************************************)
(* Sequences, and what is in them.                                         *)
(***************************************************************************)

\* One more at the end.
LEMMA AppendedTo ==
  ASSUME NEW S, NEW q \in Seq(S), NEW x \in S
  PROVE  /\ Append(q, x) \in Seq(S)
         /\ DOMAIN q = 1 .. Len(q) /\ DOMAIN Append(q, x) = 1 .. Len(q) + 1 /\ Len(q) \in Nat
         /\ \A i \in DOMAIN q : Append(q, x)[i] = q[i]
         /\ Append(q, x)[Len(q) + 1] = x
  BY AppendProperties, LenProperties

\* One fewer at the front.
LEMMA TailOf ==
  ASSUME NEW S, NEW q \in Seq(S), q # << >>
  PROVE  /\ Head(q) \in S /\ Tail(q) \in Seq(S) /\ Head(q) = q[1] /\ 1 \in DOMAIN q
         /\ DOMAIN q = 1 .. Len(q) /\ DOMAIN Tail(q) = 1 .. Len(q) - 1 /\ Len(q) \in Nat \ {0}
         /\ \A i \in DOMAIN Tail(q) : i + 1 \in DOMAIN q /\ Tail(q)[i] = q[i + 1]
<1>1. /\ Tail(q) \in Seq(S) /\ Head(q) \in S /\ Head(q) = q[1]
      /\ Len(Tail(q)) = Len(q) - 1
      /\ \A i \in 1 .. Len(Tail(q)) : Tail(q)[i] = q[i + 1]
  BY HeadTailProperties, HeadTail
<1>2. Len(q) \in Nat \ {0} /\ DOMAIN q = 1 .. Len(q) /\ DOMAIN Tail(q) = 1 .. Len(Tail(q))
  BY <1>1, LenProperties, EmptySeq
<1> QED
  BY <1>1, <1>2

\* Appending adds one element, and no copy of one that is not there.
LEMMA AppendElements ==
  ASSUME NEW S, NEW q \in Seq(S), NEW x \in S
  PROVE  /\ Elements(Append(q, x)) = Elements(q) \cup {x}
         /\ NoCopies(q) /\ x \notin Elements(q) => NoCopies(Append(q, x))
<1> USE AppendedTo
<1>1. Elements(Append(q, x)) = Elements(q) \cup {x}
  BY DEF Elements
<1>2. ASSUME NoCopies(q), x \notin Elements(q) PROVE NoCopies(Append(q, x))
  BY <1>2 DEF NoCopies, Elements
<1> QED
  BY <1>1, <1>2

\* Taking the head takes it for good.
LEMMA TailElements ==
  ASSUME NEW S, NEW q \in Seq(S), q # << >>
  PROVE  /\ Elements(q) = Elements(Tail(q)) \cup {Head(q)}
         /\ NoCopies(q) => NoCopies(Tail(q)) /\ Head(q) \notin Elements(Tail(q))
<1> USE TailOf
<1>1. Elements(Tail(q)) \cup {Head(q)} \subseteq Elements(q)
  BY DEF Elements
<1>2. Elements(q) \subseteq Elements(Tail(q)) \cup {Head(q)}
  <2> SUFFICES ASSUME NEW i \in DOMAIN q, i # 1 PROVE q[i] \in Elements(Tail(q))
    BY DEF Elements
  <2>1. i - 1 \in DOMAIN Tail(q) /\ Tail(q)[i - 1] = q[i]
    OBVIOUS
  <2> QED
    BY <2>1 DEF Elements
<1>3. ASSUME NoCopies(q) PROVE NoCopies(Tail(q)) /\ Head(q) \notin Elements(Tail(q))
  BY <1>3 DEF NoCopies, Elements
<1> QED
  BY <1>1, <1>2, <1>3

(***************************************************************************)
(* The invariants.                                                         *)
(***************************************************************************)

\* The four fates of a number, apart from each other.
Accounted(a) ==
  /\ a \notin failed =>
       Own(a, 0 .. nextSeq[a] - 1) = acted[a] \cup unsent[a] \cup OwnReminders(a) \cup InHandNow(a)
  /\ acted[a] \cap unsent[a] = {}
  /\ (acted[a] \cup unsent[a]) \cap OwnReminders(a) = {}
  /\ (acted[a] \cup unsent[a] \cup OwnReminders(a)) \cap InHandNow(a) = {}

\* A message on its way has a record already, and those still to get it have
\* not got it.
OnItsWay(a) ==
  /\ NoCopies(route[a]) /\ InHand(a) \in acted[a]
  /\ \A i \in DOMAIN route[a], b \in Actors : route[a][i] = b => InHand(a) \notin owed[b]

\* Every number was given out by its sender, and has one fate; a message
\* accepted from another has an action record.
Numbered ==
  /\ \A b \in Actors : \A k \in owed[b] :
       k[2] < nextSeq[k[1]] /\ (k[1] = b \/ k \in acted[k[1]])
  /\ \A a \in Actors : \A k \in acted[a] \cup unsent[a] : k[1] = a /\ k[2] < nextSeq[a]
  /\ \A a \in Actors : Accounted(a)
  /\ \A a \in Actors : handler[a] = "routing" => OnItsWay(a)

\* What is left in an actor's channels once its perception has given up, if it
\* has not failed: nothing in hand, no reminder held or queued to be observed,
\* and at most one that was handed back too late.
DrainedAt(a) ==
  HungUp(a) /\ a \notin failed =>
    /\ stopped[a] /\ pending[a] = NoKey /\ held[a] = Nothing(Deadlines)
    /\ \A i \in DOMAIN inbox[a] : inbox[a][i][1] # a
    /\ requests[a] = << >> \/ (Len(requests[a]) = 1 /\ handler[a] # "reminding")
Drained == \A a \in Actors : DrainedAt(a)

\* The places a message can be in, apart from each other.
InHandOf(a) == {pending[a]} \ {NoKey}
Seqs(q)     == {q[i].seq : i \in DOMAIN q}
Split(whole, s1, s2, s3, s4, s5, s6) ==
  /\ whole = s1 \cup s2 \cup s3 \cup s4 \cup s5 \cup s6
  /\ s1 \cap (s2 \cup s3 \cup s4 \cup s5 \cup s6) = {}
  /\ s2 \cap (s3 \cup s4 \cup s5 \cup s6) = {}
  /\ s3 \cap (s4 \cup s5 \cup s6) = {}
  /\ s4 \cap (s5 \cup s6) = {}
  /\ s5 \cap s6 = {}

\* No number is on its way twice, nor held twice, under one deadline or two.
SeqsOnce(q) == \A i, j \in DOMAIN q : q[i].seq = q[j].seq => i = j
HeldOnce(q) ==
  \A d, e \in DOMAIN q : \A i \in DOMAIN q[d], j \in DOMAIN q[e] :
    q[d][i] = q[e][j] => d = e /\ i = j

PlacedAt(a) ==
  /\ Split(owed[a], Elements(inbox[a]), InHandOf(a), Own(a, Seqs(requests[a])),
           Own(a, HeldSeqs(held[a])), Elements(observed[a]), undelivered[a])
  /\ NoCopies(inbox[a]) /\ NoCopies(observed[a])
  /\ SeqsOnce(requests[a]) /\ HeldOnce(held[a])
Placed == \A a \in Actors : PlacedAt(a)

\* The numbers of the messages from b rise along a sequence, or from one set
\* to another.
Rising(b, seq) ==
  \A i, j \in DOMAIN seq : i < j /\ seq[i][1] = b /\ seq[j][1] = b => seq[i][2] < seq[j][2]
Before(b, S, T) ==
  \A k \in S, m \in T : k[1] = b /\ m[1] = b => k[2] < m[2]

\* Between a sender and a recipient: observed, then in hand, then queued; and
\* nothing is undelivered before the recipient has given up.
Ordered ==
  \A a \in Actors :
    /\ undelivered[a] # {} => HungUp(a)
    /\ \A b \in Actors \ {a} :
         /\ Rising(b, observed[a]) /\ Rising(b, inbox[a])
         /\ Before(b, Elements(observed[a]), InHandOf(a) \cup Elements(inbox[a]) \cup undelivered[a])
         /\ Before(b, InHandOf(a), Elements(inbox[a]))

(***************************************************************************)
(* Numbers.                                                                *)
(***************************************************************************)

\* A sender's first numbers, with the next one.
LEMMA NextNumber ==
  ASSUME NEW a, NEW n \in Nat
  PROVE  /\ Own(a, 0 .. (n + 1) - 1) = Own(a, 0 .. n - 1) \cup {<<a, n>>}
         /\ <<a, n>> \notin Own(a, 0 .. n - 1)
<1>1. 0 .. (n + 1) - 1 = (0 .. n - 1) \cup {n} /\ n \notin 0 .. n - 1
  OBVIOUS
<1> QED
  BY <1>1 DEF Own

\* An actor whose numbers a step does not touch.
LEMMA SameAccount ==
  ASSUME NEW b \in Actors, Accounted(b), b \in failed => b \in failed',
         acted'[b] = acted[b], unsent'[b] = unsent[b], nextSeq'[b] = nextSeq[b],
         OwnReminders(b)' = OwnReminders(b),
         InHandNow(b)' = InHandNow(b) \/ (InHandNow(b)' = {} /\ b \in failed')
  PROVE  Accounted(b)'
  BY DEF Accounted

\* A step that gives out no number and carries nothing.
LEMMA NumbersKept ==
  ASSUME Typed, Numbered, NEW a \in Actors,
         UNCHANGED <<acted, unsent, nextSeq, owed>>, failed \subseteq failed',
         \/ UNCHANGED <<handler, route>>
         \/ /\ \E place \in HandlerPlace \ {"routing", "reminding"} : handler' = [handler EXCEPT ![a] = place]
            /\ \A b \in Actors \ {a} : route'[b] = route[b]
            /\ handler[a] = "reminding" => a \in failed'
         \/ UNCHANGED handler /\ handler[a] # "routing" /\ \A b \in Actors \ {a} : route'[b] = route[b]
  PROVE  Numbered'
<1> USE DEF Typed
<1>1. \A b \in Actors \ {a} : handler'[b] = handler[b] /\ route'[b] = route[b]
  BY DEF TypeOK
<1>2. \/ handler'[a] \notin {"routing", "reminding"} /\ (handler[a] = "reminding" => a \in failed')
      \/ handler'[a] = handler[a] /\ (route'[a] = route[a] \/ handler[a] # "routing")
  BY DEF TypeOK
<1>3. \A b \in Actors : InHand(b)' = InHand(b) /\ OwnReminders(b)' = OwnReminders(b)
  BY DEF InHand, OwnReminders
<1>4. \A b \in Actors : InHandNow(b)' = InHandNow(b) \/ (InHandNow(b)' = {} /\ b \in failed')
  BY <1>1, <1>2, <1>3 DEF InHandNow
<1>5. \A b \in Actors : Accounted(b)'
  BY <1>3, <1>4, SameAccount DEF Numbered
<1>6. \A b \in Actors : handler'[b] = "routing" => OnItsWay(b)'
  BY <1>1, <1>2, <1>3 DEF Numbered, OnItsWay
<1> QED
  BY <1>5, <1>6 DEF Numbered

\* What a step of another actor's leaves of a message on its way.
LEMMA OthersOnTheirWay ==
  ASSUME Numbered, NEW a \in Actors, NEW b \in Actors \ {a},
         handler'[b] = handler[b], route'[b] = route[b], nextSeq'[b] = nextSeq[b], acted'[b] = acted[b],
         \A c \in Actors : \A k \in owed'[c] \ owed[c] : k[1] = a
  PROVE  handler'[b] = "routing" => OnItsWay(b)'
<1> SUFFICES ASSUME handler[b] = "routing" PROVE OnItsWay(b)'
  OBVIOUS
<1>1. OnItsWay(b) /\ InHand(b)' = InHand(b) /\ InHand(b)[1] = b
  BY DEF Numbered, InHand
<1> QED
  BY <1>1 DEF OnItsWay

\* The number given out when an item is stamped is a new one.
LEMMA NewNumber ==
  ASSUME Typed, Numbered, NEW a \in Actors, handler[a] = "calling"
  PROVE  /\ \A b \in Actors : <<a, nextSeq[a]>> \notin owed[b]
         /\ <<a, nextSeq[a]>> \notin acted[a] \cup unsent[a]
         /\ <<a, nextSeq[a]>> \in Key /\ nextSeq[a] \in Nat /\ InHandNow(a) = {}
<1>1. nextSeq[a] \in Nat
  BY DEF Typed, TypeOK
<1> QED
  BY <1>1 DEF Numbered, InHandNow, Key

\* A perception thread gives out no number.
LEMMA PerceiveNumbered ==
  ASSUME Typed, Numbered, NEW a \in Actors, Perceive(a)
  PROVE  Numbered'
<1>1. UNCHANGED <<acted, unsent, nextSeq, owed, route>> /\ failed \subseteq failed'
  BY PerceivingLeaves
<1>2. \/ UNCHANGED handler
      \/ handler[a] = "receiving" /\ handler' = [handler EXCEPT ![a] = "calling"]
  BY DEF Perceive, Poll, TakeControl, HandStart, Hear, Hand, RecordObservation, Set, Fire,
    Deliver, Fired, Stop, Deafen, Abandon, RecordRefused, Close, Meet
<1> QED
  BY <1>1, <1>2, NumbersKept DEF HandlerPlace

\* A number is given out, and goes straight to where it is accounted for.
LEMMA StampNumbered ==
  ASSUME Typed, Numbered, NEW a \in Actors, Unsent(a) \/ Act(a) \/ Remember(a)
  PROVE  Numbered'
<1> USE DEF Typed, At, Goes
<1> DEFINE new == <<a, nextSeq[a]>>
<1>1. handler[a] = "calling" /\ items[a] # << >>
  BY DEF Unsent, Act, Remember, Yields
<1>2. /\ nextSeq' = [nextSeq EXCEPT ![a] = @ + 1]
      /\ UNCHANGED <<owed, failed>>
  BY DEF Unsent, Act, Remember, Stamp
<1>3. /\ nextSeq'[a] = nextSeq[a] + 1 /\ nextSeq[a] \in Nat
      /\ \A b \in Actors \ {a} : nextSeq'[b] = nextSeq[b]
  BY <1>2 DEF TypeOK
<1>4. InHand(a)' = new
  BY <1>3 DEF InHand
<1>5. \A b \in Actors \ {a} :
        /\ handler'[b] = handler[b] /\ route'[b] = route[b]
        /\ acted'[b] = acted[b] /\ unsent'[b] = unsent[b]
  BY DEF TypeOK, Unsent, Act, Remember
<1>6. \/ acted'[a] = acted[a] \cup {new} /\ unsent'[a] = unsent[a] /\ handler'[a] = "routing" /\ route'[a] = Current(a).to
      \/ acted'[a] = acted[a] /\ unsent'[a] = unsent[a] \cup {new} /\ handler'[a] = "calling"
      \/ acted'[a] = acted[a] /\ unsent'[a] = unsent[a] /\ handler'[a] = "reminding"
  BY <1>1 DEF TypeOK, Unsent, Act, Remember
<1>7. \A b \in Actors : OwnReminders(b)' = OwnReminders(b)
  BY <1>2 DEF OwnReminders
<1>8. \A b \in Actors : Accounted(b)'
  <2>1. Accounted(a)'
    <3>1. InHandNow(a)' = IF handler'[a] = "reminding" THEN {new} ELSE {}
      BY <1>4 DEF InHandNow
    <3>2. new \notin acted[a] \cup unsent[a] \cup OwnReminders(a) /\ InHandNow(a) = {}
      BY <1>1, NewNumber DEF OwnReminders
    <3>3. Own(a, 0 .. nextSeq'[a] - 1) = Own(a, 0 .. nextSeq[a] - 1) \cup {new}
      BY <1>3, NextNumber
    <3>4. Accounted(a)
      BY DEF Numbered
    <3> HIDE DEF new
    <3> QED
      BY <1>2, <1>6, <1>7, <3>1, <3>2, <3>3, <3>4 DEF Accounted
  <2>2. ASSUME NEW b \in Actors \ {a} PROVE Accounted(b)'
    <3>1. InHandNow(b)' = InHandNow(b)
      BY <1>3, <1>5 DEF InHandNow, InHand
    <3> QED
      BY <1>2, <1>3, <1>5, <1>7, <3>1, SameAccount DEF Numbered
  <2> QED
    BY <2>1, <2>2
<1>9. \A b \in Actors : handler'[b] = "routing" => OnItsWay(b)'
  <2>1. handler'[a] = "routing" => OnItsWay(a)'
    <3> SUFFICES ASSUME handler'[a] = "routing" PROVE OnItsWay(a)'
      OBVIOUS
    <3>1. Act(a)
      BY <1>1, <1>6 DEF Unsent, Remember, TypeOK
    <3>2. Current(a).to \in Recipients
      BY <1>1, <3>1, CurrentItem, ItemKinds DEF Act, Yields, Current
    <3>3. NoCopies(route'[a]) /\ new \in acted'[a]
      BY <1>6, <3>1, <3>2 DEF Recipients, NoCopies
    <3>4. \A b \in Actors : new \notin owed'[b]
      BY <1>1, <1>2, NewNumber
    <3> QED
      BY <1>4, <3>3, <3>4 DEF OnItsWay
  <2>2. ASSUME NEW b \in Actors \ {a} PROVE handler'[b] = "routing" => OnItsWay(b)'
    BY <1>2, <1>3, <1>5, OthersOnTheirWay
  <2> QED
    BY <2>1, <2>2
<1>10. \A b \in Actors : acted[b] \subseteq acted'[b] /\ nextSeq[b] \in Nat /\ nextSeq'[b] \in Nat /\ nextSeq[b] <= nextSeq'[b]
  <2>1. \A b \in Actors : nextSeq[b] \in Nat
    BY DEF TypeOK
  <2>2. \A b \in Actors : acted[b] \subseteq acted'[b]
    BY <1>5, <1>6
  <2> QED
    BY <1>3, <2>1, <2>2
<1>11. \A b \in Actors : \A k \in owed[b] : k \in Key
  BY DEF TypeOK
<1>12. \A b \in Actors : \A k \in owed'[b] : k[2] < nextSeq'[k[1]] /\ (k[1] = b \/ k \in acted'[k[1]])
  <2> SUFFICES ASSUME NEW b \in Actors, NEW k \in owed[b]
               PROVE  k[2] < nextSeq'[k[1]] /\ (k[1] = b \/ k \in acted'[k[1]])
    BY <1>2
  <2>1. k[1] \in Actors /\ k[2] \in Nat
    BY <1>11 DEF Key
  <2>2. k[2] < nextSeq[k[1]] /\ (k[1] = b \/ k \in acted[k[1]])
    BY DEF Numbered
  <2> QED
    BY <1>10, <2>1, <2>2
<1>13. \A b \in Actors : \A k \in acted'[b] \cup unsent'[b] : k[1] = b /\ k[2] < nextSeq'[b]
  <2>1. \A b \in Actors : \A k \in acted[b] \cup unsent[b] : k \in Key
    BY DEF TypeOK
  <2> QED
    BY <1>3, <1>5, <1>6, <2>1 DEF Numbered, Key
<1> QED
  BY <1>8, <1>9, <1>12, <1>13 DEF Numbered

\* A copy of a message is put in the next recipient's inbox.
LEMMA RouteNumbered ==
  ASSUME Typed, Numbered, NEW a \in Actors, Route(a)
  PROVE  Numbered'
<1> USE DEF Typed, At
<1> DEFINE new == InHand(a)
<1>1. PICK to \in Actors \ {a} : to = Head(route[a])
  BY RoutedWhom
<1>2. /\ owed' = [owed EXCEPT ![to] = @ \cup {new}]
      /\ route' = [route EXCEPT ![a] = Tail(@)] /\ route[a] \in Seq(Ids) /\ route[a] # << >>
      /\ UNCHANGED <<acted, unsent, nextSeq, handler, failed>> /\ handler[a] = "routing"
  BY <1>1 DEF Route, TypeOK
<1>3. new[1] = a /\ new[2] < nextSeq[a] /\ new \in acted[a] /\ new \notin owed[to]
  <2>1. OnItsWay(a)
    BY <1>2 DEF Numbered
  <2>2. 1 \in DOMAIN route[a] /\ route[a][1] = to
    BY <1>1, <1>2, TailOf
  <2>3. new \in acted[a] /\ new \notin owed[to]
    BY <2>1, <2>2 DEF OnItsWay
  <2>4. nextSeq[a] \in Nat
    BY DEF TypeOK
  <2>5. new[1] = a /\ new[2] < nextSeq[a]
    BY <2>4 DEF InHand
  <2> QED
    BY <2>3, <2>5
<1>4. \A b \in Actors : owed'[b] = IF b = to THEN owed[b] \cup {new} ELSE owed[b]
  BY <1>2 DEF TypeOK
<1>5. \A b \in Actors : InHand(b)' = InHand(b)
  BY <1>2 DEF InHand
<1>6. \A b \in Actors : OwnReminders(b)' = OwnReminders(b)
  <2> HIDE DEF new
  <2> QED
    BY <1>1, <1>3, <1>4 DEF OwnReminders
<1>7. \A b \in Actors : Accounted(b)'
  BY <1>2, <1>5, <1>6, SameAccount DEF Numbered, InHandNow
<1>8. \A b \in Actors : handler'[b] = "routing" => OnItsWay(b)'
  <2>1. OnItsWay(a)'
    <3>1. OnItsWay(a) /\ route'[a] = Tail(route[a])
      BY <1>2 DEF Numbered, TypeOK
    <3>2. NoCopies(Tail(route[a])) /\ Head(route[a]) \notin Elements(Tail(route[a]))
      BY <1>2, <3>1, TailElements DEF OnItsWay
    <3>3. ASSUME NEW i \in DOMAIN Tail(route[a]), NEW b \in Actors, Tail(route[a])[i] = b
          PROVE  new \notin owed'[b]
      <4>1. b # to
        BY <1>1, <3>2, <3>3 DEF Elements
      <4>2. i + 1 \in DOMAIN route[a] /\ route[a][i + 1] = b
        BY <1>2, <3>3, TailOf
      <4> QED
        BY <1>4, <3>1, <4>1, <4>2 DEF OnItsWay
    <3> QED
      BY <1>2, <1>5, <3>1, <3>2, <3>3 DEF OnItsWay
  <2>2. ASSUME NEW b \in Actors \ {a} PROVE handler'[b] = "routing" => OnItsWay(b)'
    <3>1. handler'[b] = handler[b] /\ route'[b] = route[b] /\ nextSeq'[b] = nextSeq[b] /\ acted'[b] = acted[b]
      BY <1>2 DEF TypeOK
    <3>2. \A c \in Actors : \A k \in owed'[c] \ owed[c] : k[1] = a
      BY <1>3, <1>4 DEF InHand
    <3> QED
      BY <3>1, <3>2, OthersOnTheirWay
  <2> QED
    BY <2>1, <2>2
<1>9. \A b \in Actors : \A k \in owed'[b] : k[2] < nextSeq[k[1]] /\ (k[1] = b \/ k \in acted[k[1]])
  <2> HIDE DEF new
  <2>1. new[2] < nextSeq[new[1]] /\ new \in acted[new[1]]
    BY <1>3
  <2>2. \A b \in Actors : owed'[b] \subseteq owed[b] \cup {new}
    BY <1>4
  <2>3. \A b \in Actors : \A k \in owed[b] : k[2] < nextSeq[k[1]] /\ (k[1] = b \/ k \in acted[k[1]])
    BY DEF Numbered
  <2> QED
    BY <2>1, <2>2, <2>3
<1> QED
  BY <1>2, <1>7, <1>8, <1>9 DEF Numbered

\* A reminder is handed to perception, or found to be too late.
LEMMA HandBackNumbered ==
  ASSUME Typed, Numbered, NEW a \in Actors, HandBack(a) \/ HandBackUnsent(a)
  PROVE  Numbered'
<1> USE DEF Typed, At, Goes
<1> DEFINE new == InHand(a)
<1>1. /\ handler[a] = "reminding" /\ handler' = [handler EXCEPT ![a] = "calling"]
      /\ UNCHANGED <<acted, nextSeq, route, failed>>
      /\ \/ owed' = [owed EXCEPT ![a] = @ \cup {new}] /\ UNCHANGED unsent
         \/ unsent' = [unsent EXCEPT ![a] = @ \cup {new}] /\ UNCHANGED owed
  BY DEF HandBack, HandBackUnsent
<1>2. nextSeq[a] \in Nat
  BY DEF TypeOK
<1>3. new[1] = a /\ new[2] < nextSeq[a]
  BY <1>2 DEF InHand
<1>4. \A b \in Actors \ {a} : owed'[b] = owed[b] /\ unsent'[b] = unsent[b] /\ handler'[b] = handler[b]
  BY <1>1 DEF TypeOK
<1>5. \/ owed'[a] = owed[a] \cup {new} /\ unsent'[a] = unsent[a]
      \/ unsent'[a] = unsent[a] \cup {new} /\ owed'[a] = owed[a]
  BY <1>1 DEF TypeOK
<1>6. \A b \in Actors : InHand(b)' = InHand(b)
  BY <1>1 DEF InHand
<1>7. InHandNow(a) = {new} /\ InHandNow(a)' = {}
  BY <1>1, <1>6 DEF InHandNow, TypeOK
<1>8. \/ OwnReminders(a)' = OwnReminders(a) \cup {new} /\ unsent'[a] = unsent[a]
      \/ unsent'[a] = unsent[a] \cup {new} /\ OwnReminders(a)' = OwnReminders(a)
  BY <1>3, <1>5 DEF OwnReminders
<1>9. \A b \in Actors : Accounted(b)'
  <2>1. Accounted(a)'
    <3>1. Accounted(a)
      BY DEF Numbered
    <3> HIDE DEF new
    <3> QED
      BY <1>1, <1>7, <1>8, <3>1 DEF Accounted
  <2>2. ASSUME NEW b \in Actors \ {a} PROVE Accounted(b)'
    <3>1. OwnReminders(b)' = OwnReminders(b) /\ InHandNow(b)' = InHandNow(b)
      BY <1>4, <1>6 DEF OwnReminders, InHandNow
    <3> QED
      BY <1>1, <1>4, <3>1, SameAccount DEF Numbered
  <2> QED
    BY <2>1, <2>2
<1>10. \A b \in Actors : handler'[b] = "routing" => OnItsWay(b)'
  <2>1. handler'[a] # "routing"
    BY <1>1 DEF TypeOK
  <2>2. ASSUME NEW b \in Actors \ {a} PROVE handler'[b] = "routing" => OnItsWay(b)'
    <3>1. \A c \in Actors : \A k \in owed'[c] \ owed[c] : k[1] = a
      BY <1>3, <1>4, <1>5
    <3> QED
      BY <1>1, <1>4, <3>1, OthersOnTheirWay
  <2> QED
    BY <2>1, <2>2
<1>11. \A b \in Actors : \A k \in owed'[b] : k[2] < nextSeq[k[1]] /\ (k[1] = b \/ k \in acted[k[1]])
  BY <1>3, <1>4, <1>5 DEF Numbered
<1>12. \A b \in Actors : \A k \in acted[b] \cup unsent'[b] : k[1] = b /\ k[2] < nextSeq[b]
  BY <1>3, <1>4, <1>5 DEF Numbered
<1> QED
  BY <1>1, <1>9, <1>10, <1>11, <1>12 DEF Numbered

\* A handler thread that ends, or goes on to something that has no number.
LEMMA HandleNumbered ==
  ASSUME Typed, Numbered, NEW a \in Actors, Handle(a)
  PROVE  Numbered'
<1> USE DEF Goes, At, HandlerPlace
<1>1. CASE Unsent(a) \/ Act(a) \/ Remember(a)
  BY <1>1, StampNumbered
<1>2. CASE Route(a)
  BY <1>2, RouteNumbered
<1>3. CASE HandBack(a) \/ HandBackUnsent(a)
  BY <1>3, HandBackNumbered
<1>4. CASE BeginCommand(a) \/ Tell(a)
  <2>1. /\ UNCHANGED <<acted, unsent, nextSeq, owed, failed>> /\ handler[a] # "reminding"
        /\ handler' = [handler EXCEPT ![a] = "commanding"]
    BY <1>4 DEF BeginCommand, Tell, Yields, Typed, TypeOK
  <2>2. \A b \in Actors \ {a} : route'[b] = route[b]
    BY <1>4 DEF BeginCommand, Tell, Typed, TypeOK
  <2> QED
    BY <2>1, <2>2, NumbersKept
<1>5. CASE Pay(a) \/ Skip(a)
  BY <1>5, NumbersKept DEF Pay, Skip
<1>6. CASE CarriedOut(a) \/ Return(a) \/ HangUp(a) \/ Breaks(a)
  <2>1. /\ UNCHANGED <<acted, unsent, nextSeq, owed, route>> /\ failed \subseteq failed'
        /\ handler[a] = "reminding" => a \in failed'
        /\ \E place \in {"calling", "receiving", "ended", "panicked"} : handler' = [handler EXCEPT ![a] = place]
    BY <1>6 DEF CarriedOut, Return, HangUp, Breaks, Break, End
  <2> QED
    BY <2>1, NumbersKept
<1> QED
  BY <1>1, <1>2, <1>3, <1>4, <1>5, <1>6
  DEF Handle, Carry, RouteRefused, TimerClosed, CommandRefused, PayRefused, Panics, WriterClosed, Breaks

\* Numbers are handed out in order and kept account of, whoever steps.
LEMMA NumberedStep ==
  ASSUME Typed, Numbered, [Next]_vars
  PROVE  Numbered'
<1>1. CASE Run \/ TimeOut \/ LoseWriter \/ UNCHANGED vars
  <2>1. UNCHANGED <<acted, unsent, nextSeq, owed, handler, route, failed>>
    BY <1>1 DEF Run, Start, AllReported, ReadDeparture, StopNext, Stopped, JoinStop, Join,
      TimeOut, LoseWriter, vars
  <2> QED
    BY <2>1 DEF Numbered, Accounted, OnItsWay, OwnReminders, InHandNow, InHand
<1> QED
  BY <1>1, PerceiveNumbered, HandleNumbered DEF Next, Returned

\* So it is in every run.
LEMMA NumberedAlways == Spec => []Numbered
<1>1. Init => Numbered
  BY DEF Init, Numbered, Accounted, OwnReminders, InHandNow, Own
<1> QED
  BY <1>1, NumberedStep, TypedAlways, PTL DEF Spec

(***************************************************************************)
(* Places.                                                                 *)
(***************************************************************************)

\* A set of numbers as a set of keys.
LEMMA OwnOf ==
  ASSUME NEW a
  PROVE  /\ Own(a, {}) = {}
         /\ \A S, T : Own(a, S \cup T) = Own(a, S) \cup Own(a, T)
  BY DEF Own
\* One more number is one more message.
LEMMA OwnOne ==
  ASSUME NEW a, NEW S, NEW T, NEW s, S = T \cup {s}
  PROVE  /\ Own(a, S) = Own(a, T) \cup {<<a, s>>}
         /\ <<a, s>> \in Own(a, T) => s \in T
  BY DEF Own

\* A request more, and a request less.
LEMMA RequestsGrow ==
  ASSUME NEW q \in Seq(Request), NEW r \in Request
  PROVE  /\ Seqs(Append(q, r)) = Seqs(q) \cup {r.seq}
         /\ SeqsOnce(q) /\ r.seq \notin Seqs(q) => SeqsOnce(Append(q, r))
<1> USE AppendedTo
<1>1. Seqs(Append(q, r)) = Seqs(q) \cup {r.seq}
  BY DEF Seqs
<1>2. ASSUME SeqsOnce(q), r.seq \notin Seqs(q) PROVE SeqsOnce(Append(q, r))
  BY <1>2 DEF SeqsOnce, Seqs
<1> QED
  BY <1>1, <1>2

\* A request taken off the channel is off it altogether.
LEMMA RequestsShrink ==
  ASSUME NEW q \in Seq(Request), q # << >>
  PROVE  /\ Seqs(q) = Seqs(Tail(q)) \cup {Head(q).seq}
         /\ SeqsOnce(q) => SeqsOnce(Tail(q)) /\ Head(q).seq \notin Seqs(Tail(q))
<1> USE TailOf
<1>1. Seqs(Tail(q)) \cup {Head(q).seq} \subseteq Seqs(q)
  BY DEF Seqs
<1>2. Seqs(q) \subseteq Seqs(Tail(q)) \cup {Head(q).seq}
  <2> SUFFICES ASSUME NEW i \in DOMAIN q, i # 1 PROVE q[i].seq \in Seqs(Tail(q))
    BY DEF Seqs
  <2>1. i - 1 \in DOMAIN Tail(q) /\ Tail(q)[i - 1] = q[i]
    OBVIOUS
  <2> QED
    BY <2>1 DEF Seqs
<1>3. ASSUME SeqsOnce(q) PROVE SeqsOnce(Tail(q)) /\ Head(q).seq \notin Seqs(Tail(q))
  BY <1>3 DEF SeqsOnce, Seqs
<1> QED
  BY <1>1, <1>2, <1>3

\* A reminder is held, and one is taken.
LEMMA HeldGrows ==
  ASSUME NEW q \in [Deadlines -> Seq(Nat)], NEW d \in Deadlines, NEW s \in Nat
  PROVE  /\ HeldSeqs(Pushed(q, d, s)) = HeldSeqs(q) \cup {s}
         /\ HeldOnce(q) /\ s \notin HeldSeqs(q) => HeldOnce(Pushed(q, d, s))
<1> DEFINE r == Pushed(q, d, s)
<1>1. /\ DOMAIN r = Deadlines /\ r[d] = Append(q[d], s)
      /\ \A e \in Deadlines \ {d} : r[e] = q[e]
  BY DEF Pushed
<1>2. /\ DOMAIN q[d] = 1 .. Len(q[d]) /\ DOMAIN r[d] = 1 .. Len(q[d]) + 1 /\ Len(q[d]) \in Nat
      /\ \A i \in DOMAIN q[d] : r[d][i] = q[d][i]
      /\ r[d][Len(q[d]) + 1] = s
  BY <1>1, AppendedTo
<1>3. Elements(r[d]) = Elements(q[d]) \cup {s}
  BY <1>1, AppendElements
<1> HIDE DEF r
<1>4. HeldSeqs(r) = HeldSeqs(q) \cup {s}
  BY <1>1, <1>3 DEF HeldSeqs
<1>5. ASSUME HeldOnce(q), s \notin HeldSeqs(q) PROVE HeldOnce(r)
  <2>1. \A e \in Deadlines : \A i \in DOMAIN q[e] : q[e][i] # s
    BY <1>5 DEF HeldSeqs, Elements
  <2>2. \A e \in Deadlines : \A i \in DOMAIN r[e] :
          \/ i \in DOMAIN q[e] /\ r[e][i] = q[e][i]
          \/ e = d /\ i = Len(q[d]) + 1 /\ r[e][i] = s
    <3>1. \A i \in DOMAIN r[d] : i \in DOMAIN q[d] \/ i = Len(q[d]) + 1
      BY <1>2
    <3> QED
      BY <1>1, <1>2, <3>1
  <2> QED
    BY <1>1, <1>5, <2>1, <2>2 DEF HeldOnce
<1> QED
  BY <1>4, <1>5 DEF r

\* A reminder that fires is held no more, and every other one is.
LEMMA HeldShrinks ==
  ASSUME NEW q \in [Deadlines -> Seq(Nat)], NEW d \in Deadlines, q[d] # << >>
  PROVE  LET r == [q EXCEPT ![d] = Tail(@)]
         IN  /\ HeldSeqs(q) = HeldSeqs(r) \cup {Head(q[d])}
             /\ HeldOnce(q) => HeldOnce(r) /\ Head(q[d]) \notin HeldSeqs(r)
<1> DEFINE r == [q EXCEPT ![d] = Tail(@)]
<1>1. /\ DOMAIN r = Deadlines /\ r[d] = Tail(q[d])
      /\ \A e \in Deadlines \ {d} : r[e] = q[e]
  OBVIOUS
<1>2. /\ 1 \in DOMAIN q[d] /\ Head(q[d]) = q[d][1]
      /\ DOMAIN Tail(q[d]) \subseteq Nat \ {0}
      /\ \A i \in DOMAIN Tail(q[d]) : i + 1 \in DOMAIN q[d] /\ Tail(q[d])[i] = q[d][i + 1]
  BY TailOf
<1>3. Elements(q[d]) = Elements(r[d]) \cup {Head(q[d])}
  BY <1>1, TailElements
<1> HIDE DEF r
<1>4. HeldSeqs(q) = HeldSeqs(r) \cup {Head(q[d])}
  BY <1>1, <1>3 DEF HeldSeqs
<1>5. ASSUME HeldOnce(q) PROVE HeldOnce(r) /\ Head(q[d]) \notin HeldSeqs(r)
  <2>1. \A e \in Deadlines : \A i \in DOMAIN r[e] :
          IF e = d THEN i + 1 \in DOMAIN q[e] /\ r[e][i] = q[e][i + 1] /\ i \in Nat \ {0}
                   ELSE i \in DOMAIN q[e] /\ r[e][i] = q[e][i]
    BY <1>1, <1>2
  <2>2. ASSUME NEW e \in Deadlines, NEW f \in Deadlines, NEW i \in DOMAIN r[e], NEW j \in DOMAIN r[f],
               r[e][i] = r[f][j]
        PROVE  e = f /\ i = j
    <3>1. /\ e = d => i + 1 \in DOMAIN q[e] /\ r[e][i] = q[e][i + 1] /\ i \in Nat
          /\ e # d => i \in DOMAIN q[e] /\ r[e][i] = q[e][i]
          /\ f = d => j + 1 \in DOMAIN q[f] /\ r[f][j] = q[f][j + 1] /\ j \in Nat
          /\ f # d => j \in DOMAIN q[f] /\ r[f][j] = q[f][j]
      BY <2>1
    <3>2. \A x \in DOMAIN q[e], y \in DOMAIN q[f] : q[e][x] = q[f][y] => e = f /\ x = y
      BY <1>5 DEF HeldOnce
    <3>3. e = f
      BY <2>2, <3>1, <3>2
    <3> QED
      BY <2>2, <3>1, <3>2, <3>3
  <2>3. \A e \in Deadlines : \A i \in DOMAIN r[e] : r[e][i] # Head(q[d])
    BY <1>1, <1>2, <1>5, <2>1 DEF HeldOnce
  <2> QED
    BY <1>1, <2>2, <2>3 DEF HeldOnce, HeldSeqs, Elements
<1> QED
  BY <1>4, <1>5 DEF r

\* An empty timer holds nothing, and nothing twice.
LEMMA HeldNone == HeldSeqs(Nothing(Deadlines)) = {} /\ HeldOnce(Nothing(Deadlines))
  BY DEF HeldSeqs, HeldOnce, Nothing, Elements

\* An actor whose places a step does not touch.
LEMMA SamePlaces ==
  ASSUME NEW b \in Actors, PlacedAt(b), owed'[b] = owed[b], inbox'[b] = inbox[b],
         pending'[b] = pending[b], requests'[b] = requests[b], held'[b] = held[b],
         observed'[b] = observed[b], undelivered'[b] = undelivered[b]
  PROVE  PlacedAt(b)'
  BY DEF PlacedAt, InHandOf

\* One element goes from a place to another: from the requests to what is held,
\* and from what is held to the inbox.
LEMMA SplitMoves ==
  ASSUME NEW w, NEW s1, NEW s2, NEW s3, NEW s4, NEW s5, NEW s6, NEW x, NEW less, NEW more,
         Split(w, s1, s2, s3, s4, s5, s6)
  PROVE  /\ s3 = less \cup {x} /\ x \notin less /\ more = s4 \cup {x} =>
              Split(w, s1, s2, less, more, s5, s6)
         /\ s4 = less \cup {x} /\ x \notin less /\ more = s1 \cup {x} =>
              Split(w, more, s2, s3, less, s5, s6)
  BY DEF Split

\* A message goes from the inbox into hand.
LEMMA HearPlaced ==
  ASSUME Typed, NEW a \in Actors, PlacedAt(a), Hear(a)
  PROVE  PlacedAt(a)'
<1>1. inbox[a] \in Seq(Key) /\ inbox[a] # << >> /\ pending[a] = NoKey
  BY DEF Typed, TypeOK, Hear
<1>2. /\ inbox'[a] = Tail(inbox[a]) /\ pending'[a] = Head(inbox[a])
      /\ UNCHANGED <<owed, requests, held, observed, undelivered>>
  BY DEF Typed, TypeOK, Hear
<1>3. Head(inbox[a]) # NoKey
  BY <1>1, HeadTail, RosterAssumption DEF NoKey, Key
<1>4. /\ Elements(inbox[a]) = Elements(inbox'[a]) \cup {pending'[a]}
      /\ NoCopies(inbox'[a]) /\ pending'[a] \notin Elements(inbox'[a])
  BY <1>1, <1>2, TailElements DEF PlacedAt
<1>5. InHandOf(a) = {} /\ InHandOf(a)' = {pending'[a]}
  BY <1>1, <1>2, <1>3 DEF InHandOf
<1> QED
  BY <1>2, <1>4, <1>5 DEF PlacedAt, Split

\* A message goes from the actor's hand into the log.
LEMMA ObservePlaced ==
  ASSUME Typed, NEW a \in Actors, PlacedAt(a), RecordObservation(a)
  PROVE  PlacedAt(a)'
<1>1. observed[a] \in Seq(Key) /\ pending[a] \in Key /\ pending[a] # NoKey
  BY DEF Typed, TypeOK, HandingOver, RecordObservation
<1>2. /\ observed'[a] = Append(observed[a], pending[a]) /\ pending'[a] = NoKey
      /\ UNCHANGED <<owed, inbox, requests, held, undelivered>>
  BY DEF Typed, TypeOK, RecordObservation
<1>3. InHandOf(a) = {pending[a]} /\ InHandOf(a)' = {}
  BY <1>1, <1>2 DEF InHandOf
<1>4. pending[a] \notin Elements(observed[a])
  BY <1>3 DEF PlacedAt, Split
<1>5. Elements(observed'[a]) = Elements(observed[a]) \cup {pending[a]} /\ NoCopies(observed'[a])
  BY <1>1, <1>2, <1>4, AppendElements DEF PlacedAt
<1> QED
  BY <1>2, <1>3, <1>5 DEF PlacedAt, Split

\* A reminder reaches the timer.
LEMMA SetPlaced ==
  ASSUME Typed, NEW a \in Actors, PlacedAt(a), Set(a)
  PROVE  PlacedAt(a)'
<1>1. requests[a] \in Seq(Request) /\ requests[a] # << >> /\ held[a] \in [Deadlines -> Seq(Nat)]
  BY DEF Typed, TypeOK, Set
<1>2. Head(requests[a]) \in Request
  BY <1>1, HeadTail
<1>3. PICK d \in Deadlines, s \in Nat : d = Head(requests[a]).at /\ s = Head(requests[a]).seq
  BY <1>2 DEF Request
<1>4. /\ held'[a] = Pushed(held[a], d, s) /\ requests'[a] = Tail(requests[a])
      /\ UNCHANGED <<owed, inbox, pending, observed, undelivered>>
  BY <1>3 DEF Typed, TypeOK, Set
<1>5. Seqs(requests[a]) = Seqs(requests'[a]) \cup {s} /\ SeqsOnce(requests'[a]) /\ s \notin Seqs(requests'[a])
  BY <1>1, <1>3, <1>4, RequestsShrink DEF PlacedAt
<1>6. /\ Own(a, Seqs(requests[a])) = Own(a, Seqs(requests'[a])) \cup {<<a, s>>}
      /\ <<a, s>> \notin Own(a, Seqs(requests'[a]))
  BY <1>5, OwnOne
<1>7. <<a, s>> \notin Own(a, HeldSeqs(held[a]))
  BY <1>6 DEF PlacedAt, Split
<1>8. s \notin HeldSeqs(held[a])
  BY <1>7 DEF Own
<1>9. HeldSeqs(held'[a]) = HeldSeqs(held[a]) \cup {s} /\ HeldOnce(held'[a])
  BY <1>1, <1>4, <1>8, HeldGrows DEF PlacedAt
<1>10. Own(a, HeldSeqs(held'[a])) = Own(a, HeldSeqs(held[a])) \cup {<<a, s>>}
  BY <1>9 DEF Own
<1>11. InHandOf(a)' = InHandOf(a)
  BY <1>4 DEF InHandOf
<1>12. Split(owed[a], Elements(inbox[a]), InHandOf(a), Own(a, Seqs(requests[a])),
             Own(a, HeldSeqs(held[a])), Elements(observed[a]), undelivered[a])
  BY DEF PlacedAt
<1>13. Split(owed[a], Elements(inbox[a]), InHandOf(a), Own(a, Seqs(requests'[a])),
             Own(a, HeldSeqs(held'[a])), Elements(observed[a]), undelivered[a])
  BY <1>6, <1>10, <1>12, SplitMoves
<1> QED
  BY <1>4, <1>5, <1>9, <1>11, <1>13 DEF PlacedAt

\* A reminder goes from the timer into the inbox.
LEMMA DeliverPlaced ==
  ASSUME Typed, NEW a \in Actors, PlacedAt(a), Deliver(a)
  PROVE  PlacedAt(a)'
<1>1. PICK d \in Deadlines :
        /\ held[a][d] # << >>
        /\ inbox' = [inbox EXCEPT ![a] = Append(@, <<a, Head(held[a][d])>>)]
        /\ held' = [held EXCEPT ![a][d] = Tail(@)]
  BY DEF Deliver, Due, IsEarliest, Waiting
<1>2. inbox[a] \in Seq(Key) /\ held[a] \in [Deadlines -> Seq(Nat)] /\ held[a][d] \in Seq(Nat)
  BY DEF Typed, TypeOK
<1>3. PICK s \in Nat : s = Head(held[a][d])
  BY <1>1, <1>2, HeadTail
<1>4. <<a, s>> \in Key
  BY DEF Key
<1>5. /\ inbox'[a] = Append(inbox[a], <<a, s>>) /\ held'[a] = [held[a] EXCEPT ![d] = Tail(@)]
      /\ UNCHANGED <<owed, pending, requests, observed, undelivered>>
  BY <1>1, <1>3 DEF Typed, TypeOK, Deliver
<1>6. HeldSeqs(held[a]) = HeldSeqs(held'[a]) \cup {s} /\ HeldOnce(held'[a]) /\ s \notin HeldSeqs(held'[a])
  <2>1. HeldOnce(held[a])
    BY DEF PlacedAt
  <2>2. PICK q \in [Deadlines -> Seq(Nat)] : q = held[a]
    BY <1>2
  <2>3. /\ HeldSeqs(q) = HeldSeqs([q EXCEPT ![d] = Tail(@)]) \cup {Head(q[d])}
        /\ HeldOnce(q) => HeldOnce([q EXCEPT ![d] = Tail(@)])
                          /\ Head(q[d]) \notin HeldSeqs([q EXCEPT ![d] = Tail(@)])
    BY <1>1, <2>2, HeldShrinks
  <2> QED
    BY <1>3, <1>5, <2>1, <2>2, <2>3
<1>7. /\ Own(a, HeldSeqs(held[a])) = Own(a, HeldSeqs(held'[a])) \cup {<<a, s>>}
      /\ <<a, s>> \notin Own(a, HeldSeqs(held'[a]))
  BY <1>6, OwnOne
<1>8. <<a, s>> \notin Elements(inbox[a])
  BY <1>7 DEF PlacedAt, Split
<1>9. Elements(inbox'[a]) = Elements(inbox[a]) \cup {<<a, s>>} /\ NoCopies(inbox'[a])
  <2>1. NoCopies(inbox[a])
    BY DEF PlacedAt
  <2>2. PICK k \in Key : k = <<a, s>>
    BY <1>4
  <2>3. Elements(Append(inbox[a], k)) = Elements(inbox[a]) \cup {k} /\ NoCopies(Append(inbox[a], k))
    BY <1>2, <1>8, <2>1, <2>2, AppendElements
  <2> QED
    BY <1>5, <2>2, <2>3
<1>10. InHandOf(a)' = InHandOf(a)
  BY <1>5 DEF InHandOf
<1>11. Split(owed[a], Elements(inbox[a]), InHandOf(a), Own(a, Seqs(requests[a])),
             Own(a, HeldSeqs(held[a])), Elements(observed[a]), undelivered[a])
  BY DEF PlacedAt
<1>12. Split(owed[a], Elements(inbox'[a]), InHandOf(a), Own(a, Seqs(requests[a])),
             Own(a, HeldSeqs(held'[a])), Elements(observed[a]), undelivered[a])
  BY <1>7, <1>9, <1>11, SplitMoves
<1> QED
  BY <1>5, <1>6, <1>9, <1>10, <1>12 DEF PlacedAt

\* What is left goes into the log, or stays.
LEMMA AbandonPlaced ==
  ASSUME Typed, NEW a \in Actors, PlacedAt(a), Abandon(a)
  PROVE  PlacedAt(a)'
<1>1. UNCHANGED <<owed, observed>>
  BY DEF Abandon
<1>2. CASE LosesLeftover(a)
  BY <1>1, <1>2, SamePlaces DEF LosesLeftover
<1>3. CASE LogsLeftover(a)
  <2>1. /\ undelivered'[a] = undelivered[a] \cup Leftover(a) /\ pending'[a] = NoKey
        /\ inbox'[a] = << >> /\ requests'[a] = << >> /\ held'[a] = Nothing(Deadlines)
    BY <1>3 DEF Typed, TypeOK, LogsLeftover
  <2>2. /\ Elements(inbox'[a]) = {} /\ InHandOf(a)' = {} /\ Seqs(requests'[a]) = {}
        /\ NoCopies(inbox'[a]) /\ SeqsOnce(requests'[a])
    BY <2>1 DEF Elements, InHandOf, Seqs, NoCopies, SeqsOnce
  <2>3. HeldSeqs(held'[a]) = {} /\ HeldOnce(held'[a])
    BY <2>1, HeldNone
  <2>4. Own(a, Seqs(requests'[a])) = {} /\ Own(a, HeldSeqs(held'[a])) = {}
    BY <2>2, <2>3, OwnOf
  <2>5. Leftover(a) = InHandOf(a) \cup Elements(inbox[a])
                        \cup Own(a, HeldSeqs(held[a])) \cup Own(a, Seqs(requests[a]))
    BY OwnOf DEF Leftover, Reminders, InHandOf, Seqs
  <2> QED
    BY <1>1, <2>1, <2>2, <2>3, <2>4, <2>5 DEF PlacedAt, Split
<1> QED
  BY <1>2, <1>3, AbandonCases

\* A perception thread moves its own actor's messages only.
LEMMA PerceiveElsewhere ==
  ASSUME Typed, NEW a \in Actors, NEW b \in Actors \ {a}, Perceive(a)
  PROVE  /\ owed'[b] = owed[b] /\ inbox'[b] = inbox[b] /\ pending'[b] = pending[b]
         /\ requests'[b] = requests[b] /\ held'[b] = held[b]
         /\ observed'[b] = observed[b] /\ undelivered'[b] = undelivered[b]
         /\ perception'[b] = perception[b]
<1> USE DEF Typed, TypeOK, Goto
<1>1. CASE Hear(a) \/ RecordObservation(a) \/ Set(a)
  BY <1>1 DEF Hear, RecordObservation, Set
<1>2. CASE Deliver(a)
  BY <1>2 DEF Deliver
<1>3. CASE Stop(a) \/ Deafen(a)
  <2>1. Abandon(a) /\ UNCHANGED <<owed, observed>> /\ perception'[b] = perception[b]
    BY <1>3 DEF Stop, Deafen, Abandon
  <2>2. CASE LosesLeftover(a)
    BY <2>1, <2>2 DEF LosesLeftover
  <2>3. CASE LogsLeftover(a)
    BY <2>1, <2>3 DEF LogsLeftover
  <2> QED
    BY <2>1, <2>2, <2>3, AbandonCases
<1>4. CASE Poll(a) \/ TakeControl(a) \/ HandStart(a) \/ Hand(a) \/ Fire(a) \/ Fired(a)
             \/ RecordRefused(a) \/ Close(a)
  BY <1>4 DEF Poll, TakeControl, HandStart, Hand, Fire, Fired, RecordRefused, Close
<1> QED
  BY <1>1, <1>2, <1>3, <1>4 DEF Perceive

\* A perception thread moves messages from place to place.
LEMMA PerceivePlaced ==
  ASSUME Typed, Placed, NEW a \in Actors, Perceive(a)
  PROVE  Placed'
<1>1. PlacedAt(a)'
  <2>1. CASE Hear(a) \/ RecordObservation(a) \/ Set(a) \/ Deliver(a) \/ Stop(a) \/ Deafen(a)
    BY <2>1, HearPlaced, ObservePlaced, SetPlaced, DeliverPlaced, AbandonPlaced DEF Placed, Stop, Deafen
  <2>2. CASE Poll(a) \/ TakeControl(a) \/ HandStart(a) \/ Hand(a) \/ Fire(a) \/ Fired(a)
               \/ RecordRefused(a) \/ Close(a)
    <3>1. UNCHANGED <<owed, inbox, pending, requests, held, observed, undelivered>>
      BY <2>2 DEF Poll, TakeControl, HandStart, Hand, Fire, Fired, RecordRefused, Close
    <3> QED
      BY <3>1, SamePlaces DEF Placed
  <2> QED
    BY <2>1, <2>2 DEF Perceive
<1>2. \A b \in Actors \ {a} : PlacedAt(b)'
  BY PerceiveElsewhere, SamePlaces DEF Placed
<1> QED
  BY <1>1, <1>2 DEF Placed

\* A message is routed to an inbox it has not been in.
LEMMA RoutedFresh ==
  ASSUME Typed, Numbered, NEW a \in Actors, Route(a)
  PROVE  \E b \in Actors \ {a} :
           /\ b = Head(route[a]) /\ ~Closed(b)
           /\ InHand(a) \in Key /\ InHand(a) \notin owed[b] /\ InHand(a) \in acted[a]
           /\ inbox' = [inbox EXCEPT ![b] = Append(@, InHand(a))]
           /\ owed' = [owed EXCEPT ![b] = @ \cup {InHand(a)}]
<1>1. PICK b \in Actors \ {a} : b = Head(route[a])
  BY RoutedWhom
<1>2. handler[a] = "routing" /\ route[a] \in Seq(Ids) /\ route[a] # << >>
  BY DEF Route, At, Typed, TypeOK
<1>3. OnItsWay(a) /\ 1 \in DOMAIN route[a] /\ route[a][1] = b
  BY <1>1, <1>2, TailOf DEF Numbered
<1>4. InHand(a) \notin owed[b] /\ InHand(a) \in acted[a] /\ InHand(a) \in Key
  BY <1>2, <1>3, InHandType DEF OnItsWay
<1>5. /\ ~Closed(b) /\ inbox' = [inbox EXCEPT ![b] = Append(@, InHand(a))]
      /\ owed' = [owed EXCEPT ![b] = @ \cup {InHand(a)}]
  BY <1>1 DEF Route
<1> QED
  BY <1>1, <1>4, <1>5

\* A reminder handed back is one the actor has not got already.
LEMMA HandedBackFresh ==
  ASSUME Typed, Numbered, NEW a \in Actors, HandBack(a)
  PROVE  \E s \in Nat, d \in Deadlines :
           /\ InHand(a) = <<a, s>> /\ <<a, s>> \in Key /\ <<a, s>> \notin owed[a]
           /\ [seq |-> s, at |-> d] \in Request
           /\ requests' = [requests EXCEPT ![a] = Append(@, [seq |-> s, at |-> d])]
           /\ owed' = [owed EXCEPT ![a] = @ \cup {<<a, s>>}]
<1>1. handler[a] = "reminding"
  BY DEF HandBack, At
<1>2. PICK s \in Nat : s = nextSeq[a] - 1
  BY <1>1, InHandType
<1>3. InHand(a) = <<a, s>> /\ <<a, s>> \in Key
  BY <1>2 DEF InHand, Key
<1>4. PICK d \in Deadlines : d = Current(a).at
  <2>1. items[a] # << >> /\ Current(a).kind = "remind"
    BY <1>1 DEF Typed, Carrying, Current
  <2> QED
    BY <2>1, CurrentItem, ItemKinds DEF Typed
<1>5. [seq |-> s, at |-> d] \in Request
  BY DEF Request
<1>6. <<a, s>> \notin owed[a]
  BY <1>1, <1>3 DEF Numbered, Accounted, OwnReminders, InHandNow
<1>7. /\ requests' = [requests EXCEPT ![a] = Append(@, [seq |-> s, at |-> d])]
      /\ owed' = [owed EXCEPT ![a] = @ \cup {<<a, s>>}]
  BY <1>2, <1>3, <1>4 DEF HandBack
<1> QED
  BY <1>3, <1>5, <1>6, <1>7

\* Of a handler thread's steps, one puts a message in an inbox and one among
\* the requests.
LEMMA OnlyRouteFills ==
  ASSUME NEW a \in Actors, Handle(a)
  PROVE  /\ ~Route(a) => UNCHANGED inbox
         /\ ~Route(a) /\ ~HandBack(a) => UNCHANGED <<inbox, requests, owed>>
<1>1. CASE Carry(a)
  BY <1>1 DEF Carry, Unsent, Act, Remember, BeginCommand, Pay, Skip
<1>2. CASE CarriedOut(a) \/ HandBackUnsent(a) \/ Return(a) \/ HangUp(a) \/ Tell(a)
  BY <1>2 DEF CarriedOut, HandBackUnsent, Return, HangUp, Tell
<1>3. CASE Breaks(a)
  BY <1>3 DEF Breaks, Break
<1>4. CASE Route(a) \/ HandBack(a)
  BY <1>4 DEF HandBack
<1> QED
  BY <1>1, <1>2, <1>3, <1>4
  DEF Handle, RouteRefused, TimerClosed, CommandRefused, PayRefused, Panics, WriterClosed, Breaks

\* A handler thread puts a message into one place.
LEMMA HandlePlaced ==
  ASSUME Typed, Numbered, Placed, NEW a \in Actors, Handle(a)
  PROVE  Placed'
<1>1. UNCHANGED <<pending, held, observed, undelivered>>
  BY HandlingLeaves
<1>2. CASE Route(a)
  <2>1. PICK b \in Actors :
          /\ InHand(a) \in Key /\ InHand(a) \notin owed[b]
          /\ inbox' = [inbox EXCEPT ![b] = Append(@, InHand(a))]
          /\ owed' = [owed EXCEPT ![b] = @ \cup {InHand(a)}]
    BY <1>2, RoutedFresh
  <2>2. PICK k \in Key : k = InHand(a)
    BY <2>1
  <2>3. /\ inbox[b] \in Seq(Key) /\ inbox'[b] = Append(inbox[b], k) /\ owed'[b] = owed[b] \cup {k}
        /\ k \notin owed[b] /\ UNCHANGED requests
    BY <1>2, <2>1, <2>2 DEF Route, Typed, TypeOK
  <2>4. Split(owed[b], Elements(inbox[b]), InHandOf(b), Own(b, Seqs(requests[b])),
             Own(b, HeldSeqs(held[b])), Elements(observed[b]), undelivered[b])
    BY DEF Placed, PlacedAt
  <2>5. /\ k \notin Elements(inbox[b])
        /\ Split(owed[b] \cup {k}, Elements(inbox[b]) \cup {k}, InHandOf(b), Own(b, Seqs(requests[b])),
             Own(b, HeldSeqs(held[b])), Elements(observed[b]), undelivered[b])
    BY <2>3, <2>4 DEF Split
  <2>6. Elements(inbox'[b]) = Elements(inbox[b]) \cup {k} /\ NoCopies(inbox'[b])
    BY <2>3, <2>5, AppendElements DEF Placed, PlacedAt
  <2>7. InHandOf(b)' = InHandOf(b)
    BY <1>1 DEF InHandOf
  <2>8. PlacedAt(b)'
    BY <1>1, <2>3, <2>5, <2>6, <2>7 DEF Placed, PlacedAt
  <2>9. \A c \in Actors \ {b} : owed'[c] = owed[c] /\ inbox'[c] = inbox[c]
    BY <2>1 DEF Typed, TypeOK
  <2>10. \A c \in Actors \ {b} : PlacedAt(c)'
    BY <1>1, <2>3, <2>9, SamePlaces DEF Placed
  <2> QED
    BY <2>8, <2>10 DEF Placed
<1>3. CASE HandBack(a)
  <2>1. PICK s \in Nat, d \in Deadlines :
          /\ <<a, s>> \notin owed[a] /\ [seq |-> s, at |-> d] \in Request
          /\ requests' = [requests EXCEPT ![a] = Append(@, [seq |-> s, at |-> d])]
          /\ owed' = [owed EXCEPT ![a] = @ \cup {<<a, s>>}]
    BY <1>3, HandedBackFresh
  <2>2. PICK r \in Request : r = [seq |-> s, at |-> d]
    BY <2>1
  <2>3. /\ requests[a] \in Seq(Request) /\ requests'[a] = Append(requests[a], r)
        /\ owed'[a] = owed[a] \cup {<<a, s>>} /\ r.seq = s /\ UNCHANGED inbox
    BY <1>3, <2>1, <2>2 DEF HandBack, Typed, TypeOK
  <2>4. Split(owed[a], Elements(inbox[a]), InHandOf(a), Own(a, Seqs(requests[a])),
             Own(a, HeldSeqs(held[a])), Elements(observed[a]), undelivered[a])
    BY DEF Placed, PlacedAt
  <2>5. /\ <<a, s>> \notin Own(a, Seqs(requests[a]))
        /\ Split(owed[a] \cup {<<a, s>>}, Elements(inbox[a]), InHandOf(a), Own(a, Seqs(requests[a])) \cup {<<a, s>>},
             Own(a, HeldSeqs(held[a])), Elements(observed[a]), undelivered[a])
    BY <2>1, <2>4 DEF Split
  <2>6. r.seq \notin Seqs(requests[a])
    BY <2>3, <2>5 DEF Own
  <2>7. Seqs(requests'[a]) = Seqs(requests[a]) \cup {s} /\ SeqsOnce(requests'[a])
    BY <2>3, <2>6, RequestsGrow DEF Placed, PlacedAt
  <2>8. Own(a, Seqs(requests'[a])) = Own(a, Seqs(requests[a])) \cup {<<a, s>>}
    BY <2>7 DEF Own
  <2>9. InHandOf(a)' = InHandOf(a)
    BY <1>1 DEF InHandOf
  <2>10. PlacedAt(a)'
    BY <1>1, <2>3, <2>5, <2>7, <2>8, <2>9 DEF Placed, PlacedAt
  <2>11. \A c \in Actors \ {a} : owed'[c] = owed[c] /\ requests'[c] = requests[c]
    BY <2>1 DEF Typed, TypeOK
  <2>12. \A c \in Actors \ {a} : PlacedAt(c)'
    BY <1>1, <2>3, <2>11, SamePlaces DEF Placed
  <2> QED
    BY <2>10, <2>12 DEF Placed
<1>4. CASE ~Route(a) /\ ~HandBack(a)
  BY <1>1, <1>4, OnlyRouteFills, SamePlaces DEF Placed
<1> QED
  BY <1>2, <1>3, <1>4

\* Every message is in one place of every actor's, whoever steps.
LEMMA PlacedStep ==
  ASSUME Typed, Numbered, Placed, [Next]_vars
  PROVE  Placed'
<1>1. CASE Run \/ TimeOut \/ LoseWriter \/ UNCHANGED vars
  <2>1. UNCHANGED <<owed, inbox, pending, requests, held, observed, undelivered>>
    BY <1>1 DEF Run, Start, AllReported, ReadDeparture, StopNext, Stopped, JoinStop, Join,
      TimeOut, LoseWriter, vars
  <2> QED
    BY <2>1, SamePlaces DEF Placed
<1> QED
  BY <1>1, PerceivePlaced, HandlePlaced DEF Next, Returned

\* So it is in every run.
LEMMA PlacedAlways == Spec => []Placed
<1>1. Init => Placed
  <2> SUFFICES ASSUME Init, NEW a \in Actors PROVE PlacedAt(a)
    BY DEF Placed
  <2>1. /\ owed[a] = {} /\ Elements(inbox[a]) = {} /\ InHandOf(a) = {} /\ Own(a, Seqs(requests[a])) = {}
        /\ Elements(observed[a]) = {} /\ undelivered[a] = {}
    BY DEF Init, Elements, InHandOf, Seqs, Own
  <2>2. Own(a, HeldSeqs(held[a])) = {} /\ HeldOnce(held[a])
    BY HeldNone DEF Init, Own
  <2> QED
    BY <2>1, <2>2 DEF Init, PlacedAt, Split, NoCopies, SeqsOnce
<1> QED
  BY <1>1, PlacedStep, TypedAlways, NumberedAlways, PTL DEF Spec

\* "Every action's recipient either observed it or has it logged undelivered",
\* and on the way there it is in exactly one place.
THEOREM MessagesAreInOnePlace == Spec => []EveryMessageInOnePlace
<1>1. Placed => EveryMessageInOnePlace
  <2> SUFFICES ASSUME Placed, NEW a \in Actors
               PROVE  /\ owed[a] = UNION {InPlaces(a)[i] : i \in 1 .. 6}
                      /\ \A i, j \in 1 .. 6 : i # j => InPlaces(a)[i] \cap InPlaces(a)[j] = {}
                      /\ NoCopies(inbox[a]) /\ NoCopies(observed[a])
    BY DEF EveryMessageInOnePlace
  <2> DEFINE parts == <<Elements(inbox[a]), InHandOf(a), Own(a, Seqs(requests[a])),
                        Own(a, HeldSeqs(held[a])), Elements(observed[a]), undelivered[a]>>
  <2>1. InPlaces(a) = parts
    BY DEF InPlaces, InHandOf, Seqs
  <2>2. /\ Split(owed[a], parts[1], parts[2], parts[3], parts[4], parts[5], parts[6])
        /\ NoCopies(inbox[a]) /\ NoCopies(observed[a])
    BY DEF Placed, PlacedAt
  <2> HIDE DEF parts
  <2>3. owed[a] = UNION {parts[i] : i \in 1 .. 6}
    <3>1. 1 .. 6 = {1, 2, 3, 4, 5, 6}
      OBVIOUS
    <3> QED
      BY <2>2, <3>1 DEF Split
  <2>4. \A i, j \in 1 .. 6 : i # j => parts[i] \cap parts[j] = {}
    BY <2>2 DEF Split
  <2> QED
    BY <2>1, <2>2, <2>3, <2>4
<1> QED
  BY <1>1, PlacedAlways, PTL

(***************************************************************************)
(* What a drain leaves.                                                    *)
(***************************************************************************)

\* An actor whose channels a step does not touch.
LEMMA StaysDrained ==
  ASSUME Drained, NEW a \in Actors, HungUp(a)' => HungUp(a), a \in failed => a \in failed',
         stopped'[a] = stopped[a], pending'[a] = pending[a], held'[a] = held[a],
         inbox'[a] = inbox[a], requests'[a] = requests[a],
         handler'[a] = "reminding" => handler[a] = "reminding"
  PROVE  DrainedAt(a)'
  BY DEF Drained, DrainedAt, HungUp

\* A perception thread that gives up drains its channels, or fails.
LEMMA PerceiveDrained ==
  ASSUME Typed, Halting, Drained, NEW a \in Actors, Perceive(a)
  PROVE  Drained'
<1> USE DEF Typed
<1>1. ASSUME NEW b \in Actors \ {a}
      PROVE  /\ perception'[b] = perception[b] /\ (b \in failed => b \in failed')
             /\ stopped'[b] = stopped[b] /\ pending'[b] = pending[b] /\ held'[b] = held[b]
             /\ inbox'[b] = inbox[b] /\ requests'[b] = requests[b] /\ handler'[b] = handler[b]
  <2>1. CASE Poll(a) \/ TakeControl(a)
    BY <1>1, <2>1 DEF TypeOK, Goto, Poll, TakeControl
  <2>2. CASE HandStart(a) \/ Hand(a)
    BY <1>1, <2>2 DEF TypeOK, Goto, HandStart, Hand, Meet
  <2>3. CASE Hear(a) \/ RecordObservation(a)
    BY <1>1, <2>3 DEF TypeOK, Goto, Hear, RecordObservation
  <2>4. CASE Set(a) \/ Fire(a) \/ Fired(a)
    BY <1>1, <2>4 DEF TypeOK, Goto, Set, Fire, Fired
  <2>5. CASE Deliver(a)
    BY <1>1, <2>5 DEF TypeOK, Goto, Deliver
  <2>6. CASE Stop(a) \/ Deafen(a)
    BY <1>1, <2>6 DEF TypeOK, Goto, Stop, Deafen, Abandon
  <2>7. CASE RecordRefused(a) \/ Close(a)
    BY <1>1, <2>7 DEF TypeOK, Goto, RecordRefused, Close
  <2> QED
    BY <2>1, <2>2, <2>3, <2>4, <2>5, <2>6, <2>7 DEF Perceive
<1>2. ASSUME NEW b \in Actors \ {a} PROVE DrainedAt(b)'
  <2>1. HungUp(b)' => HungUp(b)
    BY <1>1 DEF HungUp
  <2> QED
    BY <1>1, <2>1, StaysDrained
<1>3. DrainedAt(a)'
  <2> USE DEF DrainedAt
  <2>1. CASE Poll(a) \/ TakeControl(a) \/ HandStart(a) \/ Hand(a) \/ Hear(a) \/ RecordObservation(a)
               \/ Set(a) \/ Fire(a) \/ Deliver(a) \/ Fired(a)
    <3>1. perception' = perception \/ \E place \in Place \ {"closing", "ended"} :
            perception' = [perception EXCEPT ![a] = place]
      BY <2>1 DEF Goto, Place, Poll, TakeControl, HandStart, Hand, Hear, RecordObservation,
        Set, Fire, Deliver, Fired
    <3>2. perception[a] \notin {"closing", "ended"}
      BY <2>1 DEF Poll, TakeControl, HandStart, Hand, Hear, RecordObservation, Set, Fire, Deliver, Fired
    <3>3. ~HungUp(a)'
      BY <3>1, <3>2 DEF TypeOK, HungUp
    <3> QED
      BY <3>3
  <2>2. CASE Stop(a)
    <3>1. CASE LosesLeftover(a)
      BY <3>1 DEF LosesLeftover
    <3>2. CASE LogsLeftover(a)
      <4>1. stopped'[a] = TRUE
        BY <2>2 DEF TypeOK, Stop
      <4>2. pending'[a] = NoKey /\ held'[a] = Nothing(Deadlines) /\ inbox'[a] = << >> /\ requests'[a] = << >>
        BY <3>2 DEF TypeOK, LogsLeftover
      <4> QED
        BY <4>1, <4>2
    <3> QED
      BY <2>2, <3>1, <3>2, AbandonCases DEF Stop
  <2>3. CASE Deafen(a) \/ RecordRefused(a)
    <3>1. perception[a] \in {"starting", "selecting", "polling", "recording"} /\ failed \subseteq failed'
      BY <2>3 DEF Deafen, Abandon, RecordRefused
    <3>2. a \in failed'
      BY <2>3, <3>1 DEF Halting, HungUp, HandlerGone, Deafen, RecordRefused
    <3> QED
      BY <3>2
  <2>4. CASE Close(a)
    <3>1. /\ UNCHANGED <<inbox, requests, pending, held, handler, stopped, failed>>
          /\ HungUp(a)
      BY <2>4 DEF Close, HungUp
    <3> QED
      BY <3>1 DEF Drained
  <2> QED
    BY <2>1, <2>2, <2>3, <2>4 DEF Perceive
<1> QED
  BY <1>2, <1>3 DEF Drained

\* A handler thread hands one reminder back too late at the most.
LEMMA HandleDrained ==
  ASSUME Typed, Drained, NEW a \in Actors, Handle(a)
  PROVE  Drained'
<1> USE DEF Typed
<1>1. UNCHANGED <<perception, pending, held, stopped>>
  BY HandlingLeaves
<1>2. CASE HandBack(a)
  <2>1. /\ handler[a] = "reminding" /\ handler' = [handler EXCEPT ![a] = "calling"]
        /\ UNCHANGED <<inbox, failed>>
        /\ \E r \in Request : requests' = [requests EXCEPT ![a] = Append(@, r)]
    <3>1. Current(a).at \in Deadlines
      BY <1>2, CurrentItem, ItemKinds DEF Carrying, HandBack, At, Current
    <3>2. [seq |-> nextSeq[a] - 1, at |-> Current(a).at] \in Request
      BY <1>2, <3>1, InHandType DEF HandBack, At, Request
    <3> QED
      BY <1>2, <3>2 DEF HandBack, At, Goes
  <2>2. ASSUME NEW b \in Actors \ {a}
        PROVE  requests'[b] = requests[b] /\ handler'[b] = handler[b]
    BY <2>1 DEF TypeOK
  <2>3. handler'[a] = "calling" /\ (requests[a] = << >> => Len(requests'[a]) = 1)
    BY <2>1 DEF TypeOK
  <2> QED
    BY <1>1, <2>1, <2>2, <2>3 DEF Drained, DrainedAt, HungUp
<1>3. CASE Route(a)
  <2>1. /\ UNCHANGED <<requests, handler, failed>>
        /\ inbox' = [inbox EXCEPT ![Head(route[a])] = Append(@, InHand(a))]
        /\ Head(route[a]) # a /\ InHand(a)[1] = a
    BY <1>3, RoutedWhom DEF Route, InHand
  <2>2. Head(route[a]) \in Actors /\ InHand(a) \in Key
    BY <1>3, RoutedWhom, InHandType DEF Route, At
  <2>3. ASSUME NEW b \in Actors
        PROVE  (\A i \in DOMAIN inbox[b] : inbox[b][i][1] # b) =>
                 \A i \in DOMAIN inbox'[b] : inbox'[b][i][1] # b
    <3>1. CASE b # Head(route[a])
      BY <2>1, <3>1 DEF TypeOK
    <3>2. CASE b = Head(route[a])
      <4>1. inbox[b] \in Seq(Key) /\ inbox'[b] = Append(inbox[b], InHand(a)) /\ InHand(a)[1] # b
        BY <2>1, <3>2 DEF TypeOK
      <4> QED
        BY <2>2, <4>1, AppendedTo
    <3> QED
      BY <3>1, <3>2
  <2> QED
    BY <1>1, <2>1, <2>3 DEF Drained, DrainedAt, HungUp
<1>4. CASE ~HandBack(a) /\ ~Route(a)
  <2>1. UNCHANGED <<inbox, requests>> /\ failed \subseteq failed'
    BY <1>4, OnlyRouteFills, HandlerMoves
  <2>2. \A b \in Actors \ {a} : handler'[b] = handler[b]
    BY HandlerMoves DEF TypeOK
  <2>3. handler'[a] = "reminding" => handler[a] = "reminding" \/ ~stopped[a]
    <3>1. CASE Carry(a)
      BY <3>1 DEF TypeOK, Goes, Carry, Unsent, Act, Remember, BeginCommand, Pay, Skip
    <3>2. CASE CarriedOut(a) \/ HandBackUnsent(a) \/ Return(a) \/ Tell(a)
      BY <3>2 DEF TypeOK, Goes, CarriedOut, HandBackUnsent, Return, Tell
    <3>3. CASE HangUp(a) \/ Breaks(a)
      BY <3>3 DEF TypeOK, Goes, HangUp, Breaks, Break, End
    <3> QED
      BY <1>4, <3>1, <3>2, <3>3
      DEF Handle, RouteRefused, TimerClosed, CommandRefused, PayRefused, Panics, WriterClosed, Breaks
  <2>4. ASSUME NEW b \in Actors, HungUp(b)', b \notin failed'
        PROVE  handler'[b] = "reminding" => handler[b] = "reminding"
    <3>1. HungUp(b) /\ b \notin failed
      BY <1>1, <2>1, <2>4 DEF HungUp
    <3>2. stopped[b]
      BY <3>1 DEF Drained, DrainedAt
    <3> QED
      BY <2>2, <2>3, <3>2
  <2> QED
    BY <1>1, <2>1, <2>4 DEF Drained, DrainedAt, HungUp
<1> QED
  BY <1>2, <1>3, <1>4

\* What is left after a drain stays so, whoever steps.
LEMMA DrainedStep ==
  ASSUME Typed, Halting, Drained, [Next]_vars
  PROVE  Drained'
<1>1. CASE Run \/ TimeOut \/ LoseWriter \/ UNCHANGED vars
  <2>1. UNCHANGED <<perception, pending, held, stopped, inbox, requests, handler, failed>>
    BY <1>1 DEF Run, Start, AllReported, ReadDeparture, StopNext, Stopped, JoinStop, Join,
      TimeOut, LoseWriter, vars
  <2> QED
    BY <2>1 DEF Drained, DrainedAt, HungUp
<1> QED
  BY <1>1, PerceiveDrained, HandleDrained DEF Next, Returned

\* So it is in every run.
LEMMA DrainedAlways == Spec => []Drained
<1>1. Init => Drained
  BY DEF Init, Drained, DrainedAt, HungUp
<1> QED
  BY <1>1, DrainedStep, TypedAlways, HaltingAlways, PTL DEF Spec

\* Of an actor that has not failed every number is an action's, an unsent
\* message's, a reminder's or the one in hand, each the number of one thing
\* only; and once its perception has given up every reminder it handed back is
\* observed or undelivered, but for one at the most that came too late.
THEOREM NumbersAreAccountedFor == Spec => []EveryNumberAccountedFor
<1>1. Numbered /\ Placed /\ Drained => EveryNumberAccountedFor
  <2> SUFFICES ASSUME Numbered, Placed, Drained, NEW a \in Actors
               PROVE  LET parts == <<acted[a], unsent[a], OwnReminders(a), InHandNow(a)>>
                      IN  /\ \A i, j \in 1 .. 4 : i # j => parts[i] \cap parts[j] = {}
                          /\ a \notin failed =>
                               /\ Own(a, 0 .. nextSeq[a] - 1) = UNION {parts[i] : i \in 1 .. 4}
                               /\ HungUp(a) => OwnReminders(a) \subseteq
                                     Elements(observed[a]) \cup undelivered[a] \cup Overtaken(a)
                               /\ \A k, l \in Overtaken(a) : k = l
    BY DEF EveryNumberAccountedFor
  <2> DEFINE parts == <<acted[a], unsent[a], OwnReminders(a), InHandNow(a)>>
  <2>1. UNION {parts[i] : i \in 1 .. 4} = acted[a] \cup unsent[a] \cup OwnReminders(a) \cup InHandNow(a)
    OBVIOUS
  <2>2. \A i, j \in 1 .. 4 : i # j => parts[i] \cap parts[j] = {}
    BY DEF Numbered, Accounted
  <2>3. a \notin failed =>
          Own(a, 0 .. nextSeq[a] - 1) = acted[a] \cup unsent[a] \cup OwnReminders(a) \cup InHandNow(a)
    BY DEF Numbered, Accounted
  <2>4. ASSUME a \notin failed, HungUp(a)
        PROVE  OwnReminders(a) \subseteq Elements(observed[a]) \cup undelivered[a] \cup Overtaken(a)
    <3>1. pending[a] = NoKey /\ held[a] = Nothing(Deadlines)
          /\ \A i \in DOMAIN inbox[a] : inbox[a][i][1] # a
      BY <2>4 DEF Drained, DrainedAt
    <3>2. InHandOf(a) = {} /\ Own(a, HeldSeqs(held[a])) = {}
      BY <3>1, HeldNone DEF InHandOf, Own
    <3>3. \A k \in Elements(inbox[a]) : k[1] # a
      BY <3>1 DEF Elements
    <3>4. Overtaken(a) = Own(a, Seqs(requests[a]))
      BY <2>4 DEF Overtaken, Seqs
    <3>5. owed[a] = Elements(inbox[a]) \cup InHandOf(a) \cup Own(a, Seqs(requests[a]))
                      \cup Own(a, HeldSeqs(held[a])) \cup Elements(observed[a]) \cup undelivered[a]
      BY DEF Placed, PlacedAt, Split
    <3> QED
      BY <3>2, <3>3, <3>4, <3>5 DEF OwnReminders
  <2>5. ASSUME a \notin failed PROVE \A k, l \in Overtaken(a) : k = l
    <3>1. CASE HungUp(a)
      <4>1. \A i, j \in DOMAIN requests[a] : i = j
        BY <2>5, <3>1 DEF Drained, DrainedAt
      <4> QED
        BY <4>1 DEF Overtaken, Own
    <3>2. CASE ~HungUp(a)
      BY <3>2 DEF Overtaken
    <3> QED
      BY <3>1, <3>2
  <2> QED
    BY <2>1, <2>2, <2>3, <2>4, <2>5
<1> QED
  BY <1>1, NumberedAlways, PlacedAlways, DrainedAlways, PTL

\* Nothing is observed, or left undelivered, that nobody sent.
THEOREM ObservationsWereSent == Spec => []EveryObservationWasSent
<1>1. Numbered /\ Placed => EveryObservationWasSent
  BY DEF Numbered, Placed, PlacedAt, Split, EveryObservationWasSent
<1> QED
  BY <1>1, NumberedAlways, PlacedAlways, PTL

(***************************************************************************)
(* Order.                                                                  *)
(***************************************************************************)

\* A sequence that rises, with one more that comes after all from b, and one
\* fewer at the front.
LEMMA RisingAppend ==
  ASSUME NEW b, NEW q \in Seq(Key), NEW k \in Key, Rising(b, q), Before(b, Elements(q), {k})
  PROVE  Rising(b, Append(q, k))
<1> USE AppendedTo
<1> DEFINE r == Append(q, k)
<1>1. /\ DOMAIN q = 1 .. Len(q) /\ DOMAIN r = 1 .. Len(q) + 1 /\ Len(q) \in Nat
      /\ \A i \in DOMAIN q : r[i] = q[i]
      /\ r[Len(q) + 1] = k
  OBVIOUS
<1> HIDE DEF r
<1> SUFFICES ASSUME NEW i \in DOMAIN r, NEW j \in DOMAIN r, i < j, r[i][1] = b, r[j][1] = b
             PROVE  r[i][2] < r[j][2]
  BY DEF Rising, r
<1>2. i \in DOMAIN q /\ r[i] = q[i]
  BY <1>1
<1>3. CASE j \in DOMAIN q
  BY <1>1, <1>2, <1>3 DEF Rising
<1>4. CASE j = Len(q) + 1
  BY <1>1, <1>2, <1>4 DEF Before, Elements
<1> QED
  BY <1>1, <1>3, <1>4

\* What is left of a rising queue rises, and comes after what was taken.
LEMMA RisingTail ==
  ASSUME NEW b, NEW q \in Seq(Key), q # << >>, Rising(b, q)
  PROVE  Rising(b, Tail(q)) /\ Before(b, {Head(q)}, Elements(Tail(q)))
<1> DEFINE t == Tail(q)
<1>1. /\ Head(q) = q[1] /\ 1 \in DOMAIN q /\ DOMAIN t = 1 .. Len(q) - 1 /\ Len(q) \in Nat
      /\ \A i \in DOMAIN t : i + 1 \in DOMAIN q /\ t[i] = q[i + 1]
  BY TailOf
<1> HIDE DEF t
<1>2. Rising(b, t)
  <2> SUFFICES ASSUME NEW i \in DOMAIN t, NEW j \in DOMAIN t, i < j, t[i][1] = b, t[j][1] = b
               PROVE  t[i][2] < t[j][2]
    BY DEF Rising
  <2>1. i + 1 < j + 1 /\ i + 1 \in DOMAIN q /\ j + 1 \in DOMAIN q /\ t[i] = q[i + 1] /\ t[j] = q[j + 1]
    BY <1>1
  <2> QED
    BY <2>1 DEF Rising
<1>3. Before(b, {Head(q)}, Elements(t))
  <2> SUFFICES ASSUME NEW i \in DOMAIN t, q[1][1] = b, t[i][1] = b PROVE q[1][2] < t[i][2]
    BY <1>1 DEF Before, Elements
  <2>1. 1 < i + 1 /\ i + 1 \in DOMAIN q /\ t[i] = q[i + 1]
    BY <1>1
  <2> QED
    BY <1>1, <2>1 DEF Rising
<1> QED
  BY <1>2, <1>3 DEF t

\* What one actor sends another, at that other.
OrderedFrom(a, b) ==
  /\ Rising(b, observed[a]) /\ Rising(b, inbox[a])
  /\ Before(b, Elements(observed[a]), InHandOf(a) \cup Elements(inbox[a]) \cup undelivered[a])
  /\ Before(b, InHandOf(a), Elements(inbox[a]))

\* An actor whose queues a step does not touch.
LEMMA SameOrder ==
  ASSUME NEW a \in Actors, NEW b \in Actors, OrderedFrom(a, b), inbox'[a] = inbox[a],
         pending'[a] = pending[a], observed'[a] = observed[a], undelivered'[a] = undelivered[a]
  PROVE  OrderedFrom(a, b)'
  BY DEF OrderedFrom, InHandOf, Rising, Before

\* The oldest message is taken in hand first.
LEMMA HearOrdered ==
  ASSUME Typed, NEW a \in Actors, NEW b \in Actors \ {a}, OrderedFrom(a, b), Hear(a)
  PROVE  OrderedFrom(a, b)'
<1>1. inbox[a] \in Seq(Key) /\ inbox[a] # << >>
  BY DEF Typed, TypeOK, Hear
<1>2. /\ inbox'[a] = Tail(inbox[a]) /\ pending'[a] = Head(inbox[a])
      /\ UNCHANGED <<observed, undelivered>>
  BY DEF Typed, TypeOK, Hear
<1>3. Elements(inbox[a]) = Elements(inbox'[a]) \cup {pending'[a]}
  BY <1>1, <1>2, TailElements
<1>4. Rising(b, inbox'[a]) /\ Before(b, {pending'[a]}, Elements(inbox'[a]))
  BY <1>1, <1>2, RisingTail DEF OrderedFrom
<1>5. InHandOf(a)' \subseteq {pending'[a]}
  BY DEF InHandOf
<1>6. Before(b, Elements(observed[a]), InHandOf(a)' \cup Elements(inbox'[a]) \cup undelivered[a])
  BY <1>3, <1>5 DEF OrderedFrom, Before
<1>7. Before(b, InHandOf(a)', Elements(inbox'[a]))
  BY <1>4, <1>5 DEF Before
<1> QED
  BY <1>2, <1>4, <1>6, <1>7 DEF OrderedFrom

\* The one in hand is observed before any that is still in the inbox.
LEMMA ObserveOrdered ==
  ASSUME Typed, Ordered, NEW a \in Actors, NEW b \in Actors \ {a}, OrderedFrom(a, b), RecordObservation(a)
  PROVE  OrderedFrom(a, b)'
<1>1. observed[a] \in Seq(Key) /\ pending[a] \in Key /\ pending[a] # NoKey
  BY DEF Typed, TypeOK, HandingOver, RecordObservation
<1>2. /\ observed'[a] = Append(observed[a], pending[a]) /\ pending'[a] = NoKey
      /\ UNCHANGED <<inbox, undelivered>>
  BY DEF Typed, TypeOK, RecordObservation
<1>3. InHandOf(a) = {pending[a]} /\ InHandOf(a)' = {}
  BY <1>1, <1>2 DEF InHandOf
<1>4. undelivered[a] = {}
  BY DEF Ordered, HungUp, RecordObservation
<1>5. Rising(b, observed'[a])
  <2>1. Rising(b, observed[a]) /\ Before(b, Elements(observed[a]), {pending[a]})
    BY <1>3 DEF OrderedFrom, Before
  <2> QED
    BY <1>1, <1>2, <2>1, RisingAppend
<1>6. Elements(observed'[a]) = Elements(observed[a]) \cup {pending[a]}
  BY <1>1, <1>2, AppendElements
<1>7. Before(b, Elements(observed'[a]), Elements(inbox[a]))
  BY <1>3, <1>6 DEF OrderedFrom, Before
<1> QED
  BY <1>2, <1>3, <1>4, <1>5, <1>7 DEF OrderedFrom, Before

\* A reminder is nobody else's message.
LEMMA DeliverOrdered ==
  ASSUME Typed, NEW a \in Actors, NEW b \in Actors \ {a}, OrderedFrom(a, b), Deliver(a)
  PROVE  OrderedFrom(a, b)'
<1>1. PICK d \in Deadlines :
        /\ held[a][d] # << >>
        /\ inbox' = [inbox EXCEPT ![a] = Append(@, <<a, Head(held[a][d])>>)]
  BY DEF Deliver, Due, IsEarliest, Waiting
<1>2. inbox[a] \in Seq(Key) /\ held[a][d] \in Seq(Nat)
  BY DEF Typed, TypeOK
<1>3. PICK k \in Key : k = <<a, Head(held[a][d])>>
  BY <1>1, <1>2, HeadTail DEF Key
<1>4. k[1] # b
  BY <1>3
<1>5. inbox'[a] = Append(inbox[a], k) /\ UNCHANGED <<pending, observed, undelivered>>
  BY <1>1, <1>3 DEF Typed, TypeOK, Deliver
<1>6. Elements(inbox'[a]) = Elements(inbox[a]) \cup {k}
  BY <1>2, <1>5, AppendElements
<1>7. Rising(b, inbox'[a])
  <2>1. Rising(b, inbox[a]) /\ Before(b, Elements(inbox[a]), {k})
    BY <1>4 DEF OrderedFrom, Before
  <2> QED
    BY <1>2, <1>5, <2>1, RisingAppend
<1>8. InHandOf(a)' = InHandOf(a)
  BY <1>5 DEF InHandOf
<1>9. /\ Before(b, Elements(observed[a]), InHandOf(a) \cup Elements(inbox'[a]) \cup undelivered[a])
      /\ Before(b, InHandOf(a), Elements(inbox'[a]))
  BY <1>4, <1>6 DEF OrderedFrom, Before
<1> QED
  BY <1>5, <1>7, <1>8, <1>9 DEF OrderedFrom

\* What is abandoned comes after everything observed.
LEMMA AbandonOrdered ==
  ASSUME Typed, NEW a \in Actors, NEW b \in Actors \ {a}, OrderedFrom(a, b), Abandon(a)
  PROVE  OrderedFrom(a, b)'
<1>1. UNCHANGED observed
  BY DEF Abandon
<1>2. CASE LosesLeftover(a)
  BY <1>1, <1>2, SameOrder DEF LosesLeftover
<1>3. CASE LogsLeftover(a)
  <2>1. /\ undelivered'[a] = undelivered[a] \cup Leftover(a) /\ pending'[a] = NoKey
        /\ inbox'[a] = << >>
    BY <1>3 DEF Typed, TypeOK, LogsLeftover
  <2>2. Elements(inbox'[a]) = {} /\ InHandOf(a)' = {} /\ Rising(b, inbox'[a])
    BY <2>1 DEF Elements, InHandOf, Rising
  <2>3. \A k \in Leftover(a) : k[1] = b => k \in InHandOf(a) \cup Elements(inbox[a])
    BY DEF Leftover, Own, InHandOf
  <2>4. Before(b, Elements(observed[a]), undelivered'[a])
    BY <2>1, <2>3 DEF OrderedFrom, Before
  <2> QED
    BY <1>1, <2>2, <2>4 DEF OrderedFrom, Before
<1> QED
  BY <1>2, <1>3, AbandonCases

\* No step of a perception brings one sender's messages out of order.
LEMMA PerceiveOrdered ==
  ASSUME Typed, Ordered, NEW a \in Actors, Perceive(a)
  PROVE  Ordered'
<1>1. ASSUME NEW b \in Actors \ {a} PROVE OrderedFrom(a, b)'
  <2>1. OrderedFrom(a, b)
    BY DEF Ordered, OrderedFrom
  <2>2. CASE Hear(a) \/ RecordObservation(a) \/ Deliver(a) \/ Stop(a) \/ Deafen(a)
    BY <2>1, <2>2, HearOrdered, ObserveOrdered, DeliverOrdered, AbandonOrdered DEF Stop, Deafen
  <2>3. CASE Poll(a) \/ TakeControl(a) \/ HandStart(a) \/ Hand(a) \/ Set(a) \/ Fire(a) \/ Fired(a)
               \/ RecordRefused(a) \/ Close(a)
    <3>1. UNCHANGED <<inbox, pending, observed, undelivered>>
      BY <2>3 DEF Poll, TakeControl, HandStart, Hand, Set, Fire, Fired, RecordRefused, Close
    <3> QED
      BY <2>1, <3>1, SameOrder
  <2> QED
    BY <2>2, <2>3 DEF Perceive
<1>2. ASSUME NEW c \in Actors \ {a}, NEW b \in Actors \ {c} PROVE OrderedFrom(c, b)'
  <2>1. /\ inbox'[c] = inbox[c] /\ pending'[c] = pending[c]
        /\ observed'[c] = observed[c] /\ undelivered'[c] = undelivered[c]
    BY PerceiveElsewhere
  <2> QED
    BY <2>1, SameOrder DEF Ordered, OrderedFrom
<1>3. ASSUME NEW c \in Actors PROVE undelivered'[c] # {} => HungUp(c)'
  <2>1. CASE c # a
    BY <2>1, PerceiveElsewhere DEF Ordered, HungUp
  <2>2. CASE c = a
    <3>1. CASE Stop(a) \/ Deafen(a)
      <4>1. perception' = [perception EXCEPT ![a] = "closing"]
        BY <3>1 DEF Stop, Deafen, Abandon, Goto
      <4> QED
        BY <2>2, <4>1 DEF HungUp, Typed, TypeOK
    <3>2. CASE ~Stop(a) /\ ~Deafen(a)
      <4>1. UNCHANGED undelivered
        BY <3>2 DEF Perceive, Poll, TakeControl, HandStart, Hear, Hand, RecordObservation, Set,
          Fire, Deliver, Fired, RecordRefused, Close
      <4>2. HungUp(a) => HungUp(a)'
        <5> SUFFICES ASSUME HungUp(a) PROVE HungUp(a)'
          OBVIOUS
        <5>1. Close(a)
          BY <3>2 DEF HungUp, Perceive, Poll, TakeControl, HandStart, Hear, Hand, RecordObservation,
            Set, Fire, Deliver, Fired, RecordRefused
        <5> QED
          BY <5>1 DEF Close, Goto, HungUp, Typed, TypeOK
      <4> QED
        BY <2>2, <4>1, <4>2 DEF Ordered
    <3> QED
      BY <3>1, <3>2
  <2> QED
    BY <2>1, <2>2
<1> QED
  BY <1>1, <1>2, <1>3 DEF Ordered, OrderedFrom

\* A message that is routed is the last its sender has sent.
LEMMA RouteOrdered ==
  ASSUME Typed, Numbered, Placed, Ordered, NEW a \in Actors, Route(a)
  PROVE  Ordered'
<1>1. PICK to \in Actors \ {a} :
        /\ InHand(a) \in Key /\ InHand(a) \notin owed[to]
        /\ inbox' = [inbox EXCEPT ![to] = Append(@, InHand(a))]
  BY RoutedFresh
<1>2. PICK k \in Key : k = InHand(a)
  BY <1>1
<1>3. /\ inbox[to] \in Seq(Key) /\ inbox'[to] = Append(inbox[to], k)
      /\ UNCHANGED <<pending, observed, undelivered, perception>>
      /\ \A c \in Actors \ {to} : inbox'[c] = inbox[c]
  BY <1>1, <1>2 DEF Route, Typed, TypeOK
<1>4. k[1] = a /\ k[2] = nextSeq[a] - 1 /\ nextSeq[a] \in Nat
  BY <1>2 DEF InHand, Typed, TypeOK
<1>5. Before(a, owed[to], {k})
  <2> SUFFICES ASSUME NEW m \in owed[to], m[1] = a PROVE m[2] < k[2]
    BY DEF Before
  <2>1. m \in Key /\ m # k /\ m[2] < nextSeq[a]
    BY <1>1, <1>2 DEF Typed, TypeOK, Numbered
  <2>2. m = <<m[1], m[2]>> /\ k = <<k[1], k[2]>> /\ m[2] \in Nat
    BY <2>1 DEF Key
  <2>3. m[2] # k[2]
    BY <1>4, <2>1, <2>2
  <2> QED
    BY <1>4, <2>1, <2>2, <2>3
<1>6. Elements(inbox[to]) \cup InHandOf(to) \cup Elements(observed[to]) \subseteq owed[to]
  BY DEF Placed, PlacedAt, Split
<1>7. Elements(inbox'[to]) = Elements(inbox[to]) \cup {k}
  BY <1>3, AppendElements
<1>8. ASSUME NEW b \in Actors \ {to} PROVE OrderedFrom(to, b)'
  <2>1. OrderedFrom(to, b)
    BY DEF Ordered, OrderedFrom
  <2>2. Before(b, owed[to], {k})
    BY <1>4, <1>5 DEF Before
  <2>3. Rising(b, inbox'[to])
    <3>1. Before(b, Elements(inbox[to]), {k})
      BY <1>6, <2>2 DEF Before
    <3> QED
      BY <1>3, <2>1, <3>1, RisingAppend DEF OrderedFrom
  <2>4. /\ Before(b, Elements(observed[to]), InHandOf(to) \cup Elements(inbox'[to]) \cup undelivered[to])
        /\ Before(b, InHandOf(to), Elements(inbox'[to]))
    BY <1>6, <1>7, <2>1, <2>2 DEF OrderedFrom, Before
  <2>5. InHandOf(to)' = InHandOf(to)
    BY <1>3 DEF InHandOf
  <2> QED
    BY <1>3, <2>1, <2>3, <2>4, <2>5 DEF OrderedFrom
<1>9. ASSUME NEW c \in Actors \ {to}, NEW b \in Actors \ {c} PROVE OrderedFrom(c, b)'
  BY <1>3, SameOrder DEF Ordered, OrderedFrom
<1>10. \A c \in Actors : undelivered'[c] # {} => HungUp(c)'
  BY <1>3 DEF Ordered, HungUp
<1> QED
  BY <1>8, <1>9, <1>10 DEF Ordered, OrderedFrom

\* The order is kept, whoever steps.
LEMMA OrderedStep ==
  ASSUME Typed, Numbered, Placed, Ordered, [Next]_vars
  PROVE  Ordered'
<1>1. ASSUME UNCHANGED <<inbox, pending, observed, undelivered, perception>> PROVE Ordered'
  BY <1>1, SameOrder DEF Ordered, OrderedFrom, HungUp
<1>2. ASSUME NEW a \in Actors, Handle(a), ~Route(a) PROVE Ordered'
  BY <1>1, <1>2, HandlingLeaves, OnlyRouteFills
<1>3. CASE Run \/ TimeOut \/ LoseWriter \/ UNCHANGED vars
  <2>1. UNCHANGED <<inbox, pending, observed, undelivered, perception>>
    BY <1>3 DEF Run, Start, AllReported, ReadDeparture, StopNext, Stopped, JoinStop, Join,
      TimeOut, LoseWriter, vars
  <2> QED
    BY <1>1, <2>1
<1> QED
  BY <1>2, <1>3, PerceiveOrdered, RouteOrdered DEF Next, Returned

\* So it is in every run.
LEMMA OrderedAlways == Spec => []Ordered
<1>1. Init => Ordered
  BY DEF Init, Ordered, Rising, Before, Elements, InHandOf
<1> QED
  BY <1>1, OrderedStep, TypedAlways, NumberedAlways, PlacedAlways, PTL DEF Spec

\* What one actor sends another is observed in the order it was sent, and what
\* a stop left undelivered was sent after all that was observed.
THEOREM ObservationsAreInOrder == Spec => []ObservedInSendingOrder
<1>1. Ordered => ObservedInSendingOrder
  BY DEF Ordered, ObservedInSendingOrder, Rising, Before, Elements
<1> QED
  BY <1>1, OrderedAlways, PTL

(***************************************************************************)
(* The threads of an episode keep its contract (EpisodeContract): every    *)
(* step of theirs is a step of the contract's or changes nothing the       *)
(* contract speaks of.                                                     *)
(*                                                                         *)
(* A step is not one of the contract's by itself.  That what an actor      *)
(* observes or gives up was entrusted to it and has had no other fate is   *)
(* Placed; that an actor is stopped once, and gives up unbidden only if it *)
(* failed, is Halting; that nothing happens after the answer, and what the *)
(* answer is, is Answering (EpisodeProofs).                                *)
(***************************************************************************)

\* What the contract sees of a step.
StoppedActors == {a \in Actors : stopped[a]}
ObservedSets  == [a \in Actors |-> Elements(observed[a])]

\* A step the contract does not see.
Unseen == UNCHANGED <<stopped, failed, owed, observed, undelivered, outcome>>

\* Such a step is a stutter of the contract's.
LEMMA UnseenStutters ==
  ASSUME Unseen
  PROVE  UNCHANGED Contract!vars
  BY DEF Unseen, Contract!vars

\* What may yet become of a message: what is open to the contract is what is in
\* none of the two last places.
LEMMA OpenPlaces ==
  ASSUME Typed, Placed, NEW a \in Actors
  PROVE  /\ Contract!Open(a) = owed[a] \ (Elements(observed[a]) \cup undelivered[a])
         /\ InHandOf(a) \subseteq Contract!Open(a)
         /\ Leftover(a) \subseteq Contract!Open(a)
<1>1. Contract!Open(a) = owed[a] \ (Elements(observed[a]) \cup undelivered[a])
  BY DEF Contract!Open
<1>2. Split(owed[a], Elements(inbox[a]), InHandOf(a), Own(a, Seqs(requests[a])),
             Own(a, HeldSeqs(held[a])), Elements(observed[a]), undelivered[a])
  BY DEF Placed, PlacedAt
<1>3. Leftover(a) = InHandOf(a) \cup Elements(inbox[a])
                      \cup Own(a, HeldSeqs(held[a])) \cup Own(a, Seqs(requests[a]))
  BY OwnOf DEF Leftover, Reminders, InHandOf, Seqs
<1> QED
  BY <1>1, <1>2, <1>3 DEF Split

\* While a handler thread runs, or one of perception that can still write a
\* record, nothing has been answered.
LEMMA NotAnswered ==
  ASSUME Answering, NEW a \in Actors,
         ~HandlerGone(a) \/ (perception[a] # "ended" /\ writer = "open")
  PROVE  outcome = "none"
  BY DEF Answering, Joined, WriterJoined, HandlerGone

\* A perception thread that runs on after the answer is one of an actor whose
\* handler panicked, and the writer has gone: what it gives up it cannot log.
LEMMA StragglersFailed ==
  ASSUME Answering, Halting, NEW a \in Actors, perception[a] # "ended", outcome # "none"
  PROVE  a \in failed /\ writer = "closed"
  BY DEF Answering, Halting, Joined, WriterJoined

\* Such a thread gives up unseen.
LEMMA StragglersGiveUp ==
  ASSUME Typed, Answering, Halting, NEW a \in Actors, Abandon(a),
         perception[a] # "ended", outcome # "none"
  PROVE  a \in failed /\ UNCHANGED <<failed, undelivered>>
<1>1. a \in failed /\ writer = "closed"
  BY StragglersFailed
<1>2. CASE Leftover(a) = {}
  <2>1. undelivered' = [undelivered EXCEPT ![a] = @ \cup Leftover(a)] /\ UNCHANGED failed
    BY <1>2 DEF Abandon
  <2> QED
    BY <1>1, <1>2, <2>1 DEF Typed, TypeOK
<1>3. CASE Leftover(a) # {}
  BY <1>1, <1>3 DEF Abandon
<1> QED
  BY <1>2, <1>3

\* An observation is one of the contract's.
LEMMA ObserveKept ==
  ASSUME Typed, Halting, Answering, Placed, NEW a \in Actors, RecordObservation(a)
  PROVE  Contract!Observe(a)
<1>1. /\ observed' = [observed EXCEPT ![a] = Append(@, pending[a])]
      /\ UNCHANGED <<stopped, failed, owed, undelivered, outcome>>
      /\ perception[a] = "recording" /\ writer = "open"
  BY DEF RecordObservation
<1>2. pending[a] \in Key /\ pending[a] # NoKey /\ observed[a] \in Seq(Key)
  BY <1>1 DEF Typed, TypeOK, HandingOver
<1>3. outcome = "none" /\ ~stopped[a]
  BY <1>1, NotAnswered DEF Halting, HungUp
<1>4. pending[a] \in Contract!Open(a)
  BY <1>2, OpenPlaces DEF InHandOf
<1>5. Elements(observed'[a]) = Elements(observed[a]) \cup {pending[a]}
  BY <1>1, <1>2, AppendElements DEF Typed, TypeOK
<1>6. ObservedSets' = [ObservedSets EXCEPT ![a] = @ \cup {pending[a]}]
  BY <1>1, <1>5 DEF ObservedSets, Typed, TypeOK
<1> QED
  BY <1>1, <1>3, <1>4, <1>6 DEF ObservedSets, Contract!Observe

\* A stop is one of the contract's, or the failure of a thread that was being
\* stopped, or comes after the answer.
LEMMA StopKept ==
  ASSUME Typed, Halting, Answering, Placed, NEW a \in Actors, Stop(a)
  PROVE  Contract!Stop(a) \/ Contract!Break(a) \/ Contract!Straggle(a)
<1>1. /\ stopped' = [stopped EXCEPT ![a] = TRUE] /\ perception[a] = "stopping"
      /\ UNCHANGED <<owed, observed, outcome>>
  BY DEF Stop, Abandon
<1>2. ~stopped[a]
  BY <1>1 DEF Halting
<1>3. StoppedActors' = StoppedActors \cup {a}
  BY <1>1 DEF StoppedActors, Typed, TypeOK
<1>4. CASE outcome = "none" /\ LogsLeftover(a)
  BY <1>1, <1>2, <1>3, <1>4, OpenPlaces DEF LogsLeftover, StoppedActors, Contract!Stop
<1>5. CASE outcome = "none" /\ LosesLeftover(a)
  BY <1>1, <1>2, <1>3, <1>5 DEF LosesLeftover, StoppedActors, Contract!Break
<1>6. CASE outcome # "none"
  <2>1. a \in failed /\ UNCHANGED <<failed, undelivered>>
    BY <1>1, <1>6, StragglersGiveUp DEF Stop
  <2> QED
    BY <1>1, <1>3, <1>6, <2>1 DEF StoppedActors, Contract!Straggle
<1> QED
  BY <1>4, <1>5, <1>6, AbandonCases DEF Stop

\* An actor that finds its handler thread gone has failed, and gives up.
LEMMA DeafenKept ==
  ASSUME Typed, Halting, Answering, Placed, NEW a \in Actors, Deafen(a)
  PROVE  Contract!GiveUp(a) \/ Contract!Break(a) \/ Unseen
<1>1. /\ HandlerGone(a) /\ perception[a] \in {"starting", "selecting"}
      /\ UNCHANGED <<stopped, owed, observed, outcome>>
  BY DEF Deafen, Abandon
<1>2. ~stopped[a] /\ a \in failed
  BY <1>1 DEF Halting, HungUp, HandlerGone
<1>3. CASE outcome = "none" /\ LogsLeftover(a)
  BY <1>1, <1>2, <1>3, OpenPlaces DEF LogsLeftover, Contract!GiveUp
<1>4. CASE outcome = "none" /\ LosesLeftover(a)
  BY <1>1, <1>2, <1>4 DEF LosesLeftover, Contract!Break
<1>5. CASE outcome # "none"
  <2>1. UNCHANGED <<failed, undelivered>>
    BY <1>1, <1>5, StragglersGiveUp DEF Deafen
  <2> QED
    BY <1>1, <2>1 DEF Unseen
<1> QED
  BY <1>3, <1>4, <1>5, AbandonCases DEF Deafen

\* A perception thread keeps the contract.
LEMMA PerceiveKept ==
  ASSUME Typed, Halting, Answering, Placed, NEW a \in Actors, Perceive(a)
  PROVE  [Contract!Next]_(Contract!vars)
<1>1. CASE RecordObservation(a) \/ Stop(a)
  BY <1>1, ObserveKept, StopKept DEF Contract!Next
<1>2. CASE Deafen(a)
  BY <1>2, DeafenKept, UnseenStutters DEF Contract!Next
<1>3. CASE RecordRefused(a)
  <2>1. failed' = failed \cup {a} /\ UNCHANGED <<stopped, owed, observed, undelivered, outcome>>
    BY <1>3 DEF RecordRefused
  <2>2. CASE outcome = "none"
    BY <2>1, <2>2 DEF Contract!Next, Contract!Break
  <2>3. CASE outcome # "none"
    <3>1. a \in failed
      BY <1>3, <2>3, StragglersFailed DEF RecordRefused
    <3>2. Unseen
      BY <2>1, <3>1 DEF Unseen
    <3> QED
      BY <3>2, UnseenStutters
  <2> QED
    BY <2>2, <2>3
<1>4. CASE Poll(a) \/ TakeControl(a) \/ HandStart(a) \/ Hear(a) \/ Hand(a) \/ Set(a) \/ Fire(a)
             \/ Deliver(a) \/ Fired(a) \/ Close(a)
  <2>1. Unseen
    BY <1>4 DEF Unseen, Poll, TakeControl, HandStart, Hear, Hand, Set, Fire, Deliver, Fired, Close
  <2> QED
    BY <2>1, UnseenStutters
<1> QED
  BY <1>1, <1>2, <1>3, <1>4 DEF Perceive

\* A handler thread keeps the contract.
LEMMA HandleKept ==
  ASSUME Typed, Numbered, Answering, NEW a \in Actors, Handle(a)
  PROVE  [Contract!Next]_(Contract!vars)
<1>1. UNCHANGED <<stopped, observed, undelivered, outcome>> /\ outcome = "none"
  BY HandlingLeaves, HandlingReports, NotAnswered
<1>2. CASE Route(a) \/ HandBack(a)
  <2>1. UNCHANGED failed
    BY <1>2 DEF Route, HandBack
  <2>2. \A b \in Actors : owed[b] \subseteq owed'[b]
    <3>1. CASE Route(a)
      <4>1. PICK to \in Actors : owed' = [owed EXCEPT ![to] = @ \cup {InHand(a)}]
        BY <3>1, RoutedFresh
      <4> QED
        BY <4>1 DEF Typed, TypeOK
    <3>2. CASE HandBack(a)
      <4>1. owed' = [owed EXCEPT ![a] = @ \cup {InHand(a)}]
        BY <3>2 DEF HandBack
      <4> QED
        BY <4>1 DEF Typed, TypeOK
    <3> QED
      BY <1>2, <3>1, <3>2
  <2> QED
    BY <1>1, <2>1, <2>2 DEF Contract!Next, Contract!Entrust
<1>3. CASE Breaks(a)
  BY <1>1, <1>3 DEF Breaks, Break, Contract!Next, Contract!Break
<1>4. CASE ~Route(a) /\ ~HandBack(a) /\ ~Breaks(a)
  <2>1. UNCHANGED <<owed, failed>>
    <3>1. CASE Carry(a)
      BY <3>1 DEF Carry, Unsent, Act, Remember, BeginCommand, Pay, Skip
    <3>2. CASE CarriedOut(a) \/ HandBackUnsent(a) \/ Return(a) \/ HangUp(a) \/ Tell(a)
      BY <3>2 DEF CarriedOut, HandBackUnsent, Return, HangUp, Tell
    <3> QED
      BY <1>4, <3>1, <3>2
      DEF Handle, RouteRefused, TimerClosed, CommandRefused, PayRefused, Panics, WriterClosed, Breaks
  <2> QED
    BY <1>1, <2>1, UnseenStutters DEF Unseen
<1> QED
  BY <1>2, <1>3, <1>4

\* The answer is the contract's.
LEMMA JoinKept ==
  ASSUME Typed, Halting, Answering, Join
  PROVE  Contract!Answer
<1>1. /\ outcome' = IF failed # {} THEN "agents" ELSE verdict
      /\ UNCHANGED <<stopped, failed, owed, observed, undelivered>>
      /\ phase = "joining" /\ \A a \in Actors : Joined(a)
  BY DEF Join
<1>2. outcome = "none" /\ verdict # "none" /\ (verdict = "departed" => failed # {})
  BY <1>1 DEF Answering
<1>3. \A a \in Actors : stopped[a] \/ a \in failed
  BY <1>1 DEF Halting, Joined, HungUp
<1>4. Actors = StoppedActors \cup failed
  BY <1>3 DEF StoppedActors, Typed, TypeOK
<1>5. failed = {} => outcome' \in {"ok", "timeout"}
  BY <1>1, <1>2 DEF Typed, TypeOK
<1> QED
  BY <1>1, <1>2, <1>4, <1>5 DEF StoppedActors, Contract!Answer

\* Every step of the threads is one of the contract's, or a stutter.
LEMMA StepKept ==
  ASSUME Typed, Halting, Answering, Numbered, Placed, [Next]_vars
  PROVE  [Contract!Next]_(Contract!vars)
<1>1. CASE Join
  BY <1>1, JoinKept DEF Contract!Next
<1>2. CASE Start \/ AllReported \/ ReadDeparture \/ StopNext \/ Stopped \/ JoinStop
             \/ TimeOut \/ LoseWriter \/ UNCHANGED vars
  <2>1. Unseen
    BY <1>2 DEF Unseen, Start, AllReported, ReadDeparture, StopNext, Stopped, JoinStop,
      TimeOut, LoseWriter, vars
  <2> QED
    BY <2>1, UnseenStutters
<1> QED
  BY <1>1, <1>2, PerceiveKept, HandleKept DEF Next, Run, Returned

\* A run of the threads is a run of the contract: actors are stopped once each
\* or fail, a message's fate, once it has one, is final, and the one answer
\* comes when everybody has been stopped or has failed, and says how; nothing of
\* theirs is logged after it, and only one who failed may be stopped after it.
THEOREM ThreadsKeepTheContract == Spec => FollowsContract
<1>1. Init => Contract!Init
  BY DEF Init, Contract!Init, Elements
<1>2. Typed /\ Halting /\ Answering /\ Numbered /\ Placed /\ [Next]_vars
        => [Contract!Next]_(Contract!vars)
  BY StepKept
<1> QED
  BY <1>1, <1>2, TypedAlways, HaltingAlways, AnsweringAlways, NumberedAlways, PlacedAlways, PTL
  DEF Spec, FollowsContract, Contract!Spec
=============================================================================
