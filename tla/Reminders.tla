----------------------------- MODULE Reminders -----------------------------
(***************************************************************************)
(* The reminders one actor holds and the one channel armed for the         *)
(* earliest of them: `Reminders` and `Timer` in timer.rs, driven by the    *)
(* perception thread that owns them (thread.rs).                           *)
(*                                                                         *)
(* The thread waits on a single channel, so the whole of the component is  *)
(* a promise about that channel: as long as something is held, the channel *)
(* will wake the thread no later than the earliest deadline, and what a    *)
(* wake-up takes out is exactly what has come due.                         *)
(*                                                                         *)
(* Reminder n is the n-th one set, and asked[n] the deadline it was set    *)
(* for; payloads play no part.  `due` is a loop in the source and a loop   *)
(* here, one deadline's queue per step, between Wake and Rearm.            *)
(***************************************************************************)
EXTENDS ReminderQueue, FiniteSets

CONSTANTS
  Deadlines,    \* instants a reminder may be set for
  MaxTime,      \* bound: the last instant the clock reaches
  MaxReminders, \* bound: how many reminders are set
  IsHeld        \* Timer::is_held: the test's timer rather than the real one

ASSUME DeadlinesAssumption == Deadlines \subseteq Nat /\ Deadlines # {}
ASSUME BoundsAssumption == MaxTime \in Nat /\ MaxReminders \in Nat
ASSUME TimerAssumption == IsHeld \in BOOLEAN

VARIABLES
  clock,   \* the process's monotonic clock
  asked,   \* asked[n]: the deadline reminder n was set for
  held,    \* Reminders::held
  armed,   \* the instant Reminders::armed fires at, or Never
  step,    \* where the thread that owns the reminders is
  now,     \* the argument `due` was called with
  fired,   \* what `due` has handed back so far, in order
  dropped  \* what `drain` handed back: logged as undelivered

vars == <<clock, asked, held, armed, step, now, fired, dropped>>

Never == MaxTime + 1   \* crossbeam_channel::never
Ids   == 1 .. MaxReminders
Fired == [reminder : Ids, deadline : Deadlines, at : 0 .. MaxTime]

\* Timer::arm: the real timer's channel fires at the earliest deadline, or
\* never.  The held timer's channel is one and the same throughout and fires
\* for no deadline: it fires whenever its holder says so (Wake).
Arm(h) ==
  IF IsHeld \/ Waiting(h) = {} THEN Never ELSE CHOOSE d \in Waiting(h) : IsEarliest(h, d)

Init ==
  /\ clock = 0
  /\ asked = << >>
  /\ held = Nothing(Deadlines)
  /\ armed = Never
  /\ step = "waiting"
  /\ now = 0
  /\ fired = << >>
  /\ dropped = {}

Tick ==
  /\ clock < MaxTime
  /\ clock' = clock + 1
  /\ UNCHANGED <<asked, held, armed, step, now, fired, dropped>>

\* Re-armed on every set, whether or not the earliest deadline moved.
HoldAlwaysRearming(d) ==
  /\ step = "waiting" /\ Len(asked) < MaxReminders
  /\ asked' = Append(asked, d)
  /\ held' = Pushed(held, d, Len(asked) + 1)
  /\ armed' = d
  /\ UNCHANGED <<clock, step, now, fired, dropped>>

\* Numbers read before they are moved on.
HoldNumberedFromZero(d) ==
  /\ step = "waiting" /\ Len(asked) < MaxReminders
  /\ asked' = Append(asked, d)
  /\ held' = Pushed(held, d, Len(asked))
  /\ armed' = IF \A e \in Waiting(held) : d < e THEN Arm(held') ELSE armed
  /\ UNCHANGED <<clock, step, now, fired, dropped>>

\* Reminders::hold: the channel is re-armed only if the earliest deadline moved.
Hold(d) ==
  /\ step = "waiting" /\ Len(asked) < MaxReminders
  /\ asked' = Append(asked, d)
  /\ held' = Pushed(held, d, Len(asked) + 1)
  /\ armed' = IF \A e \in Waiting(held) : d < e THEN Arm(held') ELSE armed
  /\ UNCHANGED <<clock, step, now, fired, dropped>>

\* The armed channel fires, and the thread calls `due(Instant::now())`.
Wake ==
  /\ step = "waiting"
  /\ IsHeld \/ armed <= clock
  /\ step' = "due"
  /\ now' = clock
  /\ UNCHANGED <<clock, asked, held, armed, fired, dropped>>

\* A loop that stops at deadlines that are not yet past, off by one.
DueOneEarly(d) == IsEarliest(held, d) /\ (IsHeld \/ d <= now + 1)

\* Whether the loop in `due` goes on to take out deadline d.
Due(d) == IsEarliest(held, d) /\ (IsHeld \/ d <= now)

\* A queue handed back last in, first out.
TakeDueReversed(d) ==
  /\ step = "due" /\ Due(d)
  /\ fired' = fired \o [i \in DOMAIN held[d] |->
       [reminder |-> held[d][Len(held[d]) + 1 - i], deadline |-> d, at |-> now]]
  /\ held' = [held EXCEPT ![d] = << >>]
  /\ UNCHANGED <<clock, asked, armed, step, now, dropped>>

\* A queue copied out and left where it was.
TakeDueLeaving(d) ==
  /\ step = "due" /\ Due(d)
  /\ fired' = fired \o [i \in DOMAIN held[d] |->
       [reminder |-> held[d][i], deadline |-> d, at |-> now]]
  /\ UNCHANGED <<clock, asked, held, armed, step, now, dropped>>

\* One turn of the loop in Reminders::due: a deadline's whole queue comes out.
TakeDue(d) ==
  /\ step = "due" /\ Due(d)
  /\ fired' = fired \o [i \in DOMAIN held[d] |->
       [reminder |-> held[d][i], deadline |-> d, at |-> now]]
  /\ held' = [held EXCEPT ![d] = << >>]
  /\ UNCHANGED <<clock, asked, armed, step, now, dropped>>

\* The end of `due` without its last line.
RearmForgotten ==
  /\ step = "due" /\ \A d \in Deadlines : ~ Due(d)
  /\ step' = "waiting"
  /\ armed' = Never
  /\ UNCHANGED <<clock, asked, held, now, fired, dropped>>

\* The end of Reminders::due: armed again for whatever is left.
Rearm ==
  /\ step = "due" /\ \A d \in Deadlines : ~ Due(d)
  /\ step' = "waiting"
  /\ armed' = Arm(held)
  /\ UNCHANGED <<clock, asked, held, now, fired, dropped>>

\* Reminders::drain, called once, by the thread that is giving up.
Drain ==
  /\ step = "waiting"
  /\ step' = "drained"
  /\ dropped' = HeldSeqs(held)
  /\ held' = Nothing(Deadlines)
  /\ armed' = Never
  /\ UNCHANGED <<clock, asked, now, fired>>

\* Nothing is left to happen once the clock has run out.
Finished ==
  /\ clock = MaxTime
  /\ \/ step = "drained"
     \/ step = "waiting" /\ Len(asked) = MaxReminders /\ armed = Never
  /\ UNCHANGED vars

Next ==
  \/ Tick
  \/ \E d \in Deadlines : Hold(d) \/ TakeDue(d)
  \/ Wake \/ Rearm \/ Drain
  \/ Finished

\* Time passes, and the thread waiting on the channel runs when it fires.
Fairness == /\ WF_vars(Tick)
            /\ WF_vars(Wake)
            /\ WF_vars(\E d \in Deadlines : TakeDue(d))
            /\ WF_vars(Rearm)

Spec == Init /\ [][Next]_vars /\ Fairness

-----------------------------------------------------------------------------
\* The types of the variables, and that a drained timer holds nothing.
TypeOK ==
  /\ clock \in 0 .. MaxTime
  /\ asked \in Seq(Deadlines) /\ Len(asked) <= MaxReminders
  /\ held \in [Deadlines -> Seq(Ids)]
  /\ armed \in Deadlines \cup {Never}
  /\ step \in {"waiting", "due", "drained"}
  /\ now \in 0 .. MaxTime
  /\ fired \in Seq(Fired)
  /\ dropped \subseteq Ids
  /\ step = "drained" => held = Nothing(Deadlines)

\* Whenever the thread is about to wait, the channel it waits on is armed for
\* the earliest deadline held, and for nothing when nothing is held: a nearer
\* reminder re-arms, a later one and a wake-up leave no stale channel behind
\* (the real timer of timer.rs, `hold` and the last line of `due`).
ArmedForEarliest ==
  step # "due" /\ ~IsHeld =>
    IF Waiting(held) = {} THEN armed = Never ELSE IsEarliest(held, armed)

\* A real timer hands nothing back before its deadline, whatever else was due
\* in the same wake-up.
NeverEarly ==
  ~IsHeld => \A i \in DOMAIN fired : fired[i].deadline <= fired[i].at

\* "Reminders accumulate and each fires once; nothing is cancelled": every
\* reminder ever set is held, handed back by `due`, or handed back by `drain`,
\* and in just one of the three, once.
FiredSeqs == {fired[i].reminder : i \in DOMAIN fired}
NoneFiredTwice ==
  \A i, j \in DOMAIN fired : fired[i].reminder = fired[j].reminder => i = j
NoneHeldTwice ==
  \A d, e \in Deadlines : \A i \in DOMAIN held[d], j \in DOMAIN held[e] :
    held[d][i] = held[e][j] => d = e /\ i = j
EachSomewhere ==
  /\ 1 .. Len(asked) = FiredSeqs \cup HeldSeqs(held) \cup dropped
  /\ FiredSeqs \cap HeldSeqs(held) = {}
  /\ FiredSeqs \cap dropped = {}
  /\ HeldSeqs(held) \cap dropped = {}
FiresOnce == NoneFiredTwice /\ NoneHeldTwice /\ EachSomewhere

\* "Earliest first, and within a deadline in the order the reminders were
\* set", over any number of wake-ups: a reminder is overtaken by one set after
\* it only if that one was for a strictly earlier instant.
OvertakenOnlyByNearer ==
  \A i, j \in DOMAIN fired :
    i < j /\ fired[j].reminder < fired[i].reminder =>
      fired[i].deadline < fired[j].deadline

\* What comes back comes back when it should: no reminder before its instant,
\* and none before one that is ahead of it.
ComesInItsTurn == NeverEarly /\ OvertakenOnlyByNearer

\* A reminder set for an instant the clock reaches is not left behind: unless
\* the thread gives up, it is handed back.
EveryReminderComesBack ==
  \A n \in Ids : n \in HeldSeqs(held) /\ ~IsHeld
    ~> (n \notin HeldSeqs(held))
=============================================================================
