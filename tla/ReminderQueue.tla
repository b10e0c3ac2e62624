--------------------------- MODULE ReminderQueue ---------------------------
(***************************************************************************)
(* The queue an actor's reminders wait in: `Reminders::held`, a            *)
(* `BTreeMap<Instant, Vec<(u64, P)>>` (timer.rs).  It is a function from   *)
(* deadlines to the sequence numbers waiting under each, in the order they *)
(* were set; a deadline absent from the map is one with an empty sequence. *)
(***************************************************************************)
EXTENDS Naturals, Sequences

\* A map over `deadlines` that holds nothing.
Nothing(deadlines) == [d \in deadlines |-> << >>]

\* The deadlines something is held under: the keys of the BTreeMap.
Waiting(q) == {d \in DOMAIN q : q[d] # << >>}

\* Reminders::earliest: d is the smallest key.
IsEarliest(q, d) == d \in Waiting(q) /\ \A e \in Waiting(q) : d <= e

\* The sequence numbers held, whatever their deadline.
Elements(s) == {s[i] : i \in DOMAIN s}
HeldSeqs(q) == UNION {Elements(q[d]) : d \in DOMAIN q}

\* `held.entry(deadline).or_default().push(seq)`.
Pushed(q, d, s) == [q EXCEPT ![d] = Append(@, s)]
=============================================================================
