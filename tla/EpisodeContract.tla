-------------------------- MODULE EpisodeContract --------------------------
(***************************************************************************)
(* What a caller of `Episode::run` is promised (episode.rs, "Start and     *)
(* end"), with nothing of channels and threads: actors are stopped once    *)
(* each or fail, the messages entrusted to an actor are observed by it     *)
(* until it gives up and are undelivered after that, and the one answer    *)
(* comes when everybody has been stopped or has failed, and says how.      *)
(* Nothing changes after it but that one who failed may yet be stopped.    *)
(***************************************************************************)
CONSTANT Actors

VARIABLES
  stopped,     \* actors that have been stopped
  failed,      \* actors that did not end cleanly
  entrusted,   \* entrusted[a]: messages accepted on a's behalf
  observed, undelivered,
  answer       \* what `run` returned

vars == <<stopped, failed, entrusted, observed, undelivered, answer>>

Init ==
  /\ stopped = {} /\ failed = {}
  /\ entrusted = [a \in Actors |-> {}]
  /\ observed = [a \in Actors |-> {}]
  /\ undelivered = [a \in Actors |-> {}]
  /\ answer = "none"

Open(a) == entrusted[a] \ (observed[a] \cup undelivered[a])

\* Others entrust messages to actors, and take none back.
Entrust ==
  /\ answer = "none"
  /\ \A a \in Actors : entrusted[a] \subseteq entrusted'[a]
  /\ UNCHANGED <<stopped, failed, observed, undelivered, answer>>

\* A stopped actor observes nothing more.
Observe(a) ==
  /\ answer = "none" /\ a \notin stopped
  /\ \E m \in Open(a) : observed' = [observed EXCEPT ![a] = @ \cup {m}]
  /\ UNCHANGED <<stopped, failed, entrusted, undelivered, answer>>

\* An actor is stopped, and some of what it will never observe is logged.
Stop(a) ==
  /\ answer = "none" /\ a \notin stopped
  /\ stopped' = stopped \cup {a}
  /\ \E S \in SUBSET Open(a) : undelivered' = [undelivered EXCEPT ![a] = @ \cup S]
  /\ UNCHANGED <<failed, entrusted, observed, answer>>

\* An actor whose handler has failed gives up unbidden.
GiveUp(a) ==
  /\ answer = "none" /\ a \in failed \ stopped
  /\ \E S \in SUBSET Open(a) : undelivered' = [undelivered EXCEPT ![a] = @ \cup S]
  /\ UNCHANGED <<stopped, failed, entrusted, observed, answer>>

\* A thread of the actor's fails, in the step that stops it or in another.
Break(a) ==
  /\ answer = "none"
  /\ failed' = failed \cup {a}
  /\ stopped' \in {stopped, stopped \cup {a}}
  /\ UNCHANGED <<entrusted, observed, undelivered, answer>>

\* The one answer.
Answer ==
  /\ answer = "none"
  /\ Actors = stopped \cup failed
  /\ answer' \in (IF failed = {} THEN {"ok", "timeout"} ELSE {"agents"})
  /\ UNCHANGED <<stopped, failed, entrusted, observed, undelivered>>

\* A thread of an actor that failed may not have been waited for, and perceive
\* its stop after the answer: nothing of it is logged any more.
Straggle(a) ==
  /\ answer # "none" /\ a \in failed
  /\ stopped' = stopped \cup {a}
  /\ UNCHANGED <<failed, entrusted, observed, undelivered, answer>>

Next ==
  \/ Entrust
  \/ \E a \in Actors : Observe(a) \/ Stop(a) \/ GiveUp(a) \/ Break(a) \/ Straggle(a)
  \/ Answer

Spec == Init /\ [][Next]_vars
=============================================================================
