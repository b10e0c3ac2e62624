---------------------------- MODULE EpisodeRun ----------------------------
(***************************************************************************)
(* One run of an episode: the thread that called `Episode::run`, with      *)
(* `wait`, `stop_everybody` and `join` (episode.rs), and every actor's two *)
(* threads beside it.                                                      *)
(*                                                                         *)
(*   starting  the threads are up, the environment is not started          *)
(*   waiting   in `wait`, on the completion channel                        *)
(*   stopping  in `stop_everybody`, on the way out of `wait`               *)
(*   joining   in `join`: a stop to everybody, then every thread joined    *)
(*   returned  `run` has returned; a thread nobody waited for may go on    *)
(***************************************************************************)
EXTENDS Perception, Handling

\* What `run` answers: Ok, or its EpisodeError.  An id taken twice is refused
\* before a run (Config), and the start finds the environment always there.
Answer == {"ok", "departed", "timeout", "agents"}

\* The episode starts only the environment.
Start ==
  /\ phase = "starting"
  /\ controls' = [controls EXCEPT ![Env] = Append(@, "start")]
  /\ phase' = "waiting"
  /\ UNCHANGED <<inbox, requests, done, perVars, hanVars, flags, log, writer,
                 todo, verdict, outcome, history>>

\* `wait` has read two reports from each actor, every one of an actor that was
\* stopped.  Reading them one by one does nothing but count.
AllReported ==
  /\ phase = "waiting"
  /\ Cardinality(done) = 2 * Cardinality(Actors) /\ \A r \in done : r.stopped
  /\ phase' = "joining" /\ todo' = Roster /\ verdict' = "ok"
  /\ UNCHANGED <<channels, perVars, hanVars, flags, log, writer, outcome, history>>

\* `wait` reads a report from a thread whose actor was not stopped.
ReadDeparture ==
  /\ phase = "waiting"
  /\ \E r \in done : ~r.stopped
  /\ phase' = "stopping" /\ todo' = Roster /\ verdict' = "departed"
  /\ UNCHANGED <<channels, perVars, hanVars, flags, log, writer, outcome, history>>

\* The limit passes first, with every report made so far read.
TimeOut ==
  /\ phase = "waiting" /\ MayTimeOut
  /\ Cardinality(done) < 2 * Cardinality(Actors) /\ \A r \in done : r.stopped
  /\ phase' = "stopping" /\ todo' = Roster /\ verdict' = "timeout"
  /\ UNCHANGED <<channels, perVars, hanVars, flags, log, writer, outcome, history>>

\* `stop_everybody`: the next actor in the roster is sent a stop.
StopNext ==
  /\ phase = "stopping" /\ todo # << >> /\ ~Closed(Head(todo))
  /\ controls' = [controls EXCEPT ![Head(todo)] = Append(@, "stop")]
  /\ todo' = Tail(todo)
  /\ UNCHANGED <<inbox, requests, done, perVars, hanVars, flags, log, writer,
                 phase, verdict, outcome, history>>

\* `stop_everybody` is over: it reached everybody, or gave up at an actor whose
\* control channel has gone, without reaching those after it.
Stopped ==
  /\ phase = "stopping"
  /\ todo # << >> => Closed(Head(todo))
  /\ phase' = "joining" /\ todo' = Roster
  /\ UNCHANGED <<channels, perVars, hanVars, flags, log, writer, verdict, outcome, history>>

\* A `join` that leaves the stops to `stop_everybody`.
JoinWithoutStops ==
  /\ phase = "joining" /\ todo # << >>
  /\ todo' = Tail(todo)
  /\ UNCHANGED <<channels, perVars, hanVars, flags, log, writer, phase, verdict,
                 outcome, history>>

\* `join`: everybody still there is sent a stop before anybody is joined.
JoinStop ==
  /\ phase = "joining" /\ todo # << >>
  /\ LET a == Head(todo)
     IN controls' = IF Closed(a) THEN controls
                    ELSE [controls EXCEPT ![a] = Append(@, "stop")]
  /\ todo' = Tail(todo)
  /\ UNCHANGED <<inbox, requests, done, perVars, hanVars, flags, log, writer,
                 phase, verdict, outcome, history>>

\* Actor::join: the handler thread has ended, and then the perception thread
\* has; but a panic of the handler's is passed on before the perception thread
\* is waited for.
Joined(a) ==
  \/ handler[a] = "panicked"
  \/ handler[a] = "ended" /\ perception[a] = "ended"

\* The writer is joined: while it takes records it ends only when the last
\* thread that may send it one has, and after that it has ended already.
WriterJoined == writer = "closed" \/ \A a \in Actors : perception[a] = "ended"

\* An answer that passes over the threads that did not end cleanly.
JoinIgnoringFailures ==
  /\ phase = "joining" /\ todo = << >>
  /\ (\A a \in Actors : Joined(a)) /\ WriterJoined
  /\ outcome' = verdict
  /\ phase' = "returned"
  /\ UNCHANGED <<channels, perVars, hanVars, flags, log, writer, todo, verdict, history>>

\* Every actor is joined, and then the writer.  A thread that did not end
\* cleanly is reported before anything `wait` had to say.
Join ==
  /\ phase = "joining" /\ todo = << >>
  /\ (\A a \in Actors : Joined(a)) /\ WriterJoined
  /\ outcome' = IF failed # {} THEN "agents" ELSE verdict
  /\ phase' = "returned"
  /\ UNCHANGED <<channels, perVars, hanVars, flags, log, writer, todo, verdict, history>>

\* A required sink fails: the writer thread ends and takes no more records.
LoseWriter ==
  /\ MayLoseWriter /\ writer = "open" /\ phase # "returned"
  /\ writer' = "closed"
  /\ UNCHANGED <<channels, perVars, hanVars, flags, log, epVars, history>>

Returned == phase = "returned" /\ UNCHANGED vars

Run == Start \/ AllReported \/ ReadDeparture \/ StopNext \/ Stopped \/ JoinStop \/ Join

Next ==
  \/ \E a \in Actors : Perceive(a) \/ Handle(a)
  \/ Run
  \/ TimeOut
  \/ LoseWriter
  \/ Returned

\* The operating system runs every thread that can run, a call that has begun
\* returns, an instant that a reminder or the limit waits for comes.
Fairness ==
  /\ \A a \in Actors : WF_vars(Perceive(a)) /\ WF_vars(Handle(a))
  /\ WF_vars(Run)
  /\ WF_vars(TimeOut)

Spec == Init /\ [][Next]_vars /\ Fairness
=============================================================================
