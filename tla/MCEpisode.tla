----------------------------- MODULE MCEpisode -----------------------------
(***************************************************************************)
(* Instances of an episode for TLC: small rosters and what their handlers  *)
(* yield.                                                                  *)
(***************************************************************************)
EXTENDS EpisodeProperties

CONSTANTS env, ann, bea, stranger

\* One agent.
MCRosterOne == <<ann, env>>
\* Two agents, in the order of their ids; the environment comes last.
MCRosterTwo == <<ann, bea, env>>

MCDeadlines == {1, 2}

\* Two agents that talk to each other and to an environment that stops all.
MCScriptsTwo ==
  {[x \in {ann, bea, env} |->
     IF x = env
       THEN << <<Command(<<ann, bea>>, "start")>>, <<Reward(ann), Command(<<ann, bea, env>>, "stop")>> >>
       ELSE IF x = ann THEN << <<Send(<<bea, env>>), Send(<<bea>>)>> >>
       ELSE << <<Remind(1)>> >>]}

\* Handlers whose runs are followed to their end, one or both of them broken:
\* an environment that is stopped with a reward still to pay, one that stops
\* itself, one that addresses an actor there is none of, and one that leaves
\* stopping to the episode, beside an agent that fails or that addresses a
\* stranger itself.
Broken(effects, actions) ==
  [x \in {ann, env} |-> IF x = env THEN << <<Command(<<ann>>, "start")>> \o effects >> ELSE << actions >>]
MCScriptsFailing ==
  {Broken(<<Command(<<env, ann>>, "stop"), Reward(stranger)>>, <<Fail>>),
   Broken(<<Command(<<env, ann>>, "stop")>>, <<Send(<<env, stranger>>)>>),
   Broken(<<Send(<<ann>>), Command(<<ann, stranger>>, "stop")>>, <<Remind(1)>>),
   Broken(<< >>, <<Remind(1)>>)}

\* An environment that stops everybody, itself included, beside an agent that
\* sets a reminder or writes to it.
MCScriptsStopping ==
  {Broken(<<Command(<<ann, env>>, "stop")>>, <<Remind(1)>>),
   Broken(<<Command(<<ann, env>>, "stop")>>, <<Send(<<env>>)>>)}
=============================================================================
