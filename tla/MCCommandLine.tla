--------------------------- MODULE MCCommandLine ---------------------------
(***************************************************************************)
(* Configurations for TLC, the bad with the good, and two logs: one a      *)
(* configuration may name, and one whose effective configuration is at the *)
(* user's own.                                                             *)
(***************************************************************************)
EXTENDS CommandLine
CONSTANTS alice, bob, carol, dave, assignment, ties, moderator, narrator

MCNames == {alice, bob, carol, dave, assignment, ties, moderator, narrator}
MCReserved == {assignment, ties}
MCLogs == {[name |-> name, toml |-> 0] : name \in {"game", "run"}}
MCConfigured == [name |-> "game", toml |-> 1]
MCPaths == MCLogs \cup {EffectivePath(log) : log \in MCLogs}

MCTiming(quiet, limit, dayCap) ==
  [pack |-> [quiet |-> 1, limit |-> 2], seer |-> [quiet |-> 1, limit |-> 1],
   doctor |-> [quiet |-> quiet, limit |-> limit], day |-> [limit |-> 3], dayCap |-> dayCap]
MCConfig(players, roles, trajectory, whose, timing) ==
  [seed |-> 1, players |-> players, roles |-> roles, trajectory |-> trajectory,
   moderator |-> whose, timing |-> timing]
MCRoles == [werewolves : 0 .. 2, seers : 0 .. 2, doctors : 0 .. 2]
MCGood == MCTiming(1, 2, Unset)
MCAny == [werewolves |-> 1, seers |-> 0, doctors |-> 1]

MCDefault == MCConfig(<<alice, bob, carol>>, MCAny, NoPath, DefaultModerator, DefaultTiming)

\* Any roles for two rosters, any roster of three for a role, and some clocks,
\* logs and moderators.
MCTexts ==
  {MCDefault}
  \cup {MCConfig(players, roles, NoPath, moderator, MCGood) :
     players \in {<<bob, alice, carol>>, <<alice, bob, carol, dave>>}, roles \in MCRoles}
  \cup {MCConfig(players, MCAny, NoPath, moderator, MCGood) :
     players \in [1 .. 3 -> {alice, bob, assignment, ties, moderator}]}
  \cup {MCConfig(<<alice, bob, carol>>, MCAny, trajectory, whose, MCTiming(quiet, limit, dayCap)) :
     trajectory \in MCLogs \cup {NoPath}, whose \in {moderator, narrator, alice},
     quiet \in -1 .. 2, limit \in (-1 .. 2) \cup {MaxInstant, MaxDuration, MaxDuration + 1}, dayCap \in {Unset, 0, 1}}
=============================================================================
