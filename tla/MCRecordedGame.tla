--------------------------- MODULE MCRecordedGame ---------------------------
EXTENDS RecordedGame
CONSTANTS wolf, cub, doc, sage, prey

\* A pack of two, who may disagree, a doctor, a seer and a villager.
MCPlayers == {wolf, cub, doc, sage, prey}
MCRoles == [p \in MCPlayers |->
  CASE p \in {wolf, cub} -> "Werewolf" [] p = doc -> "Doctor" [] p = sage -> "Seer" [] OTHER -> "Villager"]
MCQuiet == [k \in Kinds \ {"Nominate"} |-> 1]
MCLimit == [k \in Kinds |-> 1]
=============================================================================
