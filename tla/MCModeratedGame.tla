-------------------------- MODULE MCModeratedGame --------------------------
EXTENDS ModeratedGame
CONSTANTS wolf, doc, sage, prey

\* A pack of one, a doctor, a seer and a villager.
MCPlayersFour == {wolf, doc, sage, prey}
MCRolesFour == [p \in MCPlayersFour |->
  CASE p = wolf -> "Werewolf" [] p = doc -> "Doctor" [] p = sage -> "Seer" [] OTHER -> "Villager"]
MCQuiet == [k \in Kinds \ {"Nominate"} |-> 1]
MCLimit == [k \in Kinds |-> IF k = "Nominate" THEN 1 ELSE 2]
=============================================================================
