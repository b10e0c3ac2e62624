------------------------------ MODULE MCTable ------------------------------
EXTENDS Table
CONSTANTS wolf, cub, doc, sage, prey, idler

Dealt(wolves, doctors, seers) == [p \in Players |->
  CASE p \in wolves -> "Werewolf" [] p \in doctors -> "Doctor" [] p \in seers -> "Seer"
    [] OTHER -> "Villager"]

\* A pack of two at a table of six, and both of it or one and the seer awake.
MCSix == {wolf, cub, doc, sage, prey, idler}
MCPackOfTwo == Dealt({wolf, cub}, {doc}, {sage})
MCThePackOrSeer == {{wolf, cub}, {wolf, sage}}

\* A lone werewolf, a doctor and a villager.
MCThree == {wolf, doc, prey}
MCLoneWolf == Dealt({wolf}, {doc}, {})
MCDoctor == {{doc}}

MCQuiet == [k \in Kinds \ {"Nominate"} |-> 1]
MCLimit == [k \in Kinds |-> 1]
=============================================================================
