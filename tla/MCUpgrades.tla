------------------------------ MODULE MCUpgrades ------------------------------
(* The stages of all upgrades from the databases of MCDeployment.           *)
EXTENDS MCDeployment, Upgrades

\* Reach[n]: those that upgrades reach in up to n steps, and those that need n.
\* The longest upgrade has less than 40; were it longer, AllStages would not be
\* closed and StagesAssumption would fail.
AllStages(bases) ==
  LET Reach[n \in Nat] ==
        IF n = 0 THEN LET first == {FirstStage(base) : base \in bases} IN [all |-> first, new |-> first]
        ELSE LET before == Reach[n - 1]
                 next == UNION {Following(e) \ before.all : e \in before.new}
             IN  [all |-> {e \in before.all \cup next : TRUE}, new |-> {e \in next : TRUE}]
  IN  Reach[40].all
=============================================================================
