---------------------------- MODULE MCLightMiner ----------------------------
(* Instances of LightMiner for TLC. *)
EXTENDS LightMiner

CONSTANTS p1, j1, d1

OnePool == {p1}
OneJob == {j1}
OneDifficulty == {d1}

SomeKeys == {"q", "p", "c"}
Quit == {"q"}
=============================================================================
