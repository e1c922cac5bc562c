--------------------------- MODULE MCHostInstall ---------------------------
(* HostInstall with two packages whose names are cleaned to the same label;  *)
(* what is said of "g++" is found in a search for "g".                       *)
EXTENDS HostInstall, TLC

MCClean == [p \in Packages |-> "g"]
MCAlike == [p \in Packages |-> IF p = "g" THEN {"g++"} ELSE {}]
Perms == Permutations(Installs)
=============================================================================
