---------------------------- MODULE MCFileStores ----------------------------
(* Two requests at a time, two requests or turns of the run in all, one crash. *)
EXTENDS FileStores, TLC

CONSTANTS h1, h2

MCHandlers == {h1, h2}
MCSetups ==
  {[active |-> TRUE, legacy |-> TRUE, born |-> FALSE],
   [active |-> FALSE, legacy |-> TRUE, born |-> TRUE]}
Interchangeable == Permutations(MCHandlers)
=============================================================================
