--------------------------- MODULE MCOrchestrator ---------------------------
(***************************************************************************)
(* Instances of Orchestrator for TLC.                                      *)
(***************************************************************************)
EXTENDS Orchestrator, TLC

CONSTANTS k1, k2, k3

\* One condition, as inventory and biosControl.
Single == {<<k1>>}

\* Two conditions published one after the other, as firmwareInstall.
Chain == {<<k1, k2>>}

\* A chain with an in-band condition, as firmwareInstall with the feature flag.
InbandChain == {<<k1, k3, k2>>}

\* Units of every shape: one condition, published or in band, and a chain.
Shapes == Single \cup {<<k3>>} \cup InbandChain

\* For runs without a restarted watcher, whose snapshot is put in order by CHOOSE.
SymmetryOfIDs == Permutations(IDs)

=============================================================================
