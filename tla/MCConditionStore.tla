-------------------------- MODULE MCConditionStore --------------------------
(***************************************************************************)
(* Instances of ConditionStore for TLC.                                    *)
(***************************************************************************)
EXTENDS ConditionStore, TLC

\* Units of one and of two conditions.
WorksUpTo2 == UnitsOfWork(2)

Symmetry == Permutations(Servers) \cup Permutations(IDs) \cup Permutations(Kinds)
               \cup Permutations(Creators) \cup Permutations(Updaters)

=============================================================================
