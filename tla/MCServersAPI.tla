---------------------------- MODULE MCServersAPI ----------------------------
(***************************************************************************)
(* Instances of ServersAPI for TLC.                                        *)
(***************************************************************************)
EXTENDS ServersAPI, FiniteSets, TLC

ApiKinds == {"inventory", "biosControl", "firmwareInstall", "firmwareInstallInband", "serverControl"}

InbandKind == {"firmwareInstallInband"}

\* At most one of the requests is neither an enrolment nor a deletion.
OneOtherRequest ==
    Cardinality({r \in Creators : req[r].op \notin ServerOps \cup {NotMade.op}}) <= 1

Symmetry == Permutations(Creators) \cup Permutations(IDs)

=============================================================================
