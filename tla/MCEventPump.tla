---------------------------- MODULE MCEventPump ----------------------------
(***************************************************************************)
(* Instances of EventPump for TLC.                                         *)
(***************************************************************************)
EXTENDS EventPump, TLC

CONSTANTS b1, b2

BothBuckets == {b1, b2}

\* b1 has values before and after a malformed one; b2 competes with it for
\* the publisher.
ThreeAndOne == (b1 :> 3) @@ (b2 :> 1)

=============================================================================
