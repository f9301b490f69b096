-------------------------- MODULE MCNotifications --------------------------
(***************************************************************************)
(* Instances of Notifications for TLC.                                     *)
(***************************************************************************)
EXTENDS Notifications

CONSTANTS k1, k2

\* Two conditions published one after the other, as firmwareInstall.
Chain == {<<k1, k2>>}

=============================================================================
