-------------------------- MODULE MCControllerAPI --------------------------
(* Instances of ControllerAPI for TLC. *)
EXTENDS ControllerAPI

OneKind == {"firmwareInstallInband"}

=============================================================================
