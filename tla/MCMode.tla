-------------------------------- MODULE MCMode --------------------------------
(***************************************************************************)
(* Mode, instantiated for TLC with the modes of the firmware: the two that *)
(* is_valid_mode() accepts and one it refuses.                             *)
(***************************************************************************)
EXTENDS Mode

MCModes == {"secure-host", "passthrough"}
MCOtherModes == {"secure-lan"}

=============================================================================
