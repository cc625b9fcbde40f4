------------------------------- MODULE MCDaemon -------------------------------
(***************************************************************************)
(* Daemon, instantiated for TLC.  Two addresses: the one in the file may   *)
(* not be the one that can be bound to.                                    *)
(***************************************************************************)
EXTENDS Daemon

MCAddresses == {"fd00::1", "fd00::2"}

=============================================================================
