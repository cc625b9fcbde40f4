------------------------------ MODULE MCFirmware ------------------------------
(***************************************************************************)
(* Firmware, instantiated for TLC.  Three pids let an installer be forked  *)
(* beside two menders that have outlived theirs; a wait status of 256 is   *)
(* mender's exit code 1 and one of 9 is SIGKILL; one trial boot is allowed *)
(* before the rollback.                                                    *)
(***************************************************************************)
EXTENDS Firmware

CONSTANTS p1, p2, p3, u1, u2

MCPids == {p1, p2, p3}
MCUris == {u1, u2}
MCExitCodes == {0, 1}
MCSignals == {9}
MCBootLimit == 1
MCMaxBootcount == 3

=============================================================================
