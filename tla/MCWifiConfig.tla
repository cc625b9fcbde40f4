----------------------------- MODULE MCWifiConfig -----------------------------
(***************************************************************************)
(* WifiConfig, instantiated for TLC with two contents a client may send    *)
(* beside the empty one.                                                   *)
(***************************************************************************)
EXTENDS WifiConfig

CONSTANTS c1, c2

MCContents == {c1, c2}

=============================================================================
