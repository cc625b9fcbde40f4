----------------------------- MODULE UpdateCycle -----------------------------
(***************************************************************************)
(* The life cycle of a firmware update as a client of captived sees it:    *)
(* the four update states of firmware_manager::firmware_state() and the    *)
(* only ways in which a device may move between them.                      *)
(*                                                                         *)
(*              Start              Install             Boot                *)
(*     normal --------> downloading ------> downloaded ------> uncommitted *)
(*       ^ ^                |                                     |        *)
(*       | +----------------+                                     |        *)
(*       |      Abandon                    Settle                 |        *)
(*       +--------------------------------------------------------+        *)
(*                                                                         *)
(* An installed update is never given up and never made permanent before   *)
(* it has booted: nothing leaves "downloaded" but Boot.                    *)
(***************************************************************************)

VARIABLE stage

Stages == {"normal", "downloading", "downloaded", "uncommitted"}

Init == stage \in Stages \ {"downloading"}

Move(from, to) == stage = from /\ stage' = to

Start   == Move("normal", "downloading")
Abandon == Move("downloading", "normal")
Install == Move("downloading", "downloaded")
Boot    == Move("downloaded", "uncommitted")
Settle  == Move("uncommitted", "normal")

Next == Start \/ Abandon \/ Install \/ Boot \/ Settle

Spec == Init /\ [][Next]_stage

=============================================================================
