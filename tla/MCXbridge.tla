------------------------------ MODULE MCXbridge -------------------------------
(***************************************************************************)
(* Xbridge, instantiated for TLC.  A batch of one frame and room for two   *)
(* of the host's: a batch ends with a frame still waiting.  A period of    *)
(* two seconds is the least that differs from the least timeout, one.      *)
(***************************************************************************)
EXTENDS Xbridge

MCKinds == [i \in Ifaces |->
              IF i = "usb" THEN {"solicitation", "other"}
              ELSE {"ipv6", "truncated"}]

\* The host's frames are the ones of which two things may become; two tagged
\* ones show a repetition and a change of order.
MCTags == [i \in Ifaces |-> IF i = "usb" THEN 2 ELSE 0]

MCRoom == [i \in Ifaces |-> IF i = "usb" THEN 2 ELSE 1]

=============================================================================
