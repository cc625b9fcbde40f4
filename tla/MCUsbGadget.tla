----------------------------- MODULE MCUsbGadget ------------------------------
(***************************************************************************)
(* UsbGadget, instantiated for TLC: the build with all three functions.    *)
(***************************************************************************)
EXTENDS UsbGadget

=============================================================================
