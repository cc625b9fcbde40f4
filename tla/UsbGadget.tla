------------------------------ MODULE UsbGadget -------------------------------
(***************************************************************************)
(* xap-usb-gadget and its unit: "create" builds the USB gadget g1 in       *)
(* configfs, call by call, and enables it; "destroy" disables and removes  *)
(* it.  Every call may fail and the program may be killed between any two; *)
(* what was made stays in configfs until it is removed or the card boots.  *)
(* The program exits with 0 whatever happened, so the unit is then active, *)
(* and ExecStop runs when it is stopped; of a program that was killed the  *)
(* unit has failed, and ExecStop does not run.                             *)
(***************************************************************************)
EXTENDS Naturals

CONSTANTS
  Serial, \* built with XAP_SERIAL
  Hss     \* built with XAP_HSS

ASSUME BuildAssumption == Serial \in BOOLEAN /\ Hss \in BOOLEAN

Functions ==
  {"ecm"} \cup (IF Serial THEN {"acm"} ELSE {}) \cup (IF Hss THEN {"hss"} ELSE {})

\* The order in which the functions are created, and added.
Rank == [acm |-> 1, ecm |-> 2, hss |-> 3]

VARIABLES
  unit,      \* the state of xap-usb-gadget.service
  pc,        \* where the program is
  todo,      \* the functions still to be created, or to be added
  gadget,    \* configfs: whether g1 exists
  functions, \* its functions
  config,    \* whether it has its configuration
  linked,    \* the functions in the configuration
  enabled,   \* whether it is bound to a UDC
  fault      \* history: a call failed, or a kill, since the program started

vars == <<unit, pc, todo, gadget, functions, config, linked, enabled, fault>>

configfs == <<gadget, functions, config, linked, enabled>>

TypeOK ==
  /\ unit \in {"inactive", "starting", "active", "stopping"}
  /\ pc \in {"idle", "init", "gadget", "functions", "config", "add", "enable",
             "disable", "remove"}
  /\ todo \subseteq Functions
  /\ gadget \in BOOLEAN
  /\ functions \subseteq Functions
  /\ config \in BOOLEAN
  /\ linked \subseteq functions
  /\ enabled \in BOOLEAN
  /\ fault \in BOOLEAN

Init ==
  /\ unit = "inactive"
  /\ pc = "idle"
  /\ todo = {}
  /\ gadget = FALSE
  /\ functions = {}
  /\ config = FALSE
  /\ linked = {}
  /\ enabled = FALSE
  /\ fault = FALSE

(***************************************************************************)
(* The unit.  A fault that left a gadget behind is not forgotten by the    *)
(* start that finds it.                                                    *)
(***************************************************************************)
StartUnit ==
  /\ unit = "inactive"
  /\ unit' = "starting"
  /\ pc' = "init"
  /\ fault' = (fault /\ gadget)
  /\ UNCHANGED <<todo, configfs>>

StopUnit ==
  /\ unit = "active"
  /\ unit' = "stopping"
  /\ pc' = "init"
  /\ fault' = FALSE
  /\ UNCHANGED <<todo, configfs>>

\* main() returns 0.
Exit ==
  /\ pc' = "idle"
  /\ todo' = {}
  /\ unit' = IF unit = "starting" THEN "active" ELSE "inactive"

Fails == fault' = TRUE /\ Exit

-----------------------------------------------------------------------------
\* usbg_init() reads what there is in configfs; destroy looks g1 up in it, and
\* if there is none its calls only report errors.
UsbgInit ==
  /\ pc = "init"
  /\ \/ pc' = "gadget" /\ unit = "starting" /\ UNCHANGED <<unit, todo, fault>>
     \/ /\ unit = "stopping"
        /\ IF gadget THEN pc' = "disable" /\ UNCHANGED <<unit, todo>> ELSE Exit
        /\ UNCHANGED fault
     \/ Fails
  /\ UNCHANGED configfs

-----------------------------------------------------------------------------
(***************************************************************************)
(* create_usb_gadget().  A call that makes a directory and fails may leave *)
(* the directory.                                                          *)
(***************************************************************************)
CreateGadget ==
  /\ pc = "gadget"
  /\ \/ /\ ~gadget
        /\ pc' = "functions"
        /\ todo' = Functions
        /\ gadget' = TRUE
        /\ UNCHANGED <<unit, fault>>
     \/ gadget /\ Exit /\ UNCHANGED <<gadget, fault>>
     \/ ~gadget /\ gadget' \in BOOLEAN /\ Fails
  /\ UNCHANGED <<functions, config, linked, enabled>>

First == CHOOSE f \in todo : \A g \in todo : Rank[f] <= Rank[g]

\* A function that cannot be created is left out.
CreateOrSkip ==
  /\ pc = "functions"
  /\ functions' \in {functions, functions \cup {First}}
  /\ IF todo = {First}
       THEN pc' = "config" /\ todo' = Functions
       ELSE todo' = todo \ {First} /\ UNCHANGED pc
  /\ UNCHANGED <<unit, fault, gadget, config, linked, enabled>>

CreateFunction ==
  /\ pc = "functions"
  /\ \/ /\ functions' = functions \cup {First}
        /\ IF todo = {First}
             THEN pc' = "config" /\ todo' = Functions
             ELSE todo' = todo \ {First} /\ UNCHANGED pc
        /\ UNCHANGED <<unit, fault>>
     \/ functions' \in {functions, functions \cup {First}} /\ Fails
  /\ UNCHANGED <<gadget, config, linked, enabled>>

CreateConfig ==
  /\ pc = "config"
  /\ \/ config' = TRUE /\ pc' = "add" /\ UNCHANGED <<unit, todo, fault>>
     \/ config' \in BOOLEAN /\ Fails
  /\ UNCHANGED <<gadget, functions, linked, enabled>>

\* A function that cannot be added is left out.
AddOrSkip ==
  /\ pc = "add"
  /\ linked' \in {linked, linked \cup {First}}
  /\ todo' = todo \ {First}
  /\ pc' = IF todo = {First} THEN "enable" ELSE "add"
  /\ UNCHANGED <<unit, fault, gadget, functions, config, enabled>>

AddFunction ==
  /\ pc = "add"
  /\ \/ /\ linked' = linked \cup {First}
        /\ todo' = todo \ {First}
        /\ pc' = IF todo = {First} THEN "enable" ELSE "add"
        /\ UNCHANGED <<unit, fault>>
     \/ UNCHANGED linked /\ Fails
  /\ UNCHANGED <<gadget, functions, config, enabled>>

Enable ==
  /\ pc = "enable"
  /\ \/ enabled' = TRUE /\ Exit /\ UNCHANGED fault
     \/ UNCHANGED enabled /\ Fails
  /\ UNCHANGED <<gadget, functions, config, linked>>

-----------------------------------------------------------------------------
(***************************************************************************)
(* destroy_usb_gadget().  Disabling a gadget that is not enabled is an     *)
(* error too, and no error of it keeps the program from removing it.       *)
(***************************************************************************)
\* destroy returns when the gadget cannot be disabled.
DisableOrReturn ==
  /\ pc = "disable"
  /\ IF enabled
       THEN enabled' = FALSE /\ pc' = "remove" /\ UNCHANGED <<unit, todo>>
       ELSE UNCHANGED enabled /\ Exit
  /\ UNCHANGED <<fault, gadget, functions, config, linked>>

Disable ==
  /\ pc = "disable"
  /\ pc' = "remove"
  /\ enabled' \in {enabled, FALSE}
  /\ UNCHANGED <<unit, todo, fault, gadget, functions, config, linked>>

(***************************************************************************)
(* usbg_rm_gadget() with USBG_RM_RECURSE takes the functions out of the    *)
(* configuration, then removes the configuration, the functions and g1,    *)
(* and stops at the first error.  The kernel disables a gadget as soon as  *)
(* a function is taken out.                                                *)
(***************************************************************************)
Removed ==
  /\ gadget' = FALSE
  /\ functions' = {}
  /\ config' = FALSE
  /\ linked' = {}
  /\ enabled' = FALSE

PartlyRemoved ==
  /\ linked' \in SUBSET linked
  /\ config' \in IF linked' = {} THEN {config, FALSE} ELSE {config}
  /\ functions' \in IF config' THEN {functions} ELSE SUBSET functions
  /\ gadget' = TRUE
  /\ enabled' = (enabled /\ linked' = linked)

RemoveGadget ==
  /\ pc = "remove"
  /\ \/ Removed /\ Exit /\ UNCHANGED fault
     \/ PartlyRemoved /\ Fails

-----------------------------------------------------------------------------
\* The program is killed: the unit has failed, or is stopped.
Kill ==
  /\ pc # "idle"
  /\ pc' = "idle"
  /\ unit' = "inactive"
  /\ todo' = {}
  /\ fault' = TRUE
  /\ IF pc = "remove" THEN PartlyRemoved \/ Removed ELSE UNCHANGED configfs

Boot ==
  /\ unit' = "inactive"
  /\ pc' = "idle"
  /\ todo' = {}
  /\ Removed
  /\ fault' = FALSE

Next ==
  \/ StartUnit \/ StopUnit \/ UsbgInit
  \/ CreateGadget \/ CreateFunction \/ CreateConfig \/ AddFunction \/ Enable
  \/ Disable \/ RemoveGadget
  \/ Kill \/ Boot

Spec == Init /\ [][Next]_vars

-----------------------------------------------------------------------------
(***************************************************************************)
(* Properties.                                                             *)
(***************************************************************************)

Complete ==
  gadget /\ config /\ functions = Functions /\ linked = Functions

\* The host never sees a gadget that lacks a function, whichever calls of a
\* creation or a removal fail or are cut short.
EnabledComplete == enabled => Complete

\* A stop in which no call failed removes what is there, also the rest of a
\* creation that did not come to the end.
StopRemoves == unit = "inactive" => ~gadget \/ fault

\* A start in which no call fails enables the gadget, unless an earlier fault
\* left one that is in the way.
StartEnables == unit = "active" => enabled \/ fault

(***************************************************************************)
(* How far the program has come: the inductive part of the above.          *)
(***************************************************************************)
CreationInv ==
  /\ unit \in {"inactive", "active"} <=> pc = "idle"
  /\ pc \in {"gadget", "functions", "config", "add", "enable"}
       => unit = "starting"
  /\ pc \in {"disable", "remove"} => unit = "stopping" /\ gadget
  /\ pc = "functions" => todo # {} /\ functions \cup todo = Functions
  /\ pc = "config" => todo = Functions
  /\ pc = "add" => todo # {} /\ linked \cup todo = Functions /\ config
  /\ pc = "enable" => linked = Functions /\ config
  /\ pc \in {"functions", "config", "add", "enable"} => gadget /\ ~enabled
  /\ pc \in {"config", "add", "enable"} => functions = Functions
  /\ ~gadget => functions = {} /\ ~config
  /\ linked # {} => config
  /\ pc = "functions" => ~config /\ linked = {}
  /\ pc = "config" => linked = {}
  /\ unit = "starting" /\ gadget /\ pc \in {"init", "gadget"} => fault

=============================================================================
