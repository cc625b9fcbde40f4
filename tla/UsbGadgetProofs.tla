--------------------------- MODULE UsbGadgetProofs ----------------------------
(***************************************************************************)
(* Proofs about UsbGadget, for every build.                                *)
(***************************************************************************)
EXTENDS UsbGadget, TLAPS

\* The inductive invariant.
GadgetInv ==
  /\ TypeOK
  /\ CreationInv
  /\ EnabledComplete
  /\ StopRemoves
  /\ StartEnables

LEMMA EcmAlways == Functions # {} /\ Functions \subseteq {"acm", "ecm", "hss"}
  BY DEF Functions

\* There is a next function as long as there is one to do.
LEMMA FirstInTodo ==
  ASSUME TypeOK, todo # {}
  PROVE  First \in todo
<1>1. todo \subseteq {"acm", "ecm", "hss"}
  BY EcmAlways DEF TypeOK
<1>2. Rank["acm"] = 1 /\ Rank["ecm"] = 2 /\ Rank["hss"] = 3
  BY DEF Rank
<1>3. \E f \in todo : \A g \in todo : Rank[f] <= Rank[g]
  <2>1. CASE "acm" \in todo
    BY <1>1, <1>2, <2>1
  <2>2. CASE "acm" \notin todo /\ "ecm" \in todo
    BY <1>1, <1>2, <2>2
  <2>3. CASE todo = {"hss"}
    BY <1>2, <2>3
  <2> QED
    BY <1>1, <2>1, <2>2, <2>3
<1> QED
  BY <1>3 DEF First

LEMMA InitGadgetInv == Init => GadgetInv
  BY DEF Init, GadgetInv, TypeOK, CreationInv, EnabledComplete, StopRemoves,
     StartEnables

\* The program ends: what it leaves is what the three properties demand.
LEMMA ExitInv ==
  ASSUME GadgetInv, Exit, pc # "idle",
         gadget' \in BOOLEAN, functions' \subseteq Functions,
         config' \in BOOLEAN, linked' \subseteq functions',
         enabled' \in BOOLEAN, fault' \in BOOLEAN,
         ~gadget' => functions' = {} /\ ~config',
         linked' # {} => config',
         EnabledComplete',
         unit = "starting" => enabled' \/ fault',
         unit = "stopping" => ~gadget' \/ fault'
  PROVE  GadgetInv'
<1>1. unit \in {"starting", "stopping"}
  BY DEF GadgetInv, TypeOK, CreationInv
<1>2. TypeOK'
  BY <1>1 DEF Exit, TypeOK
<1>3. CreationInv'
  BY <1>1 DEF Exit, CreationInv
<1> QED
  BY <1>1, <1>2, <1>3 DEF GadgetInv, Exit, StopRemoves, StartEnables

LEMMA UnitInv == GadgetInv /\ (StartUnit \/ StopUnit \/ UsbgInit) => GadgetInv'
<1> SUFFICES ASSUME GadgetInv, StartUnit \/ StopUnit \/ UsbgInit
             PROVE  GadgetInv'
  OBVIOUS
<1>1. UNCHANGED configfs /\ EnabledComplete'
  <2>1. UNCHANGED configfs
    BY DEF StartUnit, StopUnit, UsbgInit
  <2> QED
    BY <2>1 DEF GadgetInv, EnabledComplete, Complete, configfs
<1>2. CASE Exit /\ fault' = fault /\ unit = "stopping" /\ ~gadget /\ pc = "init"
  BY <1>1, <1>2, ExitInv DEF GadgetInv, TypeOK, CreationInv, configfs
<1>3. CASE Fails /\ pc = "init"
  BY <1>1, <1>3, ExitInv DEF Fails, GadgetInv, TypeOK, CreationInv, configfs
<1>4. CASE StartUnit
  <2>1. fault' \in BOOLEAN /\ (fault' <=> fault /\ gadget)
    BY <1>4 DEF StartUnit
  <2>2. TypeOK' /\ unit' = "starting" /\ pc' = "init"
    BY <1>1, <1>4, <2>1 DEF StartUnit, GadgetInv, TypeOK, configfs
  <2>3. CreationInv'
    BY <1>1, <1>4, <2>1, <2>2 DEF StartUnit, GadgetInv, CreationInv,
       StopRemoves, configfs
  <2> QED
    BY <1>1, <2>2, <2>3 DEF GadgetInv, StopRemoves, StartEnables
<1>5. CASE StopUnit
  <2>1. TypeOK' /\ unit' = "stopping" /\ pc' = "init"
    BY <1>1, <1>5 DEF StopUnit, GadgetInv, TypeOK, configfs
  <2>2. CreationInv'
    BY <1>1, <1>5, <2>1 DEF StopUnit, GadgetInv, CreationInv, configfs
  <2> QED
    BY <1>1, <2>1, <2>2 DEF GadgetInv, StopRemoves, StartEnables
<1>6. CASE UsbgInit /\ pc' \in {"gadget", "disable"}
  <2>1. UNCHANGED <<unit, todo, fault>>
    BY <1>6 DEF UsbgInit, Fails, Exit
  <2> QED
    BY <1>1, <1>6, <2>1 DEF UsbgInit, Fails, Exit, GadgetInv, TypeOK,
       CreationInv, StopRemoves, StartEnables, configfs
<1> QED
  BY <1>2, <1>3, <1>4, <1>5, <1>6 DEF UsbgInit

LEMMA CreateGadgetInv == GadgetInv /\ CreateGadget => GadgetInv'
<1> SUFFICES ASSUME GadgetInv, CreateGadget PROVE GadgetInv'
  OBVIOUS
<1>1. pc = "gadget" /\ unit = "starting"
  BY DEF CreateGadget, GadgetInv, CreationInv
<1>2. CASE gadget /\ Exit /\ UNCHANGED <<gadget, fault>>
  BY <1>1, <1>2, ExitInv DEF CreateGadget, GadgetInv, TypeOK, CreationInv,
     EnabledComplete, Complete
<1>3. CASE ~gadget /\ gadget' \in BOOLEAN /\ Fails
  BY <1>1, <1>3, ExitInv DEF CreateGadget, Fails, GadgetInv, TypeOK,
     CreationInv, EnabledComplete, Complete
<1>4. CASE ~gadget /\ pc' = "functions" /\ todo' = Functions /\ gadget' = TRUE
           /\ UNCHANGED <<unit, fault>>
  BY <1>1, <1>4, EcmAlways DEF CreateGadget, GadgetInv, TypeOK, CreationInv,
     EnabledComplete, Complete, StopRemoves, StartEnables
<1> QED
  BY <1>2, <1>3, <1>4 DEF CreateGadget

LEMMA CreateFunctionInv == GadgetInv /\ CreateFunction => GadgetInv'
<1> SUFFICES ASSUME GadgetInv, CreateFunction PROVE GadgetInv'
  OBVIOUS
<1>1. pc = "functions" /\ unit = "starting" /\ gadget /\ ~enabled /\ ~config
      /\ linked = {}
  BY DEF CreateFunction, GadgetInv, CreationInv
<1>2. First \in todo /\ First \in Functions
  BY FirstInTodo, <1>1 DEF GadgetInv, TypeOK, CreationInv
<1>3. CASE functions' \in {functions, functions \cup {First}} /\ Fails
  BY <1>1, <1>2, <1>3, ExitInv DEF CreateFunction, Fails, GadgetInv, TypeOK,
     EnabledComplete
<1>4. ASSUME functions' = functions \cup {First}, UNCHANGED <<unit, fault>>,
             IF todo = {First} THEN pc' = "config" /\ todo' = Functions
             ELSE todo' = todo \ {First} /\ UNCHANGED pc
      PROVE  GadgetInv'
  <2>1. TypeOK' /\ EnabledComplete' /\ StopRemoves' /\ StartEnables'
    BY <1>1, <1>2, <1>4 DEF CreateFunction, GadgetInv, TypeOK, EnabledComplete,
       StopRemoves, StartEnables
  <2>2. CASE todo = {First}
    BY <1>1, <1>2, <1>4, <2>1, <2>2 DEF CreateFunction, GadgetInv, TypeOK,
       CreationInv
  <2>3. CASE todo # {First}
    <3>1. todo' # {} /\ functions' \cup todo' = Functions
      BY <1>1, <1>2, <1>4, <2>3 DEF GadgetInv, TypeOK, CreationInv
    <3> QED
      BY <1>1, <1>4, <2>1, <2>3, <3>1 DEF CreateFunction, GadgetInv, CreationInv
  <2> QED
    BY <2>2, <2>3
<1> QED
  BY <1>3, <1>4 DEF CreateFunction

LEMMA CreateConfigInv == GadgetInv /\ CreateConfig => GadgetInv'
<1> SUFFICES ASSUME GadgetInv, CreateConfig PROVE GadgetInv'
  OBVIOUS
<1>1. pc = "config" /\ unit = "starting" /\ gadget /\ ~enabled /\ linked = {}
  BY DEF CreateConfig, GadgetInv, CreationInv
<1>2. CASE config' \in BOOLEAN /\ Fails
  BY <1>1, <1>2, ExitInv DEF CreateConfig, Fails, GadgetInv, TypeOK,
     EnabledComplete
<1>3. CASE config' = TRUE /\ pc' = "add" /\ UNCHANGED <<unit, todo, fault>>
  <2>1. todo = Functions /\ linked = {} /\ functions = Functions
    BY <1>1 DEF GadgetInv, CreationInv
  <2>2. TypeOK'
    BY <1>1, <1>3 DEF CreateConfig, GadgetInv, TypeOK
  <2> QED
    BY <1>1, <1>3, <2>1, <2>2, EcmAlways DEF CreateConfig, GadgetInv,
       CreationInv, EnabledComplete, StopRemoves, StartEnables
<1> QED
  BY <1>2, <1>3 DEF CreateConfig

LEMMA AddFunctionInv == GadgetInv /\ AddFunction => GadgetInv'
<1> SUFFICES ASSUME GadgetInv, AddFunction PROVE GadgetInv'
  OBVIOUS
<1>1. pc = "add" /\ unit = "starting" /\ gadget /\ ~enabled /\ config
      /\ functions = Functions
  BY DEF AddFunction, GadgetInv, CreationInv
<1>2. First \in todo /\ First \in Functions
  BY FirstInTodo, <1>1 DEF GadgetInv, TypeOK, CreationInv
<1>3. CASE UNCHANGED linked /\ Fails
  BY <1>1, <1>3, ExitInv DEF AddFunction, Fails, GadgetInv, TypeOK,
     EnabledComplete
<1>4. ASSUME linked' = linked \cup {First}, todo' = todo \ {First},
             pc' = IF todo = {First} THEN "enable" ELSE "add",
             UNCHANGED <<unit, fault>>
      PROVE  GadgetInv'
  <2>1. TypeOK' /\ EnabledComplete' /\ StopRemoves' /\ StartEnables'
    BY <1>1, <1>2, <1>4 DEF AddFunction, GadgetInv, TypeOK, EnabledComplete,
       StopRemoves, StartEnables
  <2>2. linked' \cup todo' = Functions
    BY <1>1, <1>2, <1>4 DEF GadgetInv, TypeOK, CreationInv
  <2>3. CASE todo = {First}
    BY <1>1, <1>4, <2>1, <2>2, <2>3 DEF AddFunction, GadgetInv, TypeOK,
       CreationInv
  <2>4. CASE todo # {First}
    <3>1. todo' # {}
      BY <1>2, <1>4, <2>4
    <3> QED
      BY <1>1, <1>4, <2>1, <2>2, <2>4, <3>1 DEF AddFunction, GadgetInv,
         CreationInv
  <2> QED
    BY <2>3, <2>4
<1> QED
  BY <1>3, <1>4 DEF AddFunction

LEMMA EnableInv == GadgetInv /\ Enable => GadgetInv'
<1> SUFFICES ASSUME GadgetInv, Enable PROVE GadgetInv'
  OBVIOUS
<1>1. pc = "enable" /\ unit = "starting" /\ Complete
  BY DEF Enable, GadgetInv, CreationInv, Complete
<1>2. Complete' /\ Exit
  BY <1>1 DEF Enable, Fails, Complete
<1> QED
  BY <1>1, <1>2, ExitInv DEF Enable, Fails, GadgetInv, TypeOK, EnabledComplete,
     Complete, CreationInv

LEMMA DisableInv == GadgetInv /\ Disable => GadgetInv'
<1> SUFFICES ASSUME GadgetInv, Disable PROVE GadgetInv'
  OBVIOUS
<1>1. enabled' \in BOOLEAN /\ EnabledComplete'
  <2>1. enabled' = enabled \/ enabled' = FALSE
    BY DEF Disable
  <2>2. (Complete' <=> Complete) /\ enabled' \in BOOLEAN
    BY <2>1 DEF Disable, Complete, GadgetInv, TypeOK
  <2> QED
    BY <2>1, <2>2 DEF GadgetInv, EnabledComplete
<1>2. pc = "disable" /\ pc' = "remove" /\ unit = "stopping"
      /\ UNCHANGED <<unit, todo, fault, gadget, functions, config, linked>>
  BY DEF Disable, GadgetInv, CreationInv
<1> QED
  BY <1>1, <1>2 DEF GadgetInv, TypeOK, CreationInv, StopRemoves, StartEnables

\* A removal that stops half-way, or is complete, leaves nothing enabled that
\* lacks a function.
LEMMA RemovalTypes ==
  ASSUME GadgetInv, pc = "remove", PartlyRemoved \/ Removed
  PROVE  /\ gadget' \in BOOLEAN /\ functions' \subseteq Functions
         /\ config' \in BOOLEAN /\ linked' \subseteq functions'
         /\ enabled' \in BOOLEAN /\ EnabledComplete'
         /\ ~gadget' => functions' = {} /\ ~config'
         /\ linked' # {} => config'
<1>1. CASE Removed
  BY <1>1 DEF Removed, EnabledComplete
<1>2. CASE PartlyRemoved
  <2>1. /\ gadget' = TRUE /\ config' \in BOOLEAN /\ enabled' \in BOOLEAN
        /\ functions' \subseteq Functions
    BY <1>2 DEF PartlyRemoved, GadgetInv, TypeOK
  <2>2. linked' \subseteq functions'
    <3>1. CASE linked' = {}
      BY <3>1
    <3>2. CASE linked' # {}
      <4>1. linked # {} /\ config /\ config' = config
        BY <1>2, <3>2 DEF PartlyRemoved, GadgetInv, CreationInv
      <4>2. functions' = functions
        BY <1>2, <4>1 DEF PartlyRemoved
      <4> QED
        BY <1>2, <4>2 DEF PartlyRemoved, GadgetInv, TypeOK
    <3> QED
      BY <3>1, <3>2
  <2>3. ASSUME enabled' PROVE Complete'
    <3>1. enabled /\ linked' = linked /\ Complete
      BY <1>2, <2>3 DEF PartlyRemoved, GadgetInv, EnabledComplete
    <3>2. linked' # {} /\ config' = config
      BY <1>2, <3>1, EcmAlways DEF PartlyRemoved, Complete
    <3>3. functions' = functions
      BY <1>2, <3>1, <3>2 DEF PartlyRemoved, Complete
    <3> QED
      BY <2>1, <3>1, <3>2, <3>3 DEF Complete
  <2>4. linked' # {} => config'
    BY <1>2 DEF PartlyRemoved, GadgetInv, CreationInv
  <2> QED
    BY <2>1, <2>2, <2>3, <2>4 DEF EnabledComplete
<1> QED
  BY <1>1, <1>2

LEMMA RemoveGadgetInv == GadgetInv /\ RemoveGadget => GadgetInv'
<1> SUFFICES ASSUME GadgetInv, RemoveGadget PROVE GadgetInv'
  OBVIOUS
<1>1. pc = "remove" /\ unit = "stopping"
  BY DEF RemoveGadget, GadgetInv, CreationInv
<1>2. Exit /\ (~gadget' \/ fault') /\ fault' \in BOOLEAN
  BY DEF RemoveGadget, Removed, Fails, GadgetInv, TypeOK
<1> QED
  BY <1>1, <1>2, ExitInv, RemovalTypes DEF RemoveGadget

LEMMA KillInv == GadgetInv /\ Kill => GadgetInv'
<1> SUFFICES ASSUME GadgetInv, Kill PROVE GadgetInv'
  OBVIOUS
<1>1. CASE pc = "remove"
  BY <1>1, RemovalTypes DEF Kill, GadgetInv, TypeOK, CreationInv, StopRemoves,
     StartEnables
<1>2. CASE pc # "remove"
  BY <1>2 DEF Kill, configfs, GadgetInv, TypeOK, CreationInv, EnabledComplete,
     Complete, StopRemoves, StartEnables
<1> QED
  BY <1>1, <1>2

LEMMA BootInv == Boot => GadgetInv'
  BY DEF Boot, Removed, GadgetInv, TypeOK, CreationInv, EnabledComplete,
     StopRemoves, StartEnables

LEMMA GadgetInvariance == Spec => []GadgetInv
<1>1. GadgetInv /\ UNCHANGED vars => GadgetInv'
  BY DEF vars, GadgetInv, TypeOK, CreationInv, EnabledComplete, Complete,
     StopRemoves, StartEnables
<1>2. GadgetInv /\ [Next]_vars => GadgetInv'
  BY <1>1, UnitInv, CreateGadgetInv, CreateFunctionInv, CreateConfigInv,
     AddFunctionInv, EnableInv, DisableInv, RemoveGadgetInv, KillInv, BootInv
     DEF Next
<1> QED
  BY InitGadgetInv, <1>2, PTL DEF Spec

\* Type correctness, for every build: only functions that exist are in the
\* configuration.
THEOREM TypeCorrect == Spec => []TypeOK
<1>1. GadgetInv => TypeOK
  BY DEF GadgetInv
<1> QED
  BY GadgetInvariance, <1>1, PTL

\* An enabled gadget has every function of the build, whatever call of
\* create_usb_gadget() or destroy_usb_gadget() failed or was cut short.
THEOREM NeverEnabledPartly == Spec => []EnabledComplete
<1>1. GadgetInv => EnabledComplete
  BY DEF GadgetInv
<1> QED
  BY GadgetInvariance, <1>1, PTL

\* destroy removes whatever create left, unless one of its calls fails.
THEOREM RestartRecovers == Spec => []StopRemoves
<1>1. GadgetInv => StopRemoves
  BY DEF GadgetInv
<1> QED
  BY GadgetInvariance, <1>1, PTL

\* create enables the gadget, unless one of its calls fails or an earlier
\* fault left a gadget in the way.
THEOREM StartSucceeds == Spec => []StartEnables
<1>1. GadgetInv => StartEnables
  BY DEF GadgetInv
<1> QED
  BY GadgetInvariance, <1>1, PTL

=============================================================================
