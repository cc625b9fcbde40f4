----------------------------- MODULE DaemonProofs -----------------------------
(***************************************************************************)
(* Proofs about Daemon, for any set of addresses.                          *)
(***************************************************************************)
EXTENDS Daemon, Integers, TLAPS

\* The inductive invariant of the initial task.
LinkInv ==
  /\ TypeOK
  /\ TaskInv
  /\ LinkMade

LEMMA InitLinkInv == Init => LinkInv
  BY DEF Init, LinkInv, TypeOK, TaskInv, LinkMade, Links, InTask, AfterTask,
     Signals

LEMMA DieTypeOK ==
  ASSUME TypeOK, Die, UNCHANGED <<fault, file, usable>>
  PROVE  TypeOK'
<1>1. fault' \in BOOLEAN
  BY DEF TypeOK
<1> QED
  BY <1>1 DEF TypeOK, Die, Links

LEMMA NextTypeOK == TypeOK /\ [Next]_vars => TypeOK'
<1> SUFFICES ASSUME TypeOK, [Next]_vars PROVE TypeOK'
  OBVIOUS
<1> USE DEF TypeOK, path, network, server, loop
<1>1. CASE Start
  BY <1>1 DEF Start, InTask
<1>2. CASE Lstat
  BY <1>2 DEF Lstat, Links, InTask
<1>3. CASE Readlink
  BY <1>3 DEF Readlink, InTask, AfterTask
<1>4. CASE Remove \/ RemoveDir \/ Symlink
  <2>1. CASE Remove
    BY <2>1 DEF Remove, Links, InTask, AfterTask
  <2>2. CASE RemoveDir
    BY <2>2 DEF RemoveDir, Links, InTask, AfterTask
  <2>3. CASE Symlink
    BY <2>3 DEF Symlink, Links, AfterTask
  <2> QED
    BY <1>4, <2>1, <2>2, <2>3
<1>5. CASE ReadAddress \/ Bind
  BY <1>5 DEF ReadAddress, Bind, AfterTask
<1>6. CASE HandleInt \/ HandleTerm
  BY <1>6 DEF HandleInt, HandleTerm, Signals, AfterTask
<1>7. CASE EndDispatch \/ NetworkChanges \/ LinkChanges
  <2>1. CASE EndDispatch
    BY <2>1 DEF EndDispatch, AfterTask
  <2>2. CASE NetworkChanges
    BY <2>2 DEF NetworkChanges
  <2>3. CASE LinkChanges
    BY <2>3 DEF LinkChanges
  <2> QED
    BY <1>7, <2>1, <2>2, <2>3
<1>8. CASE While \/ Kill
  BY <1>8, DieTypeOK DEF While, Kill, AfterTask
<1>9. ASSUME NEW signal \in Signals, Signal(signal) PROVE TypeOK'
  <2>1. CASE signal \in handled
    <3>1. /\ pending' = pending \cup {signal}
          /\ UNCHANGED <<pc, link, continue_running, handled, told, server>>
          /\ UNCHANGED <<fault, network>>
      BY <1>9, <2>1 DEF Signal
    <3>2. pending' \subseteq handled'
      BY <2>1, <3>1
    <3> QED
      BY <3>1, <3>2
  <2>2. CASE signal \notin handled
    BY <1>9, <2>2, DieTypeOK DEF Signal
  <2> QED
    BY <2>1, <2>2
<1>10. CASE SignalCallback
  BY <1>10, DieTypeOK DEF SignalCallback
<1>11. CASE UNCHANGED vars
  BY <1>11 DEF vars
<1> QED
  BY <1>1, <1>2, <1>3, <1>4, <1>5, <1>6, <1>7, <1>8, <1>9, <1>10, <1>11
     DEF Next, Task, Setup

\* A step outside the task that neither starts nor ends captived.
LEMMA OutsideTask ==
  ASSUME LinkInv, pc' \in AfterTask, pc \in AfterTask,
         UNCHANGED <<link, fault>>
  PROVE  TaskInv' /\ LinkMade'
  BY DEF LinkInv, TaskInv, LinkMade, AfterTask

LEMMA NextTaskInv == LinkInv /\ [Next]_vars => TaskInv' /\ LinkMade'
<1> SUFFICES ASSUME LinkInv, [Next]_vars PROVE TaskInv' /\ LinkMade'
  OBVIOUS
<1>1. CASE Start
  BY <1>1 DEF Start, TaskInv, LinkMade, AfterTask
<1>2. CASE Lstat
  BY <1>2 DEF Lstat, LinkInv, TypeOK, Links, TaskInv, LinkMade, AfterTask
<1>3. CASE Readlink
  BY <1>3 DEF Readlink, LinkInv, TaskInv, LinkMade, AfterTask
<1>4. CASE Remove \/ RemoveDir
  BY <1>4 DEF Remove, RemoveDir, TaskInv, LinkMade, AfterTask
<1>5. CASE Symlink
  BY <1>5 DEF Symlink, LinkInv, TaskInv, LinkMade, AfterTask
<1>6. CASE Setup \/ EndDispatch
  BY <1>6, OutsideTask DEF Setup, ReadAddress, Bind, HandleInt, HandleTerm,
     EndDispatch, AfterTask, path
<1>7. CASE pc' = "down"
  BY <1>7 DEF TaskInv, LinkMade, AfterTask
<1>8. CASE UNCHANGED <<pc, link, fault>>
  BY <1>8 DEF LinkInv, TaskInv, LinkMade, AfterTask
<1>9. CASE NetworkChanges
  BY <1>8, <1>9 DEF NetworkChanges, path
<1>10. CASE While
  BY <1>7, <1>10, OutsideTask DEF While, Die, AfterTask
<1>11. CASE LinkChanges \/ Kill
  BY <1>7, <1>11 DEF LinkChanges, Kill, Die
<1>12. ASSUME NEW signal \in Signals, Signal(signal)
       PROVE  TaskInv' /\ LinkMade'
  BY <1>7, <1>8, <1>12 DEF Signal, Die
<1>13. CASE SignalCallback
  BY <1>7, <1>8, <1>13 DEF SignalCallback, Die
<1>14. CASE UNCHANGED vars
  BY <1>8, <1>14 DEF vars
<1> QED
  BY <1>1, <1>2, <1>3, <1>4, <1>5, <1>6, <1>9, <1>10, <1>11, <1>12, <1>13,
     <1>14 DEF Next, Task

LEMMA LinkInvariance == Spec => []LinkInv
<1>1. LinkInv /\ [Next]_vars => LinkInv'
  BY NextTypeOK, NextTaskInv DEF LinkInv
<1> QED
  BY InitLinkInv, <1>1, PTL DEF Spec

\* Type correctness, for any addresses: a signal only waits for its callback
\* when it has a handler.
THEOREM TypeCorrect == Spec => []TypeOK
<1>1. LinkInv => TypeOK
  BY DEF LinkInv
<1> QED
  BY LinkInvariance, <1>1, PTL

\* Whatever was at secure-lan, and wherever create_symlink_to_config_dir() was
\* cut short before, captived serves with the right link unless a call failed
\* or a special file is in the way.
THEOREM ServesWithLink == Spec => []LinkMade
<1>1. LinkInv => LinkMade
  BY DEF LinkInv
<1> QED
  BY LinkInvariance, <1>1, PTL

LEMMA StepKeepsLink ==
  LinkInv /\ [Next]_vars =>
    (link = "right" /\ pc # "down" /\ ~fault' => link' = "right")
<1> SUFFICES ASSUME LinkInv, [Next]_vars,
                    link = "right", pc # "down", ~fault'
             PROVE  link' = "right"
  OBVIOUS
<1>1. CASE Task
  BY <1>1 DEF Task, Lstat, Readlink, Remove, RemoveDir, Symlink, LinkInv,
     TaskInv
<1>2. CASE Die
  BY <1>2 DEF Die, LinkInv, TaskInv
<1>3. CASE UNCHANGED link
  BY <1>3
<1>4. CASE Start \/ LinkChanges \/ NetworkChanges \/ EndDispatch
  BY <1>3, <1>4 DEF Start, LinkChanges, NetworkChanges, EndDispatch, path
<1>5. CASE Setup
  BY <1>3, <1>5 DEF Setup, ReadAddress, Bind, HandleInt, HandleTerm, path
<1>6. CASE While \/ Kill
  BY <1>2, <1>3, <1>6 DEF While, Kill
<1>7. ASSUME NEW signal \in Signals, Signal(signal) PROVE link' = "right"
  BY <1>2, <1>3, <1>7 DEF Signal
<1>8. CASE SignalCallback
  BY <1>2, <1>3, <1>8 DEF SignalCallback
<1>9. CASE UNCHANGED vars
  BY <1>3, <1>9 DEF vars
<1> QED
  BY <1>1, <1>4, <1>5, <1>6, <1>7, <1>8, <1>9 DEF Next

\* A right link is left alone at every start, unless it cannot be examined.
THEOREM RightLinkKept == Spec => LinkKept
<1>1. LinkInv /\ [Next]_vars =>
        [link = "right" /\ pc # "down" /\ ~fault' => link' = "right"]_vars
  BY StepKeepsLink
<1> QED
  BY LinkInvariance, <1>1, PTL DEF Spec, LinkKept

-----------------------------------------------------------------------------
(***************************************************************************)
(* The way of the start to the loop: the part of Serves that is safety.    *)
(***************************************************************************)

\* The steps of captived from `at' until it serves, when the address in the file
\* can be bound to; an address of the past, read before, is tried once more.
StepsFrom(at, read, now) ==
  CASE at = "lstat"                 -> 10
    [] at = "readlink"              -> 9
    [] at \in {"remove", "rm -rf"}  -> 8
    [] at = "symlink"               -> 7
    [] at = "bind" /\ read # now    -> 6
    [] at = "address"               -> 5
    [] at = "bind" /\ read = now    -> 4
    [] at = "sigint"                -> 3
    [] at = "sigterm"               -> 2
    [] at = "while"                 -> 1
    [] OTHER                        -> 0

StepsToServe == StepsFrom(pc, ctrl_addr, file)

\* The table, without the cases.
LEMMA Steps ==
  ASSUME NEW at, NEW read, NEW now
  PROVE  /\ at = "lstat" => StepsFrom(at, read, now) = 10
         /\ at = "readlink" => StepsFrom(at, read, now) = 9
         /\ at = "remove" => StepsFrom(at, read, now) = 8
         /\ at = "rm -rf" => StepsFrom(at, read, now) = 8
         /\ at = "symlink" => StepsFrom(at, read, now) = 7
         /\ at = "bind" /\ read # now => StepsFrom(at, read, now) = 6
         /\ at = "address" => StepsFrom(at, read, now) = 5
         /\ at = "bind" /\ read = now => StepsFrom(at, read, now) = 4
         /\ at = "sigint" => StepsFrom(at, read, now) = 3
         /\ at = "sigterm" => StepsFrom(at, read, now) = 2
         /\ at = "while" => StepsFrom(at, read, now) = 1
         /\ at = "dispatch" => StepsFrom(at, read, now) = 0
         /\ at = "down" => StepsFrom(at, read, now) = 0
  BY DEF StepsFrom

\* The file keeps naming an address that can be bound to.
AddressStays == file \in usable /\ file' = file /\ file' \in usable'

\* While it does, nothing takes a starting captived away from the loop, and
\* each step of its own takes it nearer.
ComesToServe ==
  AddressStays /\ pc \notin {"down", "dispatch"} =>
    /\ StepsToServe' <= StepsToServe
    /\ Task \/ Setup \/ While => StepsToServe' < StepsToServe

\* There are at most ten, and some as long as captived has not come to serve.
LEMMA StepsBound ==
  TypeOK =>
    /\ StepsToServe \in 0..10
    /\ pc \notin {"down", "dispatch"} => StepsToServe \in 1..10
<1> SUFFICES ASSUME TypeOK
             PROVE  /\ StepsToServe \in 0..10
                    /\ pc \notin {"down", "dispatch"} => StepsToServe \in 1..10
  OBVIOUS
<1>1. \/ pc = "down" \/ pc = "lstat" \/ pc = "readlink" \/ pc = "remove"
      \/ pc = "rm -rf" \/ pc = "symlink" \/ pc = "address" \/ pc = "bind"
      \/ pc = "sigint" \/ pc = "sigterm" \/ pc = "while" \/ pc = "dispatch"
  BY DEF TypeOK, InTask, AfterTask
<1>2. CASE pc = "down" \/ pc = "dispatch"
  <2>1. StepsToServe = 0
    BY <1>2, Steps DEF StepsToServe
  <2> QED
    BY <1>2, <2>1
<1>3. CASE pc # "down" /\ pc # "dispatch"
  <2>1. \/ StepsToServe = 1 \/ StepsToServe = 2 \/ StepsToServe = 3
        \/ StepsToServe = 4 \/ StepsToServe = 5 \/ StepsToServe = 6
        \/ StepsToServe = 7 \/ StepsToServe = 8 \/ StepsToServe = 9
        \/ StepsToServe = 10
    BY <1>1, <1>3, Steps DEF StepsToServe
  <2> QED
    BY <2>1
<1> QED
  BY <1>2, <1>3

\* The end of the process is an end of the start, which it has to begin anew.
LEMMA EndedStart ==
  ASSUME TypeOK, pc \notin {"down", "dispatch"}, pc' = "down"
  PROVE  StepsToServe' < StepsToServe
<1>1. StepsToServe' = 0
  BY Steps DEF StepsToServe
<1>2. StepsToServe \in 1..10
  BY StepsBound
<1> QED
  BY <1>1, <1>2

\* Only captived changes where it is and the address it has read.
LEMMA StartWaits ==
  ASSUME TypeOK, UNCHANGED <<pc, ctrl_addr, file>>
  PROVE  StepsToServe' <= StepsToServe
<1>1. StepsToServe' = StepsToServe
  BY DEF StepsToServe
<1>2. StepsToServe \in 0..10
  BY StepsBound
<1> QED
  BY <1>1, <1>2

\* Each step of create_symlink_to_config_dir() goes on in it or to the server.
LEMMA TaskComesToServe ==
  ASSUME TypeOK, Task
  PROVE  StepsToServe' < StepsToServe
<1> USE DEF StepsToServe
<1>1. CASE Lstat
  <2>1. pc = "lstat" /\ (pc' = "symlink" \/ pc' = "readlink" \/ pc' = "remove" \/ pc' = "rm -rf")
    BY <1>1 DEF Lstat, TypeOK, Links
  <2>2. StepsToServe = 10
    BY <2>1, Steps
  <2>3. StepsToServe' = 9 \/ StepsToServe' = 8 \/ StepsToServe' = 7
    BY <2>1, Steps
  <2> QED
    BY <2>2, <2>3
<1>2. CASE Readlink
  <2>1. pc = "readlink" /\ (pc' = "address" \/ pc' = "remove")
    BY <1>2 DEF Readlink
  <2>2. StepsToServe = 9
    BY <2>1, Steps
  <2>3. StepsToServe' = 8 \/ StepsToServe' = 5
    BY <2>1, Steps
  <2> QED
    BY <2>2, <2>3
<1>3. CASE Remove
  <2>1. pc = "remove" /\ (pc' = "symlink" \/ pc' = "address")
    BY <1>3 DEF Remove
  <2>2. StepsToServe = 8
    BY <2>1, Steps
  <2>3. StepsToServe' = 7 \/ StepsToServe' = 5
    BY <2>1, Steps
  <2> QED
    BY <2>2, <2>3
<1>4. CASE RemoveDir
  <2>1. pc = "rm -rf" /\ (pc' = "symlink" \/ pc' = "address")
    BY <1>4 DEF RemoveDir
  <2>2. StepsToServe = 8
    BY <2>1, Steps
  <2>3. StepsToServe' = 7 \/ StepsToServe' = 5
    BY <2>1, Steps
  <2> QED
    BY <2>2, <2>3
<1>5. CASE Symlink
  <2>1. pc = "symlink" /\ pc' = "address"
    BY <1>5 DEF Symlink
  <2>2. StepsToServe = 7
    BY <2>1, Steps
  <2>3. StepsToServe' = 5
    BY <2>1, Steps
  <2> QED
    BY <2>2, <2>3
<1> QED
  BY <1>1, <1>2, <1>3, <1>4, <1>5 DEF Task

\* A failure to bind is followed by a reading of the address, and what is read
\* now is bound to.
LEMMA SetupComesToServe ==
  ASSUME AddressStays, Setup
  PROVE  StepsToServe' < StepsToServe
<1> USE DEF StepsToServe
<1>1. CASE ReadAddress
  <2>1. pc = "address" /\ pc' = "bind" /\ ctrl_addr' = file'
    BY <1>1 DEF ReadAddress, AddressStays
  <2>2. StepsToServe = 5
    BY <2>1, Steps
  <2>3. StepsToServe' = 4
    BY <2>1, Steps
  <2> QED
    BY <2>2, <2>3
<1>2. CASE Bind
  <2>1. CASE ctrl_addr = file
    <3>1. pc = "bind" /\ pc' = "sigint"
      BY <1>2, <2>1 DEF Bind, AddressStays
    <3>2. StepsToServe = 4
      BY <2>1, <3>1, Steps
    <3>3. StepsToServe' = 3
      BY <3>1, Steps
    <3> QED
      BY <3>2, <3>3
  <2>2. CASE ctrl_addr # file
    <3>1. pc = "bind" /\ (pc' = "sigint" \/ pc' = "address")
      BY <1>2 DEF Bind
    <3>2. StepsToServe = 6
      BY <2>2, <3>1, Steps
    <3>3. StepsToServe' = 3 \/ StepsToServe' = 5
      BY <3>1, Steps
    <3> QED
      BY <3>2, <3>3
  <2> QED
    BY <2>1, <2>2
<1>3. CASE HandleInt
  <2>1. pc = "sigint" /\ pc' = "sigterm"
    BY <1>3 DEF HandleInt
  <2>2. StepsToServe = 3
    BY <2>1, Steps
  <2>3. StepsToServe' = 2
    BY <2>1, Steps
  <2> QED
    BY <2>2, <2>3
<1>4. CASE HandleTerm
  <2>1. pc = "sigterm" /\ pc' = "while"
    BY <1>4 DEF HandleTerm
  <2>2. StepsToServe = 2
    BY <2>1, Steps
  <2>3. StepsToServe' = 1
    BY <2>1, Steps
  <2> QED
    BY <2>2, <2>3
<1> QED
  BY <1>1, <1>2, <1>3, <1>4 DEF Setup

LEMMA WhileComesToServe ==
  ASSUME While
  PROVE  StepsToServe' < StepsToServe
<1>1. pc = "while" /\ (pc' = "dispatch" \/ pc' = "down")
  BY DEF While, Die
<1>2. StepsToServe = 1
  BY <1>1, Steps DEF StepsToServe
<1>3. StepsToServe' = 0
  BY <1>1, Steps DEF StepsToServe
<1> QED
  BY <1>2, <1>3

LEMMA NextComesToServe == TypeOK /\ [Next]_vars => ComesToServe
<1> SUFFICES ASSUME TypeOK, [Next]_vars,
                    AddressStays, pc \notin {"down", "dispatch"}
             PROVE  /\ StepsToServe' <= StepsToServe
                    /\ Task \/ Setup \/ While => StepsToServe' < StepsToServe
  BY DEF ComesToServe
<1>1. Task \/ Setup \/ While => StepsToServe' < StepsToServe
  BY TaskComesToServe, SetupComesToServe, WhileComesToServe
<1>2. StepsToServe' < StepsToServe => StepsToServe' <= StepsToServe
  <2>1. StepsToServe \in 0..10
    BY StepsBound
  <2>2. (StepsToServe \in 0..10)'
    <3>1. TypeOK'
      BY NextTypeOK
    <3> QED
      BY <3>1, StepsBound, PTL
  <2> QED
    BY <2>1, <2>2
<1>3. Die => StepsToServe' <= StepsToServe
  BY <1>2, EndedStart DEF Die
<1>4. ~Start /\ ~EndDispatch /\ ~LinkChanges /\ ~SignalCallback
  BY DEF Start, EndDispatch, LinkChanges, SignalCallback
<1>5. StepsToServe' <= StepsToServe
  <2>1. CASE Task \/ Setup \/ While
    BY <1>1, <1>2, <2>1
  <2>2. CASE NetworkChanges
    BY <2>2, StartWaits DEF NetworkChanges, server, AddressStays
  <2>3. CASE Kill
    BY <1>3, <2>3 DEF Kill
  <2>4. ASSUME NEW signal \in Signals, Signal(signal)
        PROVE  StepsToServe' <= StepsToServe
    BY <1>3, <2>4, StartWaits DEF Signal, server, network
  <2>5. CASE UNCHANGED vars
    BY <2>5, StartWaits DEF vars, server, network
  <2> QED
    BY <1>4, <2>1, <2>2, <2>3, <2>4, <2>5 DEF Next
<1> QED
  BY <1>1, <1>5

\* For any addresses: once the file names one that can be bound to, captived
\* is at most ten steps of its own away from serving, whatever it had read, and
\* no step of the network or of a signal puts it back.
THEOREM StartComesToServe == Spec => [][ComesToServe]_vars
<1>1. LinkInv /\ [Next]_vars => [ComesToServe]_vars
  BY NextComesToServe DEF LinkInv
<1> QED
  BY LinkInvariance, <1>1, PTL DEF Spec

=============================================================================
