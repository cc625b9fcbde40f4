---------------------------- MODULE XbridgeProofs -----------------------------
(***************************************************************************)
(* Proofs about Xbridge, for every traffic, batch, buffer size and period. *)
(***************************************************************************)
EXTENDS Xbridge, TLAPS

USE DEF Ifaces

LEMMA Empty == \A S : [i \in Ifaces |-> << >>] \in [Ifaces -> Seq(S)]
OBVIOUS

LEMMA Bounds == Batch \in 0 .. Batch /\ Period \in -1 .. Period /\ 0 \in 0 .. Period
                /\ -1 \in -1 .. Period
BY BoundsAssumption

LEMMA InitTypeOK == Init => TypeOK
<1> SUFFICES ASSUME Init PROVE TypeOK
  OBVIOUS
<1>1. ring \in [Ifaces -> Seq(Frames)] /\ fate \in [Ifaces -> Seq(Nat)]
  BY Empty DEF Init
<1>2. tagged \in [Ifaces -> Nat]
  BY DEF Init
<1> QED
  BY <1>1, <1>2, Bounds DEF Init, TypeOK, Control

\* What Init, and every step, does to a captured frame keeps it a frame.
LEMMA NextTypeOK == TypeOK /\ [Next]_vars => TypeOK'
<1> SUFFICES ASSUME TypeOK, [Next]_vars PROVE TypeOK'
  OBVIOUS
<1> USE KindsAssumption, BoundsAssumption
        DEF TypeOK, Control, flags, clock, traffic
<1>1. CASE Start
  BY <1>1, Empty, Bounds DEF Start
<1>2. CASE \E i \in Ifaces : Capture(i)
  <2> PICK i \in Ifaces : Capture(i)
    BY <1>2
  <2>1. PICK kind \in Kinds[i], tag \in {0, tagged[i] + 1} \cap (0 .. Tags[i]) :
          /\ ring' = [ring EXCEPT ![i] = Append(@, [kind |-> kind, tag |-> tag])]
          /\ tagged' = IF tag = 0 THEN tagged ELSE [tagged EXCEPT ![i] = tag]
    BY DEF Capture
  <2>2. [kind |-> kind, tag |-> tag] \in Frames
    BY DEF Frames
  <2>3. ring' \in [Ifaces -> Seq(Frames)]
    BY <2>1, <2>2
  <2>4. tagged' \in [Ifaces -> Nat]
    BY <2>1
  <2> QED
    BY <2>3, <2>4 DEF Capture
<1>3. CASE Tick
  BY <1>3 DEF Tick
<1>4. CASE Signal
  BY <1>4 DEF Signal, Woken
<1>5. CASE Test
  BY <1>5 DEF Test
<1>6. CASE Enter \/ Select
  BY <1>6 DEF Enter, Select, Captured
<1>7. CASE Callback
  <2>1. Current \in Ifaces /\ Head(ring[Current]) \in Frames
    BY <1>7 DEF Callback, Take, Current
  <2>2. ring' \in [Ifaces -> Seq(Frames)]
    BY <1>7, <2>1 DEF Callback, Take
  <2>3. malformed' \in BOOLEAN
    BY <1>7 DEF Callback, SendPacket, SendNeighborAdvert
  <2>4. fate' \in [Ifaces -> Seq(Nat)]
    <3>1. Head(ring[Current]).tag \in Nat
      BY <2>1 DEF Frames
    <3>2. CASE Note(Head(ring[Current]))
      BY <2>1, <3>1, <3>2 DEF Note
    <3>3. CASE UNCHANGED fate
      BY <3>3
    <3> QED
      BY <1>7, <3>2, <3>3 DEF Callback
  <2> QED
    BY <1>7, <2>2, <2>3, <2>4 DEF Callback, Take
<1>8. CASE EndDispatch
  BY <1>8, Bounds DEF EndDispatch
<1>9. CASE ShowStats \/ ClearStats
  BY <1>9 DEF ShowStats, ClearStats
<1>10. CASE Advert
  BY <1>10 DEF Advert, SendPacket, SendNeighborAdvert
<1>11. CASE Reset
  BY <1>11, Bounds DEF Reset
<1>12. CASE UNCHANGED vars
  BY <1>12 DEF vars
<1> QED
  BY <1>1, <1>2, <1>3, <1>4, <1>5, <1>6, <1>7, <1>8, <1>9, <1>10, <1>11, <1>12
     DEF Next, Loop

\* The loop's state stays in its ranges: the timeout of select() among them,
\* which is never negative, and the budget of a batch.
THEOREM TypeCorrect == Spec => []TypeOK
<1> QED
  BY InitTypeOK, NextTypeOK, PTL DEF Spec

-----------------------------------------------------------------------------

LEMMA NextWellFormed == WellFormed /\ [Next]_vars => WellFormed'
<1> SUFFICES ASSUME WellFormed, [Next]_vars, strip' PROVE ~malformed'
  BY DEF WellFormed
<1>1. strip /\ ~malformed
  BY DEF WellFormed, Next, Loop, vars, Start, Capture, Tick, Signal, Test, Enter,
         Select, Callback, EndDispatch, ShowStats, ClearStats, Advert, Reset
<1>2. /\ Handling("usb") = "prepend" /\ Handling("net") = "strip"
      /\ LinkHeaders("usb") = 1 /\ LinkHeaders("net") = 0
  BY <1>1 DEF Handling, LinkHeaders
<1>3. Injected("usb", 0) = 1 /\ Injected("net", 1) = 0
  BY <1>2 DEF Injected
<1>4. ASSUME NEW iface \in Ifaces, SendPacket(iface, LinkHeaders(Other(iface)))
      PROVE  ~malformed'
  BY <1>1, <1>4, <1>2, <1>3 DEF SendPacket, Other, Ifaces
<1>5. SendNeighborAdvert("usb") => ~malformed'
  BY <1>1, <1>2, <1>3 DEF SendNeighborAdvert, SendPacket
<1>6. CASE Callback
  <2> DEFINE iface == Other(Current)
  <2>1. iface \in Ifaces /\ Other(iface) = Current
    BY DEF Other, Current, Ifaces
  <2>2. CASE SendPacket(iface, LinkHeaders(Current))
    BY <1>4, <2>1, <2>2
  <2>3. CASE Answered(iface, Head(ring[Current])) /\ SendNeighborAdvert(Other(iface))
    <3>1. Other(iface) = "usb"
      BY <2>1, <2>3 DEF Answered, Handling, Other, Ifaces
    <3> QED
      BY <1>5, <2>3, <3>1
  <2>4. CASE UNCHANGED malformed
    BY <1>1, <2>4
  <2> QED
    BY <1>6, <2>2, <2>3, <2>4 DEF Callback
<1>7. CASE Advert
  BY <1>1, <1>5, <1>7 DEF Advert
<1>8. CASE ~(Callback \/ Advert)
  <2>1. UNCHANGED malformed
    BY <1>8 DEF Next, Loop, vars, Start, Capture, Tick, Signal, Test, Enter,
         Select, EndDispatch, ShowStats, ClearStats, Reset, traffic, clock, flags
  <2> QED
    BY <1>1, <2>1
<1> QED
  BY <1>6, <1>7, <1>8

\* With -2 every injected packet has the Ethernet header of its interface and no
\* other: sendPacket() is only given packets that its interface expects.
THEOREM FramesWellFormed == Spec => []WellFormed
<1>1. Init => WellFormed
  BY DEF Init, WellFormed
<1> QED
  BY <1>1, NextWellFormed, PTL DEF Spec

-----------------------------------------------------------------------------

OrderInv == TypeOK /\ OnceInOrder /\ \A i \in Ifaces : InOrder(i)

LEMMA InitOrder == Init => OrderInv
<1> SUFFICES ASSUME Init PROVE OrderInv
  OBVIOUS
<1>1. \A i \in Ifaces : ring[i] = << >> /\ fate[i] = << >>
  BY DEF Init
<1>2. OnceInOrder
  BY <1>1 DEF OnceInOrder
<1>3. \A i \in Ifaces : InOrder(i)
  BY <1>1 DEF InOrder
<1> QED
  BY <1>2, <1>3, InitTypeOK DEF OrderInv

\* A frame joins the buffer with a tag greater than all the others.
LEMMA CaptureOrder ==
  ASSUME OrderInv, NEW i \in Ifaces, Capture(i), NEW j \in Ifaces
  PROVE  InOrder(j)'
<1> USE DEF TypeOK
<1>1. UNCHANGED fate /\ (j # i => UNCHANGED <<ring[j], tagged[j]>>)
  BY DEF Capture, OrderInv
<1>2. CASE j # i
  BY <1>1, <1>2 DEF OrderInv, InOrder
<1>3. CASE j = i
  <2>1. PICK kind \in Kinds[i], tag \in {0, tagged[i] + 1} \cap (0 .. Tags[i]) :
          /\ ring' = [ring EXCEPT ![i] = Append(@, [kind |-> kind, tag |-> tag])]
          /\ tagged' = IF tag = 0 THEN tagged ELSE [tagged EXCEPT ![i] = tag]
    BY DEF Capture
  <2> DEFINE r == ring[i]  s == ring'[i]  f == fate[i]  top == Len(r) + 1
  <2>2. r \in Seq(Frames) /\ f \in Seq(Nat) /\ tagged[i] \in Nat
    BY DEF OrderInv
  <2>3. s = Append(r, [kind |-> kind, tag |-> tag])
    BY <2>1 DEF OrderInv
  <2>4. /\ DOMAIN r = 1 .. Len(r) /\ DOMAIN s = 1 .. top
        /\ s[top].tag = tag
        /\ \A m \in DOMAIN r : s[m] = r[m]
    BY <2>2, <2>3
  <2>5. tag \in Nat /\ tagged[i] <= tagged'[i] /\ tag <= tagged'[i]
        /\ tagged'[i] \in Nat /\ (tag # 0 => tagged[i] < tag)
    BY <2>1, <2>2 DEF OrderInv
  <2>6. \A m \in DOMAIN r : r[m].tag \in Nat /\ r[m].tag <= tagged[i]
    <3>1. ASSUME NEW m \in DOMAIN r PROVE r[m] \in Frames
      BY <2>2, <3>1
    <3>2. \A m \in DOMAIN r : r[m].tag <= tagged[i]
      BY DEF OrderInv, InOrder
    <3> HIDE DEF r
    <3> QED
      BY <3>1, <3>2 DEF Frames
  <2>7. \A m \in DOMAIN f : f[m] \in Nat /\ f[m] <= tagged[i]
    BY <2>2 DEF OrderInv, InOrder
  <2>8. \A m \in DOMAIN s : m = top \/ m \in DOMAIN r
    BY <2>4
  <2>9. ASSUME NEW m \in DOMAIN s PROVE s[m].tag <= tagged'[i]
    <3>1. CASE m = top
      BY <2>4, <2>5, <3>1
    <3>2. CASE m \in DOMAIN r
      <4>1. s[m].tag = r[m].tag
        BY <2>4, <3>2
      <4>2. r[m].tag \in Nat /\ r[m].tag <= tagged[i]
        BY <2>6, <3>2
      <4> HIDE DEF r, s
      <4> QED
        BY <2>2, <2>5, <4>1, <4>2
    <3> QED
      BY <2>8, <2>9, <3>1, <3>2
  <2>10. ASSUME NEW m \in DOMAIN s, NEW n \in DOMAIN s, m < n,
                s[m].tag # 0, s[n].tag # 0
         PROVE  s[m].tag < s[n].tag
    <3>1. m \in DOMAIN r
      BY <2>2, <2>4, <2>10
    <3>2. CASE n = top
      <4>1. s[m].tag = r[m].tag /\ s[n].tag = tag
        BY <2>4, <3>1, <3>2
      <4>2. s[m].tag \in Nat /\ s[m].tag <= tagged[i]
        BY <2>6, <3>1, <4>1
      <4>3. tagged[i] < s[n].tag /\ s[n].tag \in Nat
        BY <2>5, <2>10, <4>1
      <4> HIDE DEF r, s
      <4> QED
        BY <2>2, <4>2, <4>3
    <3>3. CASE n \in DOMAIN r
      BY <2>4, <2>10, <3>1, <3>3 DEF OrderInv, InOrder
    <3> QED
      BY <2>8, <3>2, <3>3
  <2>11. ASSUME NEW m \in DOMAIN f, NEW n \in DOMAIN s, s[n].tag # 0
         PROVE  f[m] < s[n].tag
    <3>1. CASE n = top
      <4>1. s[n].tag = tag
        BY <2>4, <3>1
      <4>2. f[m] \in Nat /\ f[m] <= tagged[i]
        BY <2>7, <2>11
      <4>3. tagged[i] < s[n].tag /\ s[n].tag \in Nat
        BY <2>5, <2>11, <4>1
      <4> HIDE DEF f, s
      <4> QED
        BY <2>2, <4>2, <4>3
    <3>2. CASE n \in DOMAIN r
      BY <2>4, <2>11, <3>2 DEF OrderInv, InOrder
    <3> QED
      BY <2>8, <3>1, <3>2
  <2>12. \A m \in DOMAIN f : f[m] <= tagged'[i]
    BY <2>2, <2>5, <2>7
  <2> QED
    BY <1>1, <1>3, <2>9, <2>10, <2>11, <2>12 DEF InOrder
<1> QED
  BY <1>2, <1>3

\* The frame that is treated has the least tag of the buffer and a greater one
\* than all that were treated before.
LEMMA CallbackOrder ==
  ASSUME OrderInv, Callback, NEW j \in Ifaces
  PROVE  InOrder(j)' /\ OnceInOrder'
<1> USE DEF TypeOK
<1> DEFINE i == Current
           r == ring[i]  s == ring'[i]  f == fate[i]  g == fate'[i]
           tag == Head(r).tag  top == Len(f) + 1
<1>1. i \in Ifaces
  BY DEF Current
<1>2. r \in Seq(Frames) /\ r # << >> /\ s = Tail(r) /\ f \in Seq(Nat)
      /\ tagged[i] \in Nat /\ UNCHANGED tagged
  BY <1>1 DEF OrderInv, Callback, Take
<1>3. /\ Len(r) \in Nat \ {0} /\ DOMAIN r = 1 .. Len(r)
      /\ DOMAIN s = 1 .. Len(r) - 1
      /\ \A n \in DOMAIN s : n + 1 \in DOMAIN r /\ s[n] = r[n + 1]
      /\ 1 \in DOMAIN r /\ tag = r[1].tag
  BY <1>2
<1>4. \A m \in DOMAIN r : r[m].tag \in Nat
  <2>1. ASSUME NEW m \in DOMAIN r PROVE r[m] \in Frames
    BY <1>2, <2>1
  <2> QED
    BY <2>1 DEF Frames
<1>5. g \in Seq(Nat) /\ (g = f \/ (tag # 0 /\ g = Append(f, tag)))
  <2>1. tag \in Nat
    BY <1>3, <1>4
  <2>2. CASE UNCHANGED fate
    BY <1>2, <2>2
  <2>3. CASE Note(Head(r))
    BY <1>1, <1>2, <2>1, <2>3 DEF Note, OrderInv
  <2> QED
    BY <2>2, <2>3 DEF Callback
<1>6. /\ DOMAIN f = 1 .. Len(f) /\ \A m \in DOMAIN f : g[m] = f[m] /\ f[m] \in Nat
      /\ \A m \in DOMAIN g : m \in DOMAIN f \/ (m = top /\ tag # 0 /\ g[m] = tag)
  <2>1. DOMAIN f = 1 .. Len(f) /\ \A m \in DOMAIN f : f[m] \in Nat
    BY <1>2
  <2>2. CASE g = f
    BY <2>1, <2>2
  <2>3. CASE tag # 0 /\ g = Append(f, tag)
    <3>1. /\ DOMAIN g = 1 .. top /\ g[top] = tag
          /\ \A m \in DOMAIN f : g[m] = f[m]
      BY <1>2, <1>3, <1>4, <2>3
    <3>2. \A m \in 1 .. top : m \in 1 .. Len(f) \/ m = top
      BY <1>2
    <3> HIDE DEF g, f, tag, top
    <3> QED
      BY <2>1, <2>3, <3>1, <3>2
  <2> QED
    BY <1>5, <2>2, <2>3
<1>7. \A k \in Ifaces : k # i => UNCHANGED <<ring[k], fate[k], tagged[k]>>
  BY <1>1, <1>2 DEF OrderInv, Callback, Take, Note
<1>8. InOrder(i) /\ OnceInOrder
  BY <1>1 DEF OrderInv
<1>9. \A m, n \in DOMAIN g : m < n => g[m] < g[n]
  <2> SUFFICES ASSUME NEW m \in DOMAIN g, NEW n \in DOMAIN g, m < n
               PROVE  g[m] < g[n]
    OBVIOUS
  <2>1. m \in DOMAIN f
    BY <1>2, <1>6
  <2>2. CASE n \in DOMAIN f
    BY <1>1, <1>6, <1>8, <2>1, <2>2 DEF OnceInOrder
  <2>3. CASE n = top /\ tag # 0 /\ g[n] = tag
    <3>1. f[m] < r[1].tag
      BY <1>3, <1>8, <2>1, <2>3 DEF InOrder
    <3> QED
      BY <1>3, <1>6, <2>1, <2>3, <3>1
  <2> QED
    BY <1>6, <2>2, <2>3
<1>10. OnceInOrder'
  <2> SUFFICES ASSUME NEW k \in Ifaces
               PROVE  (\A m, n \in DOMAIN fate[k] : m < n => fate[k][m] < fate[k][n])'
    BY DEF OnceInOrder
  <2>1. CASE k = i
    BY <1>9, <2>1
  <2>2. CASE k # i
    BY <1>7, <1>8, <2>2 DEF OnceInOrder
  <2> QED
    BY <2>1, <2>2
<1>11. CASE j # i
  BY <1>7, <1>10, <1>11 DEF OrderInv, InOrder
<1>12. CASE j = i
  <2>1. \A m \in DOMAIN s : s[m].tag <= tagged[i]
    BY <1>3, <1>8 DEF InOrder
  <2>2. ASSUME NEW m \in DOMAIN s, NEW n \in DOMAIN s, m < n,
               s[m].tag # 0, s[n].tag # 0
        PROVE  s[m].tag < s[n].tag
    <3>1. m + 1 \in DOMAIN r /\ n + 1 \in DOMAIN r /\ m + 1 < n + 1
      BY <1>3, <2>2
    <3>2. s[m] = r[m + 1] /\ s[n] = r[n + 1]
      BY <1>3
    <3> HIDE DEF r, s
    <3> QED
      BY <1>8, <2>2, <3>1, <3>2 DEF InOrder, r
  <2>3. ASSUME NEW m \in DOMAIN g, NEW n \in DOMAIN s, s[n].tag # 0
        PROVE  g[m] < s[n].tag
    <3>1. n + 1 \in DOMAIN r /\ s[n] = r[n + 1] /\ 1 < n + 1 /\ n + 1 \in Int
      BY <1>3
    <3>2. CASE m \in DOMAIN f
      BY <1>6, <1>8, <2>3, <3>1, <3>2 DEF InOrder
    <3>3. CASE m = top /\ tag # 0 /\ g[m] = tag
      BY <1>3, <1>8, <2>3, <3>1, <3>3 DEF InOrder
    <3> QED
      BY <1>6, <3>2, <3>3
  <2>4. \A m \in DOMAIN g : g[m] <= tagged[i]
    <3>1. tag <= tagged[i]
      BY <1>3, <1>8 DEF InOrder
    <3>2. \A m \in DOMAIN f : f[m] <= tagged[i]
      BY <1>8 DEF InOrder
    <3>3. ASSUME NEW m \in DOMAIN g PROVE g[m] <= tagged[i]
      <4> HIDE DEF i, f, g, tag, top
      <4> QED
        BY <1>6, <3>1, <3>2, <3>3
    <3> QED
      BY <3>3
  <2>5. ring'[j] = s /\ fate'[j] = g /\ tagged'[j] = tagged[i]
    BY <1>2, <1>12
  <2> HIDE DEF s, g, i
  <2> QED
    BY <1>10, <2>1, <2>2, <2>3, <2>4, <2>5 DEF InOrder
<1> QED
  BY <1>10, <1>11, <1>12

LEMMA NextOrder == OrderInv /\ [Next]_vars => OrderInv'
<1> SUFFICES ASSUME OrderInv, [Next]_vars PROVE OrderInv'
  OBVIOUS
<1>1. TypeOK'
  BY NextTypeOK DEF OrderInv
<1>2. CASE \E i \in Ifaces : Capture(i)
  <2>1. OnceInOrder'
    <3>1. UNCHANGED fate
      BY <1>2 DEF Capture
    <3> QED
      BY <3>1 DEF OrderInv, OnceInOrder
  <2> QED
    BY <1>1, <1>2, <2>1, CaptureOrder DEF OrderInv
<1>3. CASE Callback
  BY <1>1, <1>3, CallbackOrder DEF OrderInv
<1>4. CASE Start
  <2>1. UNCHANGED <<fate, tagged>> /\ \A i \in Ifaces : ring'[i] = << >>
    BY <1>4 DEF Start
  <2>2. OnceInOrder'
    BY <2>1 DEF OrderInv, OnceInOrder
  <2>3. \A i \in Ifaces : InOrder(i)'
    BY <2>1 DEF OrderInv, InOrder
  <2> QED
    BY <1>1, <2>2, <2>3 DEF OrderInv
<1>5. CASE UNCHANGED <<fate, tagged, ring>>
  <2>1. OnceInOrder'
    BY <1>5 DEF OrderInv, OnceInOrder
  <2>2. \A i \in Ifaces : InOrder(i)'
    BY <1>5 DEF OrderInv, InOrder
  <2> QED
    BY <1>1, <2>1, <2>2 DEF OrderInv
<1> QED
  BY <1>2, <1>3, <1>4, <1>5
     DEF Next, Loop, vars, Tick, Signal, Test, Enter, Select, EndDispatch,
         ShowStats, ClearStats, Advert, Reset, traffic, clock, flags

\* Frames are treated once and in the order of their capture.
THEOREM TreatedOnceInOrder == Spec => []OnceInOrder
<1>1. OrderInv => OnceInOrder
  BY DEF OrderInv
<1> QED
  BY <1>1, InitOrder, NextOrder, PTL DEF Spec

-----------------------------------------------------------------------------
(***************************************************************************)
(* The loop comes back to the test of quit, as far as that is safety: the  *)
(* steps that are left until then become fewer, whatever is captured and   *)
(* whichever signals arrive.  What is left to fairness is that the program *)
(* gets to run and that a select() of some seconds comes to its end.       *)
(***************************************************************************)

\* The most steps of the loop that are left until it tests quit.
StepsToTest ==
  CASE pc = "enter"    -> 2 * (Batch + 1) + 6
    [] pc = "blocked"  -> 2 * (Batch + 1) + 5
    [] pc = "dispatch" -> (IF ready = Ifaces THEN Batch + 1 ELSE 0) + left + 5
    [] pc = "stats"    -> 4
    [] pc = "shown"    -> 3
    [] pc = "advert"   -> 2
    [] pc = "reset"    -> 1
    [] OTHER           -> 0

\* At the test a program that is to quit ends; until then it stays to quit.
ReturnsToTest ==
  /\ pc # "test" => StepsToTest' <= StepsToTest
  /\ pc # "test" /\ Loop => StepsToTest' < StepsToTest
  /\ pc = "test" /\ Loop /\ quit => pc' = "down"
  /\ pc # "down" /\ quit => quit'

LEMMA StepsLeft ==
  ASSUME TypeOK
  PROVE  /\ StepsToTest \in Nat
         /\ pc = "dispatch" => StepsToTest <= 2 * (Batch + 1) + 4
<1>1. Batch \in Nat /\ left \in Nat /\ left <= Batch
  BY BoundsAssumption DEF TypeOK
<1>2. CASE pc = "dispatch"
  <2>1. StepsToTest = (IF ready = Ifaces THEN Batch + 1 ELSE 0) + left + 5
    BY <1>2 DEF StepsToTest
  <2> QED
    BY <1>1, <2>1
<1>3. CASE pc # "dispatch"
  <2>1. StepsToTest \in {2 * (Batch + 1) + 6, 2 * (Batch + 1) + 5, 4, 3, 2, 1, 0}
    BY <1>3 DEF StepsToTest
  <2> QED
    BY <1>1, <1>3, <2>1
<1> QED
  BY <1>2, <1>3

LEMMA NextStepsLeft == TypeOK' => (StepsToTest \in Nat)'
<1>1. TypeOK => StepsToTest \in Nat
  BY StepsLeft
<1> QED
  BY <1>1, PTL

LEMMA LoopReturns ==
  ASSUME TypeOK, TypeOK', Loop, pc # "test"
  PROVE  StepsToTest' < StepsToTest
<1> USE DEF StepsToTest
<1>1. Batch \in Nat /\ left \in Nat /\ left' \in 0 .. Batch
  BY BoundsAssumption DEF TypeOK
<1>2. CASE Enter
  BY <1>1, <1>2 DEF Enter
<1>3. CASE Select
  <2>1. CASE pc' = "dispatch"
    BY <1>1, <1>3, <2>1 DEF Select
  <2>2. CASE pc' = "stats"
    BY <1>1, <1>3, <2>2 DEF Select
  <2> QED
    BY <1>3, <2>1, <2>2 DEF Select
<1>4. CASE Callback
  <2>1. /\ pc = "dispatch" /\ pc' = pc /\ ready' = ready /\ left' = left - 1
    BY <1>4 DEF Callback, Take
  <2> QED
    BY <1>1, <2>1
<1>5. CASE EndDispatch
  <2>1. /\ pc = "dispatch" /\ left' = Batch /\ ready' = ready \ {Current}
        /\ pc' = IF ready' = {} THEN "stats" ELSE "dispatch"
    BY <1>5 DEF EndDispatch
  <2>2. ready' # Ifaces
    BY <2>1 DEF Current, Ifaces
  <2>3. CASE ready' = {}
    BY <1>1, <2>1, <2>3
  <2>4. CASE ready' # {}
    <3>1. ready = Ifaces
      BY <2>1, <2>4 DEF TypeOK, Current, Ifaces
    <3> QED
      BY <1>1, <2>1, <2>2, <2>4, <3>1
  <2> QED
    BY <2>3, <2>4
<1>6. CASE ShowStats
  BY <1>6 DEF ShowStats
<1>7. CASE ClearStats
  BY <1>7 DEF ClearStats
<1>8. CASE Advert
  <2>1. pc = "advert" /\ pc' \in {"reset", "test"}
    BY <1>8 DEF Advert
  <2> QED
    BY <2>1
<1>9. CASE Reset
  BY <1>9 DEF Reset
<1> QED
  BY <1>2, <1>3, <1>4, <1>5, <1>6, <1>7, <1>8, <1>9 DEF Loop, Test

\* A signal ends a select() it finds blocked, and nothing else that happens to
\* the program changes where it is.
LEMMA TrafficDoesNotDelay ==
  ASSUME TypeOK, [Next]_vars, ~Loop
  PROVE  StepsToTest' <= StepsToTest
<1>1. StepsToTest \in Nat
  BY StepsLeft
<1>2. CASE Start
  <2>1. StepsToTest' = 0
    BY <1>2 DEF Start, StepsToTest
  <2> QED
    BY <1>1, <2>1
<1>3. CASE UNCHANGED <<pc, ready, left>>
  <2>1. StepsToTest' = StepsToTest
    BY <1>3 DEF StepsToTest
  <2> QED
    BY <1>1, <2>1
<1>4. CASE Signal
  <2>1. CASE pc = "blocked"
    BY <1>4, <2>1, BoundsAssumption DEF Signal, Woken, StepsToTest
  <2>2. CASE pc # "blocked"
    BY <1>3, <1>4, <2>2 DEF Signal, Woken, traffic
  <2> QED
    BY <2>1, <2>2
<1>5. Start \/ Signal \/ UNCHANGED <<pc, ready, left>>
  BY DEF Next, vars, Capture, Tick, traffic
<1> QED
  BY <1>2, <1>3, <1>4, <1>5

LEMMA QuitStays ==
  ASSUME [Next]_vars, pc # "down", quit
  PROVE  quit'
BY DEF Next, Loop, vars, flags, Start, Capture, Tick, Signal, Test, Enter, Select,
       Callback, EndDispatch, ShowStats, ClearStats, Advert, Reset

\* The loop of main() is back at while (!quit) after at most 2 * Batch + 8 of its
\* steps, under any traffic and signals, because pcap_dispatch() handles no more
\* than a batch and select() is followed by one turn; a quit that was set before
\* ends the program there.
THEOREM LoopReturnsToTest == Spec => [][ReturnsToTest]_vars
<1>1. TypeOK /\ TypeOK' /\ [Next]_vars => ReturnsToTest
  <2> SUFFICES ASSUME TypeOK, TypeOK', [Next]_vars PROVE ReturnsToTest
    OBVIOUS
  <2>1. ASSUME pc # "test", Loop
        PROVE  StepsToTest' < StepsToTest /\ StepsToTest' <= StepsToTest
    <3>1. StepsToTest' < StepsToTest
      BY <2>1, LoopReturns
    <3> DEFINE before == StepsToTest  after == StepsToTest'
    <3>2. before \in Nat /\ after \in Nat
      BY StepsLeft, NextStepsLeft
    <3> HIDE DEF before, after
    <3>3. after < before => after <= before
      BY <3>2
    <3> QED
      BY <3>1, <3>3 DEF before, after
  <2>2. ASSUME pc = "test", Loop, quit PROVE pc' = "down"
    BY <2>2 DEF Loop, Test, Enter, Select, Callback, Take, EndDispatch, ShowStats,
       ClearStats, Advert, Reset
  <2> QED
    BY <2>1, <2>2, TrafficDoesNotDelay, QuitStays DEF ReturnsToTest
<1> QED
  BY <1>1, TypeCorrect, PTL DEF Spec

=============================================================================
