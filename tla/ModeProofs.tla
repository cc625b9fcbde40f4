------------------------------ MODULE ModeProofs ------------------------------
(***************************************************************************)
(* Proofs about Mode, for any set of modes.                                *)
(***************************************************************************)
EXTENDS Mode, TLAPS

\* The inductive invariant.
LinkInv ==
  /\ TypeOK
  /\ PutInv
  /\ LinkOnlyLostMidway

LEMMA InitLinkInv == Init => LinkInv
  BY ModesAssumption DEF Init, LinkInv, TypeOK, PutInv, LinkOnlyLostMidway,
     Control, Answers

LEMMA NextTypeOK == TypeOK /\ [Next]_vars => TypeOK'
<1> SUFFICES ASSUME TypeOK, [Next]_vars PROVE TypeOK'
  OBVIOUS
<1> USE DEF TypeOK, Control, Answers
<1>1. CASE Start \/ Put
  BY <1>1 DEF Start, Put, Done
<1>2. CASE Remove
  BY <1>2 DEF Remove
<1>3. CASE Symlink
  <2>1. lost' \in BOOLEAN
    BY <1>3 DEF Symlink
  <2> QED
    BY <1>3, <2>1 DEF Symlink, Done
<1>4. CASE ReadTargets
  BY <1>4 DEF ReadTargets
<1>5. CASE ExecuteReboot
  BY <1>5 DEF ExecuteReboot, Done
<1>6. CASE Answer
  BY <1>6 DEF Answer, Done
<1>7. CASE PostReboot
  BY <1>7 DEF PostReboot
<1>8. CASE Crash
  <2>1. lost' \in BOOLEAN
    BY <1>8 DEF Crash
  <2> QED
    BY <1>8, <2>1 DEF Crash
<1>9. CASE Boot
  <2>1. lost' \in BOOLEAN
    BY <1>9 DEF Boot
  <2> QED
    BY <1>9, <2>1 DEF Boot
<1>10. CASE UNCHANGED vars
  BY <1>10 DEF vars
<1> QED
  BY <1>1, <1>2, <1>3, <1>4, <1>5, <1>6, <1>7, <1>8, <1>9, <1>10 DEF Next

\* From symlink() to the answer the link is the new one, and the answer comes
\* only when the card runs in the new mode or will.
LEMMA NextPutInv == LinkInv /\ [Next]_vars => PutInv'
<1> SUFFICES ASSUME LinkInv, [Next]_vars PROVE PutInv'
  OBVIOUS
<1> USE DEF LinkInv, PutInv
<1>1. CASE Start \/ Put \/ Remove \/ Answer \/ PostReboot \/ Crash \/ Boot
  <2>1. pc' \notin {"targets", "reboot", "answer"}
    BY <1>1 DEF Start, Put, Remove, Answer, PostReboot, Crash, Boot, Done
  <2> QED
    BY <2>1
<1>2. CASE Symlink
  BY <1>2 DEF Symlink, Done
<1>3. CASE ReadTargets
  <2>1. pc' = "answer" => new = running
    BY <1>3, ModesAssumption DEF ReadTargets, TypeOK
  <2> QED
    BY <1>3, <2>1 DEF ReadTargets
<1>4. CASE ExecuteReboot
  BY <1>4 DEF ExecuteReboot, Done
<1>5. CASE UNCHANGED vars
  <2>1. UNCHANGED <<pc, link, new, running>> /\ (rebooting => rebooting')
    BY <1>5 DEF vars
  <2> QED
    BY <2>1
<1> QED
  BY <1>1, <1>2, <1>3, <1>4, <1>5 DEF Next

LEMMA NextLink == LinkInv /\ [Next]_vars => LinkOnlyLostMidway'
<1> SUFFICES ASSUME LinkInv, [Next]_vars PROVE LinkOnlyLostMidway'
  OBVIOUS
<1> USE DEF LinkOnlyLostMidway
<1>1. LinkOnlyLostMidway
  BY DEF LinkInv
<1>2. CASE Remove
  BY <1>2 DEF Remove
<1>3. CASE Symlink
  <2>1. CASE link' = new
    BY <2>1, ModesAssumption DEF LinkInv, TypeOK
  <2>2. CASE UNCHANGED link /\ lost' = (link = NoLink)
    <3>1. link = NoLink => lost'
      BY <2>2
    <3> QED
      BY <2>2, <3>1
  <2> QED
    BY <1>3, <2>1, <2>2 DEF Symlink
<1>4. CASE Crash
  <2>1. link = NoLink => lost'
    BY <1>1, <1>4 DEF Crash
  <2> QED
    BY <1>4, <2>1 DEF Crash
<1>5. CASE Boot
  BY <1>5 DEF Boot
<1>6. CASE Start \/ Put \/ ReadTargets \/ ExecuteReboot \/ Answer \/ PostReboot
             \/ UNCHANGED vars
  <2>1. UNCHANGED <<link, lost>>
    BY <1>6 DEF Start, Put, ReadTargets, ExecuteReboot, Answer, PostReboot, vars
  <2>2. pc = "symlink" => pc' = "symlink"
    BY <1>6 DEF Start, Put, ReadTargets, ExecuteReboot, Answer, PostReboot, vars
  <2>3. (lost => lost') /\ (link' = NoLink => link = NoLink)
    BY <2>1
  <2> QED
    BY <1>1, <2>2, <2>3
<1> QED
  BY <1>2, <1>3, <1>4, <1>5, <1>6 DEF Next

\* How far a PUT /mode has come determines the link of the default target.
THEOREM LinkCorrect == Spec => []LinkInv
<1>1. LinkInv /\ [Next]_vars => LinkInv'
  BY NextTypeOK, NextPutInv, NextLink DEF LinkInv
<1> QED
  BY <1>1, InitLinkInv, PTL DEF Spec

\* Type correctness, for any set of modes.
THEOREM TypeCorrect == Spec => []TypeOK
<1>1. LinkInv => TypeOK
  BY DEF LinkInv
<1> QED
  BY <1>1, LinkCorrect, PTL

\* The card has a default target, unless a PUT /mode was cut short at the one
\* place where it removes it.
THEOREM LinkLostMidway == Spec => []LinkOnlyLostMidway
<1>1. LinkInv => LinkOnlyLostMidway
  BY DEF LinkInv
<1> QED
  BY <1>1, LinkCorrect, PTL

\* A mode that PUT /mode answers with is the running mode or will be.
THEOREM PutTakesEffect == Spec => ModeTakesEffect
<1>1. LinkInv /\ [Next]_vars =>
        [pc = "answer" /\ answer' = "ok" =>
           link = new /\ (running = new \/ rebooting)]_vars
  BY DEF LinkInv, PutInv
<1> QED
  BY <1>1, LinkCorrect, PTL DEF Spec, ModeTakesEffect

=============================================================================
