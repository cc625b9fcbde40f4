--------------------------- MODULE WifiConfigProofs ---------------------------
(***************************************************************************)
(* Proofs about WifiConfig, for any contents.                              *)
(***************************************************************************)
EXTENDS WifiConfig, TLAPS

\* The inductive invariant: types, how far a PUT has come, and what the file
\* and connman have to do with each other.
FileInv ==
  /\ TypeOK
  /\ PutInv
  /\ FileIsWhole
  /\ RefusedPutKeepsFile
  /\ InSync

LEMMA InitFileInv == Init => FileInv
  BY ContentsAssumption DEF Init, FileInv, TypeOK, PutInv, FileIsWhole,
     RefusedPutKeepsFile, InSync, Control, Answers, Whole, Writing

\* The steps that answer or only move on leave the files and connman alone.
LEMMA NextTypeOK == TypeOK /\ [Next]_vars => TypeOK'
<1> SUFFICES ASSUME TypeOK, [Next]_vars PROVE TypeOK'
  OBVIOUS
<1> USE DEF TypeOK, Control
<1>1. CASE Start
  BY <1>1 DEF Start
<1>2. CASE Get
  <2>1. answer' \in Answers
    BY <1>2 DEF Get, Readable, Answers
  <2> QED
    BY <1>2, <2>1 DEF Get
<1>3. CASE Put
  <2>1. answer' \in Answers
    BY <1>3 DEF Put, Answers
  <2> QED
    BY <1>3, <2>1 DEF Put
<1>4. CASE Check
  BY <1>4 DEF Check, Unchanged, Changed
<1>5. CASE Open \/ Close \/ Rename
  <2>1. <<"update failed", Empty>> \in Answers
    BY DEF Answers
  <2> QED
    BY <1>5, <2>1 DEF Open, Close, Rename, UpdateFails
<1>6. CASE Reload
  <2>1. hup' \in BOOLEAN /\ missed' \in BOOLEAN
    BY <1>6 DEF Reload
  <2> QED
    BY <1>6, <2>1 DEF Reload
<1>7. CASE ConnmanReads \/ PowerCut
  BY <1>7 DEF ConnmanReads, PowerCut, Load
<1>8. CASE Crash
  <2>1. missed' \in BOOLEAN
    BY <1>8 DEF Crash
  <2> QED
    BY <1>8, <2>1 DEF Crash
<1>9. CASE UNCHANGED vars
  BY <1>9 DEF vars
<1> QED
  BY <1>1, <1>2, <1>3, <1>4, <1>5, <1>6, <1>7, <1>8, <1>9 DEF Next

\* Each step of a PUT relies on what the steps before it have done.
LEMMA NextPutInv == FileInv /\ [Next]_vars => PutInv' /\ RefusedPutKeepsFile'
<1> SUFFICES ASSUME FileInv, [Next]_vars PROVE PutInv' /\ RefusedPutKeepsFile'
  OBVIOUS
<1> USE DEF FileInv, PutInv, RefusedPutKeepsFile, Writing
<1>1. CASE Start
  BY <1>1 DEF Start
<1>2. CASE Get
  BY <1>2 DEF Get
<1>3. CASE Put
  BY <1>3 DEF Put
<1>4. CASE Check
  BY <1>4 DEF Check, Unchanged, Changed
<1>5. CASE Open
  BY <1>5 DEF Open, UpdateFails
<1>6. CASE Close
  BY <1>6 DEF Close, UpdateFails
<1>7. CASE Rename
  BY <1>7 DEF Rename, UpdateFails
<1>8. CASE Reload
  BY <1>8 DEF Reload
<1>9. CASE ConnmanReads \/ Crash \/ PowerCut
  BY <1>9 DEF ConnmanReads, Crash, PowerCut
<1>10. CASE UNCHANGED vars
  BY <1>10 DEF vars
<1> QED
  BY <1>1, <1>2, <1>3, <1>4, <1>5, <1>6, <1>7, <1>8, <1>9, <1>10 DEF Next

\* Only Rename changes the file, to the whole new contents, and only Load
\* changes what connman has read.
LEMMA NextFileIsWhole == FileInv /\ [Next]_vars => FileIsWhole'
<1> SUFFICES ASSUME FileInv, [Next]_vars PROVE FileIsWhole'
  OBVIOUS
<1> USE DEF FileIsWhole
<1>1. FileIsWhole /\ (pc = "rename" => temp # Torn)
  BY ContentsAssumption DEF FileInv, TypeOK, PutInv, Whole
<1>2. CASE Rename
  BY <1>1, <1>2 DEF Rename
<1>3. CASE ConnmanReads \/ PowerCut
  BY <1>1, <1>3 DEF ConnmanReads, PowerCut, Load
<1>4. CASE ~(Rename \/ ConnmanReads \/ PowerCut)
  BY <1>1, <1>4 DEF Next, Start, Get, Put, Check, Open, Close, Reload, Crash, vars
<1> QED
  BY <1>2, <1>3, <1>4

LEMMA NextInSync == FileInv /\ [Next]_vars => InSync'
<1> SUFFICES ASSUME FileInv, [Next]_vars PROVE InSync'
  OBVIOUS
<1> USE DEF InSync
<1>1. InSync
  BY DEF FileInv
<1>2. CASE Rename
  BY <1>1, <1>2 DEF Rename
<1>3. CASE Reload
  <2>1. hup' \/ missed'
    BY <1>3 DEF Reload
  <2> QED
    BY <2>1
<1>4. CASE ConnmanReads \/ PowerCut
  BY <1>4 DEF ConnmanReads, PowerCut, Load
<1>5. CASE Crash
  <2>1. missed \/ pc = "reload" => missed'
    BY <1>5 DEF Crash
  <2>2. UNCHANGED <<file, hup, loaded>>
    BY <1>5 DEF Crash
  <2> QED
    BY <1>1, <2>1, <2>2
<1>6. CASE Start \/ Get \/ Put \/ Check \/ Open \/ Close \/ UNCHANGED vars
  <2>1. UNCHANGED <<file, hup, loaded, missed>>
    BY <1>6 DEF Start, Get, Put, Check, Open, Close, vars
  <2>2. pc = "reload" => pc' = "reload"
    BY <1>6 DEF Start, Get, Put, Check, Open, Close, vars
  <2> QED
    BY <1>1, <2>1, <2>2
<1> QED
  BY <1>2, <1>3, <1>4, <1>5, <1>6 DEF Next

\* How far a PUT has come determines the file and its temporary copy.
THEOREM FileCorrect == Spec => []FileInv
<1>1. FileInv /\ [Next]_vars => FileInv'
  BY NextTypeOK, NextPutInv, NextFileIsWhole, NextInSync DEF FileInv
<1> QED
  BY <1>1, InitFileInv, PTL DEF Spec

\* Type correctness, for any contents.
THEOREM TypeCorrect == Spec => []TypeOK
<1>1. FileInv => TypeOK
  BY DEF FileInv
<1> QED
  BY <1>1, FileCorrect, PTL

\* No failure, crash or power cut ever leaves a torn configuration.
THEOREM NeverTorn == Spec => []FileIsWhole
<1>1. FileInv => FileIsWhole
  BY DEF FileInv
<1> QED
  BY <1>1, FileCorrect, PTL

\* A refused PUT is a PUT without effect.
THEOREM RefusedWithoutEffect == Spec => []RefusedPutKeepsFile
<1>1. FileInv => RefusedPutKeepsFile
  BY DEF FileInv
<1> QED
  BY <1>1, FileCorrect, PTL

\* connman is out of date only for the reasons named.
THEOREM ConnmanInSync == Spec => []InSync
<1>1. FileInv => InSync
  BY DEF FileInv
<1> QED
  BY <1>1, FileCorrect, PTL

\* A PUT that answers with contents answers with what it was sent.
THEOREM PutAnswersItsContents == Spec => PutAnswersNew
<1>1. FileInv /\ [Next]_vars =>
        [pc = "get" /\ pc' = "loop" /\ answer'[1] = "ok" =>
           answer'[2] = new /\ file = new]_vars
  <2> SUFFICES ASSUME FileInv, Next, pc = "get", pc' = "loop", answer'[1] = "ok"
               PROVE  answer'[2] = new /\ file = new
    OBVIOUS
  <2>1. Get
    BY DEF FileInv, PutInv, Next, Start, Get, Put, Check, Open, Close, Rename,
         Reload, ConnmanReads, Crash, PowerCut, Writing, UpdateFails
  <2>2. Readable(file) /\ answer' = <<"ok", file>>
    BY <2>1 DEF Get
  <2> QED
    BY <2>2 DEF FileInv, PutInv
<1> QED
  BY <1>1, FileCorrect, PTL DEF Spec, PutAnswersNew

-----------------------------------------------------------------------------
(***************************************************************************)
(* WifiConfig implements ConfigStore.                                      *)
(***************************************************************************)

LEMMA NextMaps == FileInv /\ [Next]_vars => [Promised!Next]_(Promised!vars)
<1> SUFFICES ASSUME FileInv, [Next]_vars
             PROVE  Promised!Next \/ UNCHANGED Promised!vars
  OBVIOUS
<1> DEFINE pending == IF pc \in {"down", "loop"} THEN Missing ELSE new
<1> USE DEF Promised!vars, Promised!Next
<1>1. new # Missing
  BY ContentsAssumption DEF FileInv, TypeOK, Whole
<1>2. CASE Start
  BY <1>2 DEF Start
<1>3. CASE Get
  <2>1. CASE pc = "loop"
    BY <1>3, <2>1 DEF Get, Promised!Get
  <2>2. CASE pc = "get" /\ Readable(file)
    <3>1. file = new
      BY <2>2 DEF FileInv, PutInv
    <3> QED
      BY <1>1, <1>3, <2>2, <3>1 DEF Get, Promised!Accept, Promised!End
  <2>3. CASE pc = "get" /\ ~Readable(file)
    BY <1>1, <1>3, <2>3 DEF Get, Promised!Doubt, Promised!End
  <2> QED
    BY <1>3, <2>1, <2>2, <2>3 DEF Get
<1>4. CASE Put
  BY <1>4 DEF Put, Promised!Put
<1>5. CASE Check
  <2>1. CASE pc' = "down"
    BY <1>1, <1>5, <2>1 DEF Check, Promised!Abandon, Promised!End
  <2>2. CASE pc' \in {"get", "write"}
    BY <1>5, <2>2 DEF Check
  <2> QED
    BY <1>5, <2>1, <2>2 DEF Check, Unchanged, Changed
<1>6. CASE Open \/ Close \/ Rename
  <2>1. CASE UpdateFails /\ UNCHANGED <<new, before, file>>
    <3>1. file = before /\ pc \notin {"down", "loop"}
      BY <1>6 DEF FileInv, PutInv, Writing, Open, Close, Rename
    <3> QED
      BY <1>1, <2>1, <3>1 DEF UpdateFails, Promised!Refuse, Promised!End
  <2>2. CASE Rename /\ ~(UpdateFails /\ UNCHANGED <<new, before, file>>)
    <3>1. file = before /\ temp = new /\ pc = "rename"
      BY <2>2 DEF FileInv, PutInv, Writing, Rename
    <3>2. /\ file' = new /\ pc' = "reload"
          /\ UNCHANGED <<new, before, answer>>
      BY <2>2, <3>1 DEF Rename
    <3> QED
      BY <1>1, <3>1, <3>2 DEF Promised!Store
  <2>3. CASE (Open \/ Close) /\ ~(UpdateFails /\ UNCHANGED <<new, before, file>>)
    BY <2>3 DEF Open, Close
  <2> QED
    BY <1>6, <2>1, <2>2, <2>3
<1>7. CASE Reload
  BY <1>7 DEF Reload
<1>8. CASE ConnmanReads
  BY <1>8 DEF ConnmanReads
<1>9. CASE Crash \/ PowerCut
  <2>1. pc' = "down" /\ UNCHANGED <<new, before, answer, file>>
    BY <1>9 DEF Crash, PowerCut
  <2>2. CASE pc \in {"down", "loop"}
    BY <2>1, <2>2
  <2>3. CASE pc \notin {"down", "loop"}
    BY <1>1, <2>1, <2>3 DEF Promised!Abandon, Promised!End
  <2> QED
    BY <2>2, <2>3
<1>10. CASE UNCHANGED vars
  BY <1>10 DEF vars
<1> QED
  BY <1>2, <1>3, <1>4, <1>5, <1>6, <1>7, <1>8, <1>9, <1>10 DEF Next

\* Whatever fails, crashes or is cut off, to a client every PUT is atomic.
THEOREM PutIsAtomic == Spec => PutAtomic
<1>1. Init => Promised!Init
  BY DEF Init, Promised!Init
<1> QED
  BY <1>1, NextMaps, FileCorrect, PTL DEF Spec, PutAtomic, Promised!Spec

=============================================================================
