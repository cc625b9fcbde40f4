--------------------------- MODULE ResourcesProofs ----------------------------
(***************************************************************************)
(* Proofs about Resources, for any tree of resources.                      *)
(***************************************************************************)
EXTENDS Resources, SequenceTheorems, WellFoundedInduction, TLAPS

LEMMA InitAnswerInv == Init => AnswerInv
<1> SUFFICES ASSUME Init PROVE AnswerInv
  OBVIOUS
<1>1. /\ sources = [leaf \in Leaves |-> {source[leaf]}]
      /\ wlans = [running |-> {wlan.running}, addrs |-> {wlan.addrs},
                  ssid |-> {wlan.ssid}]
  BY DEF Init, NoHistory
<1>2. source \in Sources /\ wlan \in Wlans
  BY DEF Init
<1>3. TypeOK
  <2>1. sources \in [Leaves -> SUBSET AnyContents]
    BY <1>1, <1>2 DEF Sources
  <2>2. wlans \in [running : SUBSET BOOLEAN, addrs : SUBSET SUBSET Addresses,
                   ssid : SUBSET (Ssids \cup {Null})]
    BY <1>1, <1>2 DEF Wlans
  <2>3. target \in Resource
    BY TreeAssumption DEF Init
  <2>4. stack \in Seq(Frames) /\ answer \subseteq Entries
    BY DEF Init
  <2>5. reply \in Replies
    BY DEF Init, Replies
  <2>6. /\ connected_ \in BOOLEAN /\ running \in BOOLEAN
        /\ addrs_ \subseteq Addresses /\ ssid_ \in Ssids \cup {Null}
    BY DEF Init
  <2> QED
    BY <1>2, <2>1, <2>2, <2>3, <2>4, <2>5, <2>6 DEF TypeOK
<1>4. HistoryInv
  BY <1>1, <1>2 DEF HistoryInv, Wlans
<1>5. stack = << >> /\ answer = {}
  BY DEF Init
<1> QED
  BY <1>3, <1>4, <1>5 DEF AnswerInv, StackInv, StatusInv, Calling,
     AnswersMomentary, ConnectedHasAddress

-----------------------------------------------------------------------------
(***************************************************************************)
(* The stack of calls.                                                     *)
(***************************************************************************)

\* A sequence without its last element.
LEMMA FrontProperties ==
  ASSUME NEW S, NEW s \in Seq(S), s # << >>
  PROVE  LET front == SubSeq(s, 1, Len(s) - 1) IN
           /\ front \in Seq(S)
           /\ Len(front) = Len(s) - 1
           /\ \A k \in 1 .. Len(front) : front[k] = s[k]
<1> DEFINE n == Len(s) - 1  front == SubSeq(s, 1, n)
<1>1. n \in Nat /\ \A k \in 1 .. n : s[k] \in S
  OBVIOUS
<1> HIDE DEF n
<1>2. /\ front \in Seq(S)
      /\ Len(front) = IF 1 <= n THEN n - 1 + 1 ELSE 0
      /\ \A k \in 1 .. n - 1 + 1 : front[k] = s[1 + k - 1]
  BY <1>1, SubSeqProperties
<1> HIDE DEF front
<1>3. Len(front) = n
  BY <1>1, <1>2
<1>4. ASSUME NEW k \in 1 .. n PROVE front[k] = s[k]
  <2>1. k \in 1 .. n - 1 + 1 /\ 1 + k - 1 = k
    BY <1>1
  <2> QED
    BY <1>2, <2>1
<1> QED
  BY <1>2, <1>3, <1>4 DEF front, n

\* A call that returns leaves its callers as they were.
LEMMA CallersAreFrames ==
  ASSUME TypeOK, StackInv, stack # << >>, stack' = Callers
  PROVE  /\ stack' \in Seq(Frames)
         /\ Len(stack') = Len(stack) - 1
         /\ \A k \in 1 .. Len(stack') : stack'[k] = stack[k]
         /\ StackInv'
         /\ ~Calling(Status)'
<1>1. stack \in Seq(Frames) /\ Len(stack) \in Nat \ {0}
  BY DEF TypeOK
<1>2. /\ stack' \in Seq(Frames)
      /\ Len(stack') = Len(stack) - 1
      /\ \A k \in 1 .. Len(stack') : stack'[k] = stack[k]
  BY <1>1, FrontProperties DEF Callers
<1>3. \A k \in 1 .. Len(stack') :
        /\ stack'[k].res \in Aggregates
        /\ stack'[k].begun \in DOMAIN Children[stack'[k].res]
  BY <1>1, <1>2 DEF StackInv
<1>4. StackInv'
  <2> SUFFICES ASSUME NEW k \in 1 .. (Len(stack') - 1)
               PROVE  k \in 1 .. Len(stack')
    BY <1>3 DEF StackInv
  <2> QED
    BY <1>1, <1>2
<1>5. ~Calling(Status)'
  <2> SUFFICES ASSUME stack' # << >> PROVE stack'[Len(stack')].res # Status
    BY DEF Calling, Top
  <2>1. Len(stack') \in 1 .. Len(stack')
    BY <1>1, <1>2
  <2> QED
    BY <1>3, <2>1, TreeAssumption
<1> QED
  BY <1>2, <1>4, <1>5

\* The names on the way to the call on top.
LEMMA PathIsNames ==
  ASSUME TypeOK, StackInv, stack # << >>
  PROVE  Path \in Seq(Names)
<1>1. Len(stack) - 1 \in Nat
  BY DEF TypeOK
<1>2. ASSUME NEW k \in 1 .. (Len(stack) - 1)
      PROVE  Awaited(stack[k]).name \in Names
  <2>1. Children[stack[k].res] \in Seq(Child)
    BY TreeAssumption DEF StackInv
  <2>2. Awaited(stack[k]) \in Child
    BY <2>1 DEF StackInv, Awaited
  <2> QED
    BY <2>2 DEF Child
<1>3. Len(Callers) = Len(stack) - 1 /\ \A k \in 1 .. Len(Callers) : Callers[k] = stack[k]
  BY FrontProperties DEF TypeOK, Callers
<1> HIDE DEF Callers
<1>4. \A k \in 1 .. Len(Callers) : Awaited(Callers[k]).name \in Names
  BY <1>2, <1>3
<1> QED
  BY <1>1, <1>3, <1>4 DEF Path, NamesOf

-----------------------------------------------------------------------------
(***************************************************************************)
(* The requests and the environment.                                       *)
(***************************************************************************)

\* A request that begins has no history.
LEMMA NoHistoryInv ==
  ASSUME source' \in Sources, wlan' \in Wlans,
         NoHistory(source', wlan', sources', wlans')
  PROVE  /\ sources' \in [Leaves -> SUBSET AnyContents]
         /\ wlans' \in [running : SUBSET BOOLEAN,
                        addrs : SUBSET SUBSET Addresses,
                        ssid : SUBSET (Ssids \cup {Null})]
         /\ HistoryInv'
  BY DEF NoHistory, Sources, Wlans, HistoryInv

LEMMA RestartInv == AnswerInv /\ Restart => AnswerInv'
<1> SUFFICES ASSUME AnswerInv, Restart PROVE AnswerInv'
  OBVIOUS
<1>1. /\ source' \in Sources /\ wlan' \in Wlans
      /\ NoHistory(source', wlan', sources', wlans')
  BY DEF AnswerInv, TypeOK, Restart
<1>2. TypeOK'
  <2>1. target' \in Resource
    BY DEF AnswerInv, TypeOK, Restart
  <2>2. stack' \in Seq(Frames) /\ answer' \subseteq Entries
    BY DEF Restart
  <2>3. reply' \in Replies
    BY DEF Restart, Replies
  <2>4. /\ connected_' \in BOOLEAN /\ running' \in BOOLEAN
        /\ addrs_' \subseteq Addresses /\ ssid_' \in Ssids \cup {Null}
    BY DEF Restart
  <2> QED
    BY <1>1, <2>1, <2>2, <2>3, <2>4, NoHistoryInv DEF TypeOK
<1> QED
  BY <1>1, <1>2, NoHistoryInv DEF Restart, AnswerInv, StackInv, StatusInv,
     Calling, AnswersMomentary, ConnectedHasAddress

LEMMA RequestInv ==
  AnswerInv /\ (NotFound \/ BadRequest \/ NotAllowed \/ Get) => AnswerInv'
<1> SUFFICES ASSUME AnswerInv, NotFound \/ BadRequest \/ NotAllowed \/ Get
             PROVE  AnswerInv'
  OBVIOUS
<1>1. /\ source' \in Sources /\ wlan' \in Wlans
      /\ NoHistory(source', wlan', sources', wlans')
  BY DEF AnswerInv, TypeOK, NotFound, BadRequest, NotAllowed, Refuse, Get
<1>2. target' \in Resource
  BY TreeAssumption DEF AnswerInv, TypeOK, NotFound, BadRequest, NotAllowed,
     Refuse, Get
<1>3. stack' = << >> \/ stack' = <<[res |-> target', begun |-> 0]>>
  BY DEF NotFound, BadRequest, NotAllowed, Refuse, Get
<1>4. stack' \in Seq(Frames)
  <2>1. [res |-> target', begun |-> 0] \in Frames
    BY <1>2 DEF Frames
  <2>2. CASE stack' = << >>
    BY <2>2
  <2>3. CASE stack' = <<[res |-> target', begun |-> 0]>>
    BY <2>1, <2>3
  <2> QED
    BY <1>3, <2>2, <2>3
<1>5. TypeOK'
  <2>1. answer' \subseteq Entries /\ reply' \in Replies
    BY DEF NotFound, BadRequest, NotAllowed, Refuse, Get, Replies
  <2>2. /\ connected_' \in BOOLEAN /\ running' \in BOOLEAN
        /\ addrs_' \subseteq Addresses /\ ssid_' \in Ssids \cup {Null}
    BY DEF AnswerInv, TypeOK, NotFound, BadRequest, NotAllowed,
       Refuse, Get, members
  <2> QED
    BY <1>1, <1>2, <1>4, <2>1, <2>2, NoHistoryInv DEF TypeOK
<1>6. StackInv' /\ StatusInv'
  <2>1. CASE stack' = << >>
    BY <2>1 DEF StackInv, StatusInv, Calling
  <2>2. CASE stack' = <<[res |-> target', begun |-> 0]>>
    <3>1. Len(stack') = 1 /\ stack'[1].begun = 0
      BY <2>2
    <3> QED
      BY <3>1 DEF StackInv, StatusInv, Top
  <2> QED
    BY <1>3, <2>1, <2>2
<1>7. answer' = {}
  BY DEF NotFound, BadRequest, NotAllowed, Refuse, Get
<1> QED
  BY <1>1, <1>5, <1>6, <1>7, NoHistoryInv
     DEF AnswerInv, AnswersMomentary, ConnectedHasAddress

\* What was momentary stays so, whatever changes.
LEMMA ChangesInv ==
  AnswerInv /\ ((\E leaf \in Leaves : SourceChanges(leaf)) \/ WlanChanges)
    => AnswerInv'
<1> SUFFICES ASSUME AnswerInv,
                    (\E leaf \in Leaves : SourceChanges(leaf)) \/ WlanChanges
             PROVE  AnswerInv'
  OBVIOUS
<1>1. UNCHANGED <<target, stack, answer, reply, members>>
  BY DEF SourceChanges, WlanChanges
<1>2. /\ \A l \in Leaves : sources[l] \subseteq sources'[l]
      /\ source' \in Sources
      /\ sources' \in [Leaves -> SUBSET AnyContents]
      /\ \A l \in Leaves : source'[l] \in sources'[l]
  <2>1. ASSUME NEW leaf \in Leaves, SourceChanges(leaf)
        PROVE  /\ \A l \in Leaves : sources[l] \subseteq sources'[l]
               /\ source' \in Sources
               /\ sources' \in [Leaves -> SUBSET AnyContents]
               /\ \A l \in Leaves : source'[l] \in sources'[l]
    <3>1. PICK value \in Contents(leaf) :
            /\ source' = [source EXCEPT ![leaf] = value]
            /\ sources' = [sources EXCEPT ![leaf] = @ \cup {value}]
      BY <2>1 DEF SourceChanges
    <3>2. value \in AnyContents
      BY DEF Contents, AnyContents
    <3>3. source \in Sources /\ sources \in [Leaves -> SUBSET AnyContents]
      BY DEF AnswerInv, TypeOK
    <3>4. source' \in Sources
      BY <3>1, <3>2, <3>3 DEF Sources
    <3> QED
      BY <3>1, <3>2, <3>3, <3>4 DEF AnswerInv, HistoryInv, Sources
  <2>2. CASE WlanChanges
    BY <2>2 DEF WlanChanges, AnswerInv, TypeOK, HistoryInv
  <2> QED
    BY <2>1, <2>2
<1>3. /\ wlans.running \subseteq wlans'.running
      /\ wlans.addrs \subseteq wlans'.addrs
      /\ wlans.ssid \subseteq wlans'.ssid
      /\ wlan' \in Wlans
      /\ wlans' \in [running : SUBSET BOOLEAN, addrs : SUBSET SUBSET Addresses,
                     ssid : SUBSET (Ssids \cup {Null})]
      /\ wlan'.running \in wlans'.running
      /\ wlan'.addrs \in wlans'.addrs
      /\ wlan'.ssid \in wlans'.ssid
  <2>1. CASE \E leaf \in Leaves : SourceChanges(leaf)
    BY <2>1 DEF SourceChanges, AnswerInv, TypeOK, HistoryInv
  <2>2. CASE WlanChanges
    <3>1. wlans \in [running : SUBSET BOOLEAN, addrs : SUBSET SUBSET Addresses,
                     ssid : SUBSET (Ssids \cup {Null})]
      BY DEF AnswerInv, TypeOK
    <3> QED
      BY <2>2, <3>1 DEF WlanChanges, Wlans
  <2> QED
    BY <2>1, <2>2
<1>4. TypeOK' /\ HistoryInv'
  BY <1>1, <1>2, <1>3 DEF AnswerInv, TypeOK, HistoryInv, members
<1>5. StackInv' /\ StatusInv'
  BY <1>1, <1>3 DEF AnswerInv, StackInv, StatusInv, Calling, Top, members,
     ConnectionMomentary
<1>6. ASSUME NEW entry \in answer PROVE Momentary(entry)'
  <2>1. Momentary(entry)
    BY DEF AnswerInv, AnswersMomentary
  <2>2. CASE entry.res = Status
    BY <1>3, <2>1, <2>2 DEF Momentary, ConnectionMomentary
  <2>3. CASE entry.res # Status
    <3>1. entry.res \in Leaves
      BY <2>3 DEF AnswerInv, TypeOK, Entries
    <3> QED
      BY <1>2, <2>1, <2>3, <3>1 DEF Momentary
  <2> QED
    BY <2>2, <2>3
<1> QED
  BY <1>1, <1>4, <1>5, <1>6
     DEF AnswerInv, AnswersMomentary, ConnectedHasAddress

-----------------------------------------------------------------------------
(***************************************************************************)
(* The handlers.                                                           *)
(***************************************************************************)

\* A call that returns adds an entry that is in order, or none.
LEMMA ReturnInv ==
  ASSUME AnswerInv, stack # << >>, NEW status \in Replies, NEW value,
         Return(status, value), ssid_' \in Ssids \cup {Null},
         UNCHANGED <<target, connected_, addrs_, running, environment>>,
         Omitted(value) \/ /\ Entry(value) \in Entries
                           /\ Momentary(Entry(value))
                           /\ Entry(value).res = Status
                                /\ Entry(value).value.connected
                                  => Entry(value).value.addrs # {}
  PROVE  AnswerInv'
<1> DEFINE entry == Entry(value)
<1>1. TypeOK /\ StackInv
  BY DEF AnswerInv
<1>2. /\ stack' \in Seq(Frames)
      /\ StackInv'
      /\ ~Calling(Status)'
  BY <1>1, CallersAreFrames DEF Return
<1>3. answer' = answer \/ (answer' = answer \cup {entry} /\ ~Omitted(value))
  BY DEF Return
<1>4. ASSUME NEW e \in answer'
      PROVE  /\ e \in Entries
             /\ Momentary(e)
             /\ e.res = Status /\ e.value.connected => e.value.addrs # {}
  <2>1. CASE e \in answer
    BY <2>1 DEF AnswerInv, TypeOK, AnswersMomentary, ConnectedHasAddress
  <2>2. CASE e = entry /\ ~Omitted(value)
    BY <2>2
  <2> HIDE DEF entry
  <2> QED
    BY <1>3, <1>4, <2>1, <2>2
<1>5. TypeOK'
  <2>1. reply' \in Replies
    BY <1>1 DEF TypeOK, Return
  <2>2. answer' \subseteq Entries
    BY <1>4
  <2> QED
    BY <1>1, <1>2, <2>1, <2>2 DEF TypeOK, environment
<1>6. HistoryInv'
  BY DEF AnswerInv, HistoryInv, environment
<1>7. StatusInv'
  BY <1>2 DEF StatusInv
<1>8. AnswersMomentary' /\ ConnectedHasAddress'
  <2>1. UNCHANGED <<sources, wlans>>
    BY DEF environment
  <2> QED
    BY <1>4, <2>1
       DEF AnswersMomentary, Momentary, ConnectionMomentary, ConnectedHasAddress
<1> QED
  BY <1>2, <1>5, <1>6, <1>7, <1>8 DEF AnswerInv

LEMMA GetLeafInv ==
  ASSUME AnswerInv, NEW leaf \in Leaves,
         GetMember(leaf) \/ GetLine(leaf) \/ GetFails(leaf) \/ SendFails(leaf)
  PROVE  AnswerInv'
<1>1. stack # << >> /\ Top.res = leaf /\ leaf # Status
  BY TreeAssumption DEF GetMember, GetLine, GetFails, SendFails, Calling
<1>2. Path \in Seq(Names)
  BY <1>1, PathIsNames DEF AnswerInv
<1>3. ASSUME NEW value \in Values \cup {Null},
             value \in {Null} \cup sources[leaf]
      PROVE  /\ Entry(value) \in Entries
             /\ Momentary(Entry(value))
             /\ Entry(value).res # Status
  <2>1. Entry(value) = [path |-> Path, res |-> leaf, value |-> value]
    BY <1>1 DEF Entry
  <2>2. Entry(value) \in Entries
    BY <1>2, <2>1 DEF Entries
  <2>3. Entry(value).res = leaf /\ Entry(value).value = value
    BY <2>1
  <2> QED
    BY <1>1, <1>3, <2>2, <2>3 DEF Momentary
<1>4. ssid_ \in Ssids \cup {Null}
  BY DEF AnswerInv, TypeOK
<1>5. CASE SendFails(leaf)
  BY <1>5, RestartInv DEF SendFails
<1>6. CASE GetFails(leaf)
  BY <1>1, <1>3, <1>4, <1>6, ReturnInv DEF GetFails, members, Replies
<1>7. CASE GetMember(leaf) \/ GetLine(leaf)
  <2>1. source[leaf] \in Contents(leaf)
    BY DEF AnswerInv, TypeOK, Sources
  <2>2. source[leaf] \in Values \cup {Null, NoText}
    BY <2>1 DEF Contents
  <2>3. source[leaf] \in sources[leaf]
    BY DEF AnswerInv, HistoryInv
  <2>4. /\ Return("ok", source[leaf])
        /\ UNCHANGED <<target, members, environment>>
    BY <1>7 DEF GetMember, GetLine
  <2>5. CASE source[leaf] = NoText
    <3>1. Nested
      BY <1>7, <2>1, <2>5, ValuesAssumption
         DEF GetMember, GetLine, Sendable, Contents
    <3>2. Omitted(source[leaf])
      BY <2>5, <3>1 DEF Omitted
    <3> QED
      BY <1>1, <1>4, <2>4, <3>2, ReturnInv DEF members, Replies
  <2>6. CASE source[leaf] \in Values \cup {Null}
    BY <1>1, <1>3, <1>4, <2>3, <2>4, <2>6, ReturnInv DEF members, Replies
  <2> QED
    BY <2>2, <2>5, <2>6
<1> QED
  BY <1>5, <1>6, <1>7

\* The call on top is one of the calls.
LEMMA TopIsFrame ==
  ASSUME TypeOK, stack # << >>
  PROVE  /\ Len(stack) \in 1 .. Len(stack)
         /\ Top \in Frames
  BY DEF TypeOK, Top

\* The call on top goes on.
LEMMA TopGoesOn ==
  ASSUME TypeOK, StackInv, stack # << >>, NEW n \in Nat
  PROVE  LET frame == [res |-> Top.res, begun |-> n]
             called == [stack EXCEPT ![Len(stack)].begun = n]
         IN  /\ called \in Seq(Frames)
             /\ Len(called) = Len(stack)
             /\ called[Len(stack)] = frame
             /\ \A k \in 1 .. Len(stack) :
                  k = Len(stack) \/ (/\ called[k] = stack[k]
                                     /\ k \in 1 .. (Len(stack) - 1))
<1> DEFINE frame == [res |-> Top.res, begun |-> n]
           called == [stack EXCEPT ![Len(stack)].begun = n]
<1>1. stack \in Seq(Frames) /\ Len(stack) \in 1 .. Len(stack) /\ Top \in Frames
  BY TopIsFrame DEF TypeOK
<1>2. frame \in Frames
  BY <1>1 DEF Frames
<1>3. called = [stack EXCEPT ![Len(stack)] = frame]
  <2>1. [Top EXCEPT !.begun = n] = frame
    BY <1>1 DEF Frames
  <2>2. called =
          [stack EXCEPT ![Len(stack)] = [stack[Len(stack)] EXCEPT !.begun = n]]
    BY <1>1
  <2> HIDE DEF frame, called
  <2> QED
    BY <2>1, <2>2 DEF Top
<1> HIDE DEF frame
<1>4. /\ called \in Seq(Frames) /\ Len(called) = Len(stack)
      /\ \A k \in 1 .. Len(stack) :
           called[k] = IF k = Len(stack) THEN frame ELSE stack[k]
  BY <1>1, <1>2, <1>3, ExceptSeq
<1> HIDE DEF called
<1>5. \A k \in 1 .. Len(stack) : k = Len(stack) \/ k \in 1 .. (Len(stack) - 1)
  BY <1>1
<1> QED
  BY <1>1, <1>4, <1>5 DEF frame, called

\* A caller waits for the child that it has begun.
LEMMA GetChildCalls ==
  ASSUME AnswerInv, NEW res \in Aggregates, GetChild(res)
  PROVE  LET top == Len(stack)
             next == stack[top].begun + 1
         IN  /\ top \in 1 .. top /\ stack[top].begun \in Nat
             /\ stack' \in Seq(Frames) /\ Len(stack') = top + 1
             /\ \A k \in 1 .. top : k = top \/ (/\ stack'[k] = stack[k]
                                                /\ k \in 1 .. (top - 1))
             /\ stack[top].res = res
             /\ stack'[top] = [res |-> res, begun |-> next]
             /\ next \in DOMAIN Children[res]
             /\ stack'[top + 1] = [res |-> Children[res][next].res, begun |-> 0]
<1> DEFINE top == Len(stack)  next == Top.begun + 1
           called == [stack EXCEPT ![Len(stack)].begun = next]
           frame == [res |-> Children[res][next].res, begun |-> 0]
<1>1. /\ TypeOK /\ StackInv /\ stack # << >> /\ Top.res = res
      /\ Top.begun < Len(Children[res])
      /\ stack' = Append([stack EXCEPT ![Len(stack)].begun = @ + 1], frame)
  BY DEF AnswerInv, GetChild, Calling, MoreChildren
<1>2. Top \in Frames /\ top \in 1 .. top
  BY <1>1, TopIsFrame
<1>3. next \in Nat /\ stack' = Append(called, frame)
  BY <1>1, <1>2 DEF Top, Frames
<1>4. Children[res] \in Seq(Child)
  BY TreeAssumption
<1>5. next \in DOMAIN Children[res]
  BY <1>1, <1>2, <1>4 DEF Frames
<1>6. frame \in Frames
  <2>1. Children[res][next] \in Child
    BY <1>4, <1>5
  <2> QED
    BY <2>1 DEF Child, Frames
<1>7. /\ called \in Seq(Frames) /\ Len(called) = top
      /\ called[top] = [res |-> res, begun |-> next]
      /\ \A k \in 1 .. top : k = top \/ (/\ called[k] = stack[k]
                                         /\ k \in 1 .. (top - 1))
  BY <1>1, <1>3, TopGoesOn
<1>8. /\ stack' \in Seq(Frames) /\ Len(stack') = top + 1
      /\ stack'[top + 1] = frame
      /\ \A k \in 1 .. top : stack'[k] = called[k]
  <2> HIDE DEF called, frame, top
  <2> QED
    BY <1>3, <1>6, <1>7, AppendProperties
<1>9. Top = stack[top] /\ Top.begun \in Nat
  BY <1>2 DEF Top, Frames
<1> HIDE DEF called, Top
<1> QED
  BY <1>1, <1>2, <1>5, <1>7, <1>8, <1>9

LEMMA GetChildInv ==
  ASSUME AnswerInv, NEW res \in Aggregates, GetChild(res)
  PROVE  AnswerInv'
<1> DEFINE top == Len(stack)  next == stack[top].begun + 1
<1>1. UNCHANGED <<target, answer, reply, members, environment>>
  BY DEF GetChild
<1>2. /\ top \in 1 .. top
      /\ stack' \in Seq(Frames) /\ Len(stack') = top + 1
      /\ \A k \in 1 .. top : k = top \/ (/\ stack'[k] = stack[k]
                                         /\ k \in 1 .. (top - 1))
      /\ stack'[top] = [res |-> res, begun |-> next]
      /\ next \in DOMAIN Children[res]
      /\ stack'[top + 1] = [res |-> Children[res][next].res, begun |-> 0]
  BY GetChildCalls
<1>3. StackInv'
  <2>1. Len(stack') - 1 = top
    BY <1>2
  <2>2. ASSUME NEW k \in 1 .. top
        PROVE  /\ stack'[k].res \in Aggregates
               /\ stack'[k].begun \in DOMAIN Children[stack'[k].res]
    <3>1. CASE k = top
      BY <1>2, <3>1
    <3>2. CASE k \in 1 .. (Len(stack) - 1) /\ stack'[k] = stack[k]
      BY <3>2 DEF AnswerInv, StackInv
    <3> QED
      BY <1>2, <3>1, <3>2
  <2> HIDE DEF top
  <2> QED
    BY <2>1, <2>2 DEF StackInv
<1>4. StatusInv'
  <2>1. stack'[top + 1].begun = 0 /\ Top' = stack'[Len(stack')]
    BY <1>2 DEF Top
  <2>2. Top'.begun = 0
    BY <1>2, <2>1
  <2> QED
    BY <2>2 DEF StatusInv
<1>5. TypeOK' /\ HistoryInv'
  BY <1>1, <1>2 DEF AnswerInv, TypeOK, HistoryInv, members, environment
<1>6. AnswersMomentary' /\ ConnectedHasAddress'
  BY <1>1 DEF AnswerInv, AnswersMomentary, Momentary, ConnectionMomentary,
     ConnectedHasAddress, environment
<1> QED
  BY <1>3, <1>4, <1>5, <1>6 DEF AnswerInv

LEMMA ReturnObjectInv ==
  ASSUME AnswerInv, NEW res \in Aggregates, ReturnObject(res)
  PROVE  AnswerInv'
<1>1. TypeOK /\ StackInv /\ stack # << >> /\ stack' = Callers
  BY DEF AnswerInv, ReturnObject, Calling
<1>2. stack' \in Seq(Frames) /\ StackInv' /\ ~Calling(Status)'
  BY <1>1, CallersAreFrames
<1>3. reply' \in Replies
  BY <1>1 DEF TypeOK, ReturnObject, Replies
<1>4. UNCHANGED <<target, answer, members, environment>>
  BY DEF ReturnObject
<1>5. TypeOK' /\ HistoryInv'
  BY <1>2, <1>3, <1>4 DEF AnswerInv, TypeOK, HistoryInv, members, environment
<1>6. AnswersMomentary' /\ ConnectedHasAddress'
  BY <1>4 DEF AnswerInv, AnswersMomentary, Momentary, ConnectionMomentary,
     ConnectedHasAddress, environment
<1> QED
  BY <1>2, <1>5, <1>6 DEF AnswerInv, StatusInv

\* A step of wifi_status counts on, and changes nothing but the members.
LEMMA StatusStepInv ==
  ASSUME AnswerInv, NEW n \in 0 .. 1, StatusStep(n)
  PROVE  /\ stack' \in Seq(Frames)
         /\ StackInv'
         /\ Top'.begun = n + 1
         /\ UNCHANGED <<target, answer, reply, environment>>
<1>1. /\ TypeOK /\ StackInv /\ stack # << >>
      /\ stack' = [stack EXCEPT ![Len(stack)].begun = n + 1]
      /\ UNCHANGED <<target, answer, reply, environment>>
  BY DEF AnswerInv, StatusStep, Calling
<1>2. Len(stack) \in 1 .. Len(stack)
  BY <1>1, TopIsFrame
<1>3. /\ stack' \in Seq(Frames) /\ Len(stack') = Len(stack)
      /\ stack'[Len(stack)].begun = n + 1
      /\ \A k \in 1 .. Len(stack) :
           k = Len(stack) \/ (/\ stack'[k] = stack[k]
                              /\ k \in 1 .. (Len(stack) - 1))
  <2> DEFINE next == n + 1
             called == [stack EXCEPT ![Len(stack)].begun = next]
  <2>1. next \in Nat
    OBVIOUS
  <2> HIDE DEF next
  <2>2. /\ called \in Seq(Frames) /\ Len(called) = Len(stack)
        /\ called[Len(stack)] = [res |-> Top.res, begun |-> next]
        /\ \A k \in 1 .. Len(stack) :
             k = Len(stack) \/ (/\ called[k] = stack[k]
                                /\ k \in 1 .. (Len(stack) - 1))
    BY <1>1, <2>1, TopGoesOn
  <2>3. called[Len(stack)].begun = next
    BY <2>2
  <2>4. stack' = called
    BY <1>1 DEF next
  <2> HIDE DEF called
  <2> QED
    BY <2>2, <2>3, <2>4 DEF next
<1>4. \A k \in 1 .. (Len(stack) - 1) : k \in 1 .. Len(stack) /\ k # Len(stack)
  BY <1>2
<1>5. StackInv'
  BY <1>1, <1>3, <1>4 DEF StackInv
<1> QED
  BY <1>1, <1>3, <1>5 DEF Top

LEMMA ResetConnectionInv == AnswerInv /\ ResetConnection => AnswerInv'
<1> SUFFICES ASSUME AnswerInv, ResetConnection PROVE AnswerInv'
  OBVIOUS
<1>1. /\ stack' \in Seq(Frames) /\ StackInv' /\ Top'.begun = 1
      /\ UNCHANGED <<target, answer, reply, environment>>
  BY StatusStepInv DEF ResetConnection
<1>2. /\ connected_' = FALSE /\ addrs_' = {} /\ ssid_' = Null
      /\ running' = wlan.running
  BY DEF ResetConnection
<1>3. wlan.running \in wlans.running /\ wlan.running \in BOOLEAN
  BY DEF AnswerInv, HistoryInv, TypeOK, Wlans
<1>4. TypeOK' /\ HistoryInv'
  BY <1>1, <1>2, <1>3 DEF AnswerInv, TypeOK, HistoryInv, environment
<1>5. StatusInv'
  <2>1. running' => TRUE \in wlans'.running
    BY <1>1, <1>2, <1>3 DEF environment
  <2>2. Top'.begun # 2
    BY <1>1
  <2> QED
    BY <1>2, <2>1, <2>2, Zenon DEF StatusInv
<1>6. AnswersMomentary' /\ ConnectedHasAddress'
  BY <1>1 DEF AnswerInv, AnswersMomentary, Momentary, ConnectionMomentary,
     ConnectedHasAddress, environment
<1> QED
  BY <1>1, <1>4, <1>5, <1>6 DEF AnswerInv

LEMMA RefreshConnectionInv ==
  AnswerInv /\ RefreshConnectionStatus => AnswerInv'
<1> SUFFICES ASSUME AnswerInv, RefreshConnectionStatus PROVE AnswerInv'
  OBVIOUS
<1>1. /\ stack' \in Seq(Frames) /\ StackInv' /\ Top'.begun = 2
      /\ UNCHANGED <<target, answer, reply, environment>>
  BY StatusStepInv DEF RefreshConnectionStatus
<1>2. /\ connected_ = FALSE /\ addrs_ = {}
      /\ running => TRUE \in wlans.running
  BY DEF RefreshConnectionStatus, StatusStep, AnswerInv, StatusInv
<1>3. UNCHANGED <<ssid_, running>>
  BY DEF RefreshConnectionStatus
<1>4. \/ /\ addrs_' = wlan.addrs
         /\ connected_' = (running /\ wlan.addrs # {})
      \/ addrs_' = {} /\ connected_' = FALSE
  BY <1>2 DEF RefreshConnectionStatus
<1>5. wlan.addrs \in wlans.addrs /\ wlan.addrs \subseteq Addresses
  BY DEF AnswerInv, HistoryInv, TypeOK, Wlans
<1>6. /\ connected_' \in BOOLEAN /\ addrs_' \subseteq Addresses
      /\ addrs_' \in {{}} \cup wlans.addrs
      /\ connected_' => TRUE \in wlans.running /\ addrs_' # {}
  <2>1. CASE addrs_' = wlan.addrs /\ connected_' = (running /\ wlan.addrs # {})
    BY <1>2, <1>5, <2>1
  <2>2. CASE addrs_' = {} /\ connected_' = FALSE
    BY <2>2
  <2> QED
    BY <1>4, <2>1, <2>2
<1>7. TypeOK' /\ HistoryInv'
  BY <1>1, <1>3, <1>6 DEF AnswerInv, TypeOK, HistoryInv, environment
<1>8. StatusInv'
  <2>1. Top'.begun # 1
    BY <1>1
  <2>2. /\ ConnectionMomentary(connected_, addrs_)'
        /\ connected_' => addrs_' # {}
    BY <1>1, <1>6 DEF ConnectionMomentary, environment
  <2> QED
    BY <2>1, <2>2, Zenon DEF StatusInv
<1>9. AnswersMomentary' /\ ConnectedHasAddress'
  BY <1>1 DEF AnswerInv, AnswersMomentary, Momentary, ConnectionMomentary,
     ConnectedHasAddress, environment
<1> QED
  BY <1>1, <1>7, <1>8, <1>9 DEF AnswerInv

LEMMA RefreshSsidInv == AnswerInv /\ RefreshSsid => AnswerInv'
<1> SUFFICES ASSUME AnswerInv, RefreshSsid PROVE AnswerInv'
  OBVIOUS
<1> DEFINE value == [connected |-> connected_, addrs |-> addrs_, ssid |-> ssid_']
           entry == Entry(value)
<1>1. /\ stack # << >> /\ Top.res = Status
      /\ ssid_' \in {wlan.ssid, Null}
      /\ Return("ok", value)
      /\ UNCHANGED <<target, connected_, addrs_, running, environment>>
  BY DEF RefreshSsid, Calling
<1>2. ConnectionMomentary(connected_, addrs_) /\ (connected_ => addrs_ # {})
  BY DEF RefreshSsid, AnswerInv, StatusInv
<1>3. /\ ssid_' \in Ssids \cup {Null}
      /\ ssid_' \in {Null} \cup wlans.ssid
  BY <1>1 DEF AnswerInv, HistoryInv, TypeOK, Wlans
<1>4. Path \in Seq(Names)
  BY <1>1, PathIsNames DEF AnswerInv
<1>5. value \in StatusValues
  BY <1>3 DEF AnswerInv, TypeOK, StatusValues
<1>6. entry.res = Status /\ entry.value = value
  BY <1>1 DEF Entry
<1>7. value.connected = connected_ /\ value.addrs = addrs_ /\ value.ssid = ssid_'
  OBVIOUS
<1>8. entry \in Entries
  <2>1. entry = [path |-> Path, res |-> Status, value |-> value]
    BY <1>1 DEF Entry
  <2> HIDE DEF entry, value
  <2> QED
    BY <1>4, <1>5, <2>1 DEF Entries
<1>9. "ok" \in Replies
  BY DEF Replies
<1> HIDE DEF value
<1>10. Momentary(entry)
  <2> HIDE DEF entry
  <2> QED
    BY <1>2, <1>3, <1>6, <1>7 DEF Momentary
<1> QED
  BY <1>1, <1>2, <1>3, <1>6, <1>7, <1>8, <1>9, <1>10, ReturnInv

-----------------------------------------------------------------------------

LEMMA NextAnswerInv == AnswerInv /\ [Next]_vars => AnswerInv'
<1> SUFFICES ASSUME AnswerInv, [Next]_vars PROVE AnswerInv'
  OBVIOUS
<1>1. CASE Restart
  BY <1>1, RestartInv
<1>2. CASE (\E leaf \in Leaves : SourceChanges(leaf)) \/ WlanChanges
  BY <1>2, ChangesInv
<1>3. CASE NotFound \/ BadRequest \/ NotAllowed \/ Get
  BY <1>3, RequestInv
<1>4. ASSUME NEW leaf \in Leaves,
             GetMember(leaf) \/ GetLine(leaf) \/ GetFails(leaf) \/ SendFails(leaf)
      PROVE  AnswerInv'
  BY <1>4, GetLeafInv
<1>5. ASSUME NEW res \in Aggregates, GetChild(res) PROVE AnswerInv'
  BY <1>5, GetChildInv
<1>6. ASSUME NEW res \in Aggregates, ReturnObject(res) PROVE AnswerInv'
  BY <1>6, ReturnObjectInv
<1>7. CASE ResetConnection
  BY <1>7, ResetConnectionInv
<1>8. CASE RefreshConnectionStatus
  BY <1>8, RefreshConnectionInv
<1>9. CASE RefreshSsid
  BY <1>9, RefreshSsidInv
<1>10. CASE UNCHANGED vars
  BY <1>10 DEF vars, members, environment, AnswerInv, TypeOK, StackInv,
     HistoryInv, StatusInv, Calling, Top, AnswersMomentary, Momentary,
     ConnectionMomentary, ConnectedHasAddress
<1> QED
  BY <1>1, <1>2, <1>3, <1>4, <1>5, <1>6, <1>7, <1>8, <1>9, <1>10
     DEF Next, Handler

\* Type correctness, the form of the calls, and where the answer comes from:
\* what GET does to the stack of calls and to the members of wifi_status.
THEOREM AnswerCorrect == Spec => []AnswerInv
<1>1. Init => AnswerInv
  BY InitAnswerInv
<1>2. AnswerInv /\ [Next]_vars => AnswerInv'
  BY NextAnswerInv
<1> QED
  BY <1>1, <1>2, PTL DEF Spec

\* Every call of get(), every entry of the answer and every member of
\* wifi_status has its type, in any tree of resources.
THEOREM TypeCorrect == Spec => []TypeOK
<1>1. AnswerInv => TypeOK
  BY DEF AnswerInv
<1> QED
  BY <1>1, AnswerCorrect, PTL

\* No answer of get() has a value that was not so during the request.
THEOREM AnswersAreMomentary == Spec => []AnswersMomentary
<1>1. AnswerInv => AnswersMomentary
  BY DEF AnswerInv
<1> QED
  BY <1>1, AnswerCorrect, PTL

\* refresh_connection_status() says "connected" with an address only.
THEOREM ConnectedIsAddressed == Spec => []ConnectedHasAddress
<1>1. AnswerInv => ConnectedHasAddress
  BY DEF AnswerInv
<1> QED
  BY <1>1, AnswerCorrect, PTL

-----------------------------------------------------------------------------
(***************************************************************************)
(* The answer is complete.  First the routes: the callers of a leaf are    *)
(* one, and the names on a route say which it is.                          *)
(***************************************************************************)

LEMMA LeastElement ==
  ASSUME NEW T \in SUBSET Nat, T # {}
  PROVE  \E n \in T : \A m \in T : n <= m
<1> DEFINE Less == {pair \in Nat \X Nat : pair[1] < pair[2]}
<1>1. IsWellFoundedOn(Less, Nat)
  BY NatLessThanWellFounded DEF OpToRel
<1>2. \A m, n \in Nat : <<m, n>> \in Less <=> m < n
  OBVIOUS
<1> HIDE DEF Less
<1>3. PICK n \in T : \A m \in T : ~(<<m, n>> \in Less)
  BY <1>1, WFMin
<1>4. \A m \in T : ~(m < n)
  BY <1>2, <1>3
<1> QED
  BY <1>4

LEMMA StepFacts ==
  ASSUME NEW step \in Steps
  PROVE  /\ step.res \in Aggregates
         /\ step.begun \in DOMAIN Children[step.res] /\ step.begun \in Nat
         /\ step = [res |-> step.res, begun |-> step.begun]
         /\ Awaited(step) \in Child
<1>1. PICK res \in Aggregates : step \in [res : {res}, begun : DOMAIN Children[res]]
  BY DEF Steps
<1>2. Children[res] \in Seq(Child)
  BY TreeAssumption
<1>3. step.res = res /\ step.begun \in DOMAIN Children[res]
  BY <1>1
<1>4. step.begun \in Nat /\ Children[res][step.begun] \in Child
  BY <1>2, <1>3
<1> QED
  BY <1>1, <1>3, <1>4 DEF Awaited

LEMMA RouteFacts ==
  ASSUME NEW res, NEW route \in Routes(res)
  PROVE  /\ Len(route) \in 1 .. Height /\ Len(route) \in Nat
         /\ route \in [1 .. Len(route) -> Steps]
         /\ route[1].res = res
         /\ \A k \in 1 .. (Len(route) - 1) : route[k + 1].res = Awaited(route[k]).res
         /\ Awaited(route[Len(route)]).res \notin Aggregates
<1>1. PICK n \in 1 .. Height : route \in [1 .. n -> Steps]
  BY DEF Routes
<1>2. n \in Nat /\ Height \in Nat
  BY HeightAssumption
<1>3. Len(route) = n
  BY <1>1, <1>2
<1> QED
  BY <1>1, <1>2, <1>3 DEF Routes, Linked, Destination

\* Two routes with the same names take the same step as long as they are at
\* the same resource.
LEMMA NamesTell ==
  ASSUME NEW res, NEW r \in Routes(res), NEW s \in Routes(res),
         NamesOf(r) = NamesOf(s)
  PROVE  r = s
<1> DEFINE n == Len(r)
<1>1. n = Len(s) /\ n \in Nat
  <2>1. DOMAIN NamesOf(r) = 1 .. Len(r) /\ DOMAIN NamesOf(s) = 1 .. Len(s)
    BY DEF NamesOf
  <2>2. Len(r) \in Nat /\ Len(s) \in Nat /\ Len(r) >= 1 /\ Len(s) >= 1
    BY RouteFacts, HeightAssumption
  <2>3. Len(s) \in 1 .. Len(r) /\ Len(r) \in 1 .. Len(s)
    BY <2>1, <2>2
  <2> QED
    BY <2>2, <2>3
<1>2. r \in [1 .. n -> Steps] /\ s \in [1 .. n -> Steps]
  BY <1>1, RouteFacts
<1>3. \A k \in 1 .. n : Awaited(r[k]).name = Awaited(s[k]).name
  <2>1. \A k \in 1 .. n : NamesOf(r)[k] = Awaited(r[k]).name
    BY DEF NamesOf
  <2>2. \A k \in 1 .. n : NamesOf(s)[k] = Awaited(s[k]).name
    BY <1>1 DEF NamesOf
  <2> QED
    BY <2>1, <2>2
<1>4. /\ r[1].res = s[1].res
      /\ \A k \in 1 .. (n - 1) : /\ r[k + 1].res = Awaited(r[k]).res
                                 /\ s[k + 1].res = Awaited(s[k]).res
  BY <1>1, RouteFacts
<1> HIDE DEF n
<1>5. ASSUME NEW k \in 1 .. n, r[k].res = s[k].res PROVE r[k] = s[k]
  <2>1. r[k] \in Steps /\ s[k] \in Steps
    BY <1>2
  <2>2. Awaited(r[k]).name = Awaited(s[k]).name
    BY <1>3
  <2>3. r[k].begun = s[k].begun
    BY <1>5, <2>1, <2>2, StepFacts, NamesAssumption DEF Awaited
  <2> QED
    BY <1>5, <2>1, <2>3, StepFacts
<1> DEFINE T == {k \in 1 .. n : r[k] # s[k]}
<1>6. ASSUME T # {} PROVE FALSE
  <2>1. T \in SUBSET Nat
    BY <1>1
  <2>2. PICK k \in T : \A l \in T : k <= l
    <3> HIDE DEF T
    <3> QED
      BY <1>6, <2>1, LeastElement
  <2>3. k # 1
    BY <1>4, <1>5, <2>2
  <2>4. k - 1 \in 1 .. (n - 1) /\ k - 1 \in 1 .. n /\ (k - 1) + 1 = k /\ k - 1 \notin T
    BY <1>1, <2>2, <2>3
  <2>5. r[k - 1] = s[k - 1]
    BY <2>4
  <2>6. r[k].res = s[k].res
    BY <1>4, <2>4, <2>5
  <2> QED
    BY <1>5, <2>2, <2>6
<1>7. \A k \in 1 .. n : r[k] = s[k]
  BY <1>6
<1>8. r = [k \in 1 .. n |-> r[k]] /\ s = [k \in 1 .. n |-> s[k]]
  BY <1>2
<1> HIDE DEF T
<1> QED
  BY <1>7, <1>8

\* The callers form a route that is not finished, of at most Height steps.
LEMMA CallersAreSteps ==
  ASSUME TypeOK, StackInv, CallsInv, stack # << >>
  PROVE  /\ Len(stack) \in Nat /\ Len(stack) >= 1
         /\ Len(Callers) = Len(stack) - 1 /\ Len(Callers) <= Height
         /\ Callers \in [1 .. Len(Callers) -> Steps]
         /\ \A k \in 1 .. Len(Callers) : Callers[k] = stack[k] /\ stack[k] \in Steps
         /\ \A k \in 1 .. Len(Callers) : stack[k + 1].res = Awaited(stack[k]).res
<1> DEFINE n == Len(stack) - 1
<1>1. stack \in Seq(Frames) /\ Len(stack) \in Nat /\ n \in Nat
  BY DEF TypeOK
<1>2. Len(Callers) = n /\ Callers \in Seq(Frames)
      /\ \A k \in 1 .. n : Callers[k] = stack[k]
  BY <1>1, FrontProperties DEF Callers
<1>3. \A k \in 1 .. n : stack[k + 1].res = Awaited(stack[k]).res
  BY DEF CallsInv, Linked
<1>4. ASSUME NEW k \in 1 .. n PROVE stack[k] \in Steps
  <2>1. stack[k].res \in Aggregates /\ stack[k].begun \in DOMAIN Children[stack[k].res]
    BY DEF StackInv
  <2>2. stack[k] \in Frames
    BY <1>1
  <2>3. stack[k] = [res |-> stack[k].res, begun |-> stack[k].begun]
    BY <2>2 DEF Frames
  <2> QED
    BY <2>1, <2>3 DEF Steps
<1> HIDE DEF n
<1>5. n <= Height
  <2> SUFFICES ASSUME n >= Height + 1 PROVE FALSE
    BY <1>1, HeightAssumption
  <2> DEFINE h == Height + 1  calls == [k \in 1 .. h |-> stack[k]]
  <2>1. h \in Nat /\ h <= n
    BY HeightAssumption
  <2>2. calls \in [1 .. h -> Steps] /\ Len(calls) = h
    BY <1>1, <1>4, <2>1
  <2>3. Linked(calls)
    <3> SUFFICES ASSUME NEW k \in 1 .. (h - 1)
                 PROVE  calls[k + 1].res = Awaited(calls[k]).res
      BY <2>2 DEF Linked
    <3>1. calls[k + 1] = stack[k + 1] /\ calls[k] = stack[k] /\ k \in 1 .. n
      BY <1>1, <2>1
    <3> HIDE DEF calls
    <3> QED
      BY <1>3, <3>1
  <2> HIDE DEF calls
  <2> QED
    BY <2>2, <2>3, HeightAssumption
<1>6. Callers \in [1 .. n -> Steps]
  BY <1>1, <1>2, <1>4
<1> QED
  BY <1>1, <1>2, <1>3, <1>4, <1>5, <1>6 DEF n

LEMMA CallersAreRoute ==
  ASSUME TypeOK, StackInv, CallsInv, stack # << >>, Nested, Top.res \notin Aggregates
  PROVE  /\ Callers \in Routes(target)
         /\ Path = NamesOf(Callers)
         /\ Destination(Callers) = Awaited(stack[Len(stack) - 1])
         /\ Destination(Callers).res = Top.res
<1> DEFINE n == Len(Callers)
<1>1. /\ n \in Nat /\ n = Len(stack) - 1 /\ n \in 1 .. n /\ n \in 1 .. Height
      /\ Callers \in [1 .. n -> Steps]
      /\ \A k \in 1 .. n : Callers[k] = stack[k]
      /\ \A k \in 1 .. n : stack[k + 1].res = Awaited(stack[k]).res
  BY CallersAreSteps, HeightAssumption DEF Nested
<1>2. stack[1].res = target /\ n + 1 = Len(stack)
  BY <1>1 DEF CallsInv
<1>3. Callers[1].res = target
  BY <1>1, <1>2
<1>4. Linked(Callers)
  <2> SUFFICES ASSUME NEW k \in 1 .. (n - 1)
               PROVE  Callers[k + 1].res = Awaited(Callers[k]).res
    BY DEF Linked
  <2>1. k \in 1 .. n /\ k + 1 \in 1 .. n
    BY <1>1
  <2> HIDE DEF n
  <2> QED
    BY <1>1, <2>1
<1>5. Destination(Callers) = Awaited(stack[n]) /\ Awaited(stack[n]).res = stack[n + 1].res
  BY <1>1 DEF Destination
<1>6. stack[n + 1] = Top
  BY <1>1, <1>2 DEF Top
<1> HIDE DEF n
<1>7. Callers \in UNION {[1 .. m -> Steps] : m \in 1 .. Height}
  BY <1>1
<1> HIDE DEF Callers
<1>8. Callers \in Routes(target)
  BY <1>3, <1>4, <1>5, <1>6, <1>7 DEF Routes
<1> QED
  BY <1>1, <1>5, <1>6, <1>8 DEF Path

-----------------------------------------------------------------------------
(***************************************************************************)
(* Then the calls, and which routes they have passed.                      *)
(***************************************************************************)
CompleteAnswerInv == AnswerInv /\ CallsInv /\ CompleteInv

LEMMA InitCompleteInv == Init => CompleteAnswerInv
<1> SUFFICES ASSUME Init PROVE CompleteAnswerInv
  OBVIOUS
<1>1. stack = << >> /\ reply = "none"
  BY DEF Init
<1> QED
  BY <1>1, InitAnswerInv DEF CompleteAnswerInv, CallsInv, CompleteInv

\* Nothing is claimed of a server that has restarted or refused a request, and
\* a request that begins has passed no route.
LEMMA RequestCompleteInv ==
  ASSUME CompleteAnswerInv, Restart \/ NotFound \/ BadRequest \/ NotAllowed \/ Get
  PROVE  CallsInv' /\ CompleteInv'
<1>1. CASE Restart \/ NotFound \/ BadRequest \/ NotAllowed
  <2>1. stack' = << >>
    BY <1>1 DEF Restart, NotFound, BadRequest, NotAllowed, Refuse, CompleteAnswerInv
  <2>2. reply' \in {"none", "bad request", "not found", "not allowed"}
    BY <1>1 DEF Restart, NotFound, BadRequest, NotAllowed, Refuse
  <2> QED
    BY <2>1, <2>2 DEF CallsInv, CompleteInv
<1>2. CASE Get
  <2>1. /\ stack' = <<[res |-> target', begun |-> 0]>>
        /\ answer' = {} /\ reply' = "none"
    BY <1>2 DEF Get
  <2>2. stack' # << >> /\ Len(stack') = 1 /\ stack'[1].res = target' /\ stack'[1].begun = 0
    BY <2>1
  <2>3. CallsInv'
    BY <2>1, <2>2 DEF CallsInv, Linked
  <2>4. ASSUME NEW route \in Routes(target'), Passed(route)' PROVE FALSE
    <3>1. PICK k \in (1 .. Len(stack')) \cap (1 .. Len(route)) : PassedBy(route, k)'
      BY <2>2, <2>4 DEF Passed
    <3>2. k = 1 /\ NextChild(1)' = 1
      BY <2>2 DEF NextChild
    <3>3. route[1].begun < 1
      BY <3>1, <3>2 DEF PassedBy
    <3>4. route[1] \in Steps
      BY RouteFacts, HeightAssumption
    <3>5. Children[route[1].res] \in Seq(Child) /\ route[1].begun \in DOMAIN Children[route[1].res]
      BY <3>4, StepFacts, TreeAssumption
    <3> QED
      BY <3>3, <3>5
  <2> QED
    BY <2>1, <2>3, <2>4 DEF CompleteInv
<1> QED
  BY <1>1, <1>2

\* A source that changes may become a reason for an element to be missing.
LEMMA ChangesCompleteInv ==
  ASSUME CompleteAnswerInv,
         (\E leaf \in Leaves : SourceChanges(leaf)) \/ WlanChanges
  PROVE  CallsInv' /\ CompleteInv'
<1>1. UNCHANGED <<target, stack, answer, reply>>
  BY DEF SourceChanges, WlanChanges
<1>2. \A leaf \in Leaves : sources[leaf] \subseteq sources'[leaf]
  <2>1. sources \in [Leaves -> SUBSET AnyContents]
    BY DEF CompleteAnswerInv, AnswerInv, TypeOK
  <2> QED
    BY <2>1 DEF SourceChanges, WlanChanges
<1>3. ASSUME NEW route \in Routes(target), Answers(route) PROVE Answers(route)'
  <2> DEFINE child == Destination(route)
  <2>1. MayBeMissing(child) => MayBeMissing(child)'
    BY <1>2 DEF MayBeMissing
  <2>2. ~child.omit \/ MayBeMissing(child)
    BY DEF MayBeMissing
  <2> QED
    BY <1>1, <1>3, <2>1, <2>2 DEF Answers
<1>4. CallsInv' /\ \A route : Passed(route)' <=> Passed(route)
  BY <1>1 DEF CompleteAnswerInv, CallsInv, Linked, Passed, PassedBy, NextChild
<1> QED
  BY <1>1, <1>3, <1>4 DEF CompleteAnswerInv, CompleteInv

\* A step that passes no route and adds no entry.
LEMMA SameCompleteInv ==
  ASSUME CompleteAnswerInv, stack # << >>, stack' # << >>,
         UNCHANGED <<target, answer, reply, sources>>,
         \A route \in Routes(target) : Passed(route)' <=> Passed(route)
  PROVE  CompleteInv'
<1>1. \A route \in Routes(target) : Answers(route)' <=> Answers(route)
  BY DEF Answers, MayBeMissing
<1> QED
  BY <1>1 DEF CompleteAnswerInv, CompleteInv

\* A route has no step at a resource that has no children.
LEMMA NoStepAtLeaf ==
  ASSUME NEW res, NEW route \in Routes(res), NEW k \in 1 .. Len(route)
  PROVE  /\ route[k] \in Steps /\ route[k].res \in Aggregates
         /\ route[k].begun \in DOMAIN Children[route[k].res]
         /\ route[k].begun \in Nat /\ route[k].begun >= 1
         /\ route[k].begun <= Len(Children[route[k].res])
<1>1. route[k] \in Steps
  BY RouteFacts
<1>2. Children[route[k].res] \in Seq(Child)
  BY <1>1, StepFacts, TreeAssumption
<1> QED
  BY <1>1, <1>2, StepFacts

LEMMA GetChildCompleteInv ==
  ASSUME CompleteAnswerInv, NEW res \in Aggregates, GetChild(res)
  PROVE  CallsInv' /\ CompleteInv'
<1> DEFINE top == Len(stack)  next == stack[top].begun + 1
<1>1. /\ stack # << >> /\ UNCHANGED <<target, answer, reply, sources>>
  BY DEF GetChild, Calling, environment
<1>2. /\ top \in 1 .. top /\ stack[top].begun \in Nat
      /\ stack' \in Seq(Frames) /\ Len(stack') = top + 1
      /\ \A k \in 1 .. top : k = top \/ (/\ stack'[k] = stack[k]
                                         /\ k \in 1 .. (top - 1))
      /\ stack[top].res = res
      /\ stack'[top] = [res |-> res, begun |-> next]
      /\ stack'[top + 1] = [res |-> Children[res][next].res, begun |-> 0]
  BY GetChildCalls DEF CompleteAnswerInv
<1>3. /\ stack'[top].res = res /\ stack'[top].begun = next
      /\ stack'[top + 1].res = Awaited(stack'[top]).res /\ stack'[top + 1].begun = 0
      /\ \A k \in 1 .. top : stack'[k].res = stack[k].res
      /\ \A k \in 1 .. (top - 1) : stack'[k] = stack[k]
      /\ top \in Nat /\ top >= 1
  <2>1. stack'[top].res = res /\ stack'[top].begun = next
    BY <1>2
  <2>2. stack'[top + 1].res = Awaited(stack'[top]).res /\ stack'[top + 1].begun = 0
    BY <1>2, <2>1 DEF Awaited
  <2> HIDE DEF next
  <2>3. top \in Nat /\ top >= 1 /\ \A k \in 1 .. (top - 1) : k \in 1 .. top /\ k # top
    BY <1>2
  <2> HIDE DEF top
  <2> QED
    BY <1>2, <2>1, <2>2, <2>3
<1> HIDE DEF next, top
<1>4. CallsInv'
  <2>1. target = stack[1].res /\ reply = "none"
        /\ \A k \in 1 .. (top - 1) : stack[k + 1].res = Awaited(stack[k]).res
    BY <1>1 DEF CompleteAnswerInv, CallsInv, Linked, top
  <2>2. stack'[1].res = target'
    BY <1>1, <1>3, <2>1
  <2>3. ASSUME NEW k \in 1 .. top PROVE stack'[k + 1].res = Awaited(stack'[k]).res
    <3>1. CASE k = top
      BY <1>3, <3>1
    <3>2. CASE k \in 1 .. (top - 1) /\ k + 1 \in 1 .. top
      BY <1>3, <2>1, <3>2
    <3> QED
      BY <1>3, <3>1, <3>2
  <2>4. Len(stack') - 1 = top
    BY <1>2, <1>3
  <2> QED
    BY <1>1, <2>1, <2>2, <2>3, <2>4 DEF CallsInv, Linked
<1>5. ASSUME NEW route \in Routes(target) PROVE Passed(route)' <=> Passed(route)
  <2>1. \A k \in 1 .. top : NextChild(k)' = NextChild(k)
    <3> SUFFICES ASSUME NEW k \in 1 .. top PROVE NextChild(k)' = NextChild(k)
      OBVIOUS
    <3>1. CASE k = top
      BY <1>2, <1>3, <3>1 DEF NextChild, top, next
    <3>2. CASE k \in 1 .. (top - 1)
      BY <1>2, <1>3, <3>2 DEF NextChild, top
    <3> QED
      BY <1>3, <3>1, <3>2
  <2>2. \A k \in 1 .. top : PassedBy(route, k)' <=> PassedBy(route, k)
    <3> SUFFICES ASSUME NEW k \in 1 .. top
                 PROVE  PassedBy(route, k)' <=> PassedBy(route, k)
      OBVIOUS
    <3>1. \A i \in 1 .. (k - 1) : stack'[i] = stack[i]
      BY <1>3
    <3> QED
      BY <1>3, <2>1, <3>1 DEF PassedBy
  <2>3. ASSUME NEW k \in 1 .. Len(route), k = top + 1 PROVE ~PassedBy(route, k)'
    <3>1. NextChild(k)' = 1
      BY <1>2, <1>3, <2>3 DEF NextChild
    <3> QED
      BY <3>1, NoStepAtLeaf DEF PassedBy
  <2>4. \A k \in 1 .. Len(stack') : k \in 1 .. top \/ k = top + 1
    BY <1>2, <1>3
  <2>5. \A k \in 1 .. top : k \in 1 .. Len(stack') /\ k \in 1 .. Len(stack)
    BY <1>2, <1>3 DEF top
  <2>6. stack' # << >>
    BY <1>2, <1>3
  <2> QED
    BY <1>1, <2>2, <2>3, <2>4, <2>5, <2>6 DEF Passed, top
<1>6. stack' # << >>
  BY <1>2, <1>3
<1> QED
  BY <1>1, <1>4, <1>5, <1>6, SameCompleteInv

\* wifi_status counts its steps, which are no children.
LEMMA StatusStepCompleteInv ==
  ASSUME CompleteAnswerInv, NEW n \in 0 .. 1, StatusStep(n)
  PROVE  CallsInv' /\ CompleteInv'
<1> DEFINE top == Len(stack)
<1>1. /\ TypeOK /\ StackInv /\ stack # << >> /\ Top.res = Status
      /\ stack' = [stack EXCEPT ![Len(stack)].begun = n + 1]
      /\ UNCHANGED <<target, answer, reply, sources>>
  BY DEF CompleteAnswerInv, AnswerInv, StatusStep, Calling, environment
<1>2. /\ stack' \in Seq(Frames) /\ Len(stack') = top
      /\ stack'[top] = [res |-> Status, begun |-> n + 1]
      /\ \A k \in 1 .. top : k = top \/ (/\ stack'[k] = stack[k]
                                         /\ k \in 1 .. (top - 1))
  <2> DEFINE next == n + 1
             called == [stack EXCEPT ![Len(stack)].begun = next]
  <2>1. next \in Nat
    OBVIOUS
  <2> HIDE DEF next
  <2>2. /\ called \in Seq(Frames) /\ Len(called) = Len(stack)
        /\ called[Len(stack)] = [res |-> Top.res, begun |-> next]
        /\ \A k \in 1 .. Len(stack) :
             k = Len(stack) \/ (/\ called[k] = stack[k]
                                /\ k \in 1 .. (Len(stack) - 1))
    BY <1>1, <2>1, TopGoesOn
  <2>3. stack' = called
    BY <1>1 DEF next
  <2> HIDE DEF called
  <2> QED
    BY <1>1, <2>2, <2>3 DEF next
<1>3. /\ stack'[top].res = Status /\ stack[top].res = Status
      /\ top \in Nat /\ top >= 1
  <2>1. stack[top].res = Status
    BY <1>1 DEF Top
  <2>2. top \in Nat /\ top >= 1
    BY <1>1, TopIsFrame
  <2> QED
    BY <1>2, <2>1, <2>2
<1> HIDE DEF top
<1>4. \A k \in 1 .. top : stack'[k].res = stack[k].res
  BY <1>2, <1>3
<1>5. \A k \in 1 .. (top - 1) : stack'[k] = stack[k] /\ k \in 1 .. top /\ k + 1 \in 1 .. top
  BY <1>2, <1>3
<1>6. CallsInv'
  <2>1. target = stack[1].res /\ reply = "none"
        /\ \A k \in 1 .. (top - 1) : stack[k + 1].res = Awaited(stack[k]).res
    BY <1>1 DEF CompleteAnswerInv, CallsInv, Linked, top
  <2>2. stack'[1].res = target'
    BY <1>1, <1>3, <1>4, <2>1
  <2>3. \A k \in 1 .. (top - 1) : stack'[k + 1].res = Awaited(stack'[k]).res
    BY <1>4, <1>5, <2>1
  <2> QED
    BY <1>1, <1>2, <2>1, <2>2, <2>3 DEF CallsInv, Linked
<1>7. ASSUME NEW route \in Routes(target) PROVE Passed(route)' <=> Passed(route)
  <2>1. ASSUME NEW k \in 1 .. top, k \in 1 .. Len(route)
        PROVE  PassedBy(route, k)' <=> PassedBy(route, k)
    <3>1. CASE k = top
      <4>1. route[k].res # Status
        BY <2>1, NoStepAtLeaf, TreeAssumption
      <4> QED
        BY <1>3, <3>1, <4>1 DEF PassedBy
    <3>2. CASE k \in 1 .. (top - 1)
      <4>1. NextChild(k)' = NextChild(k)
        BY <1>2, <1>3, <1>5, <3>2 DEF NextChild, top
      <4>2. \A i \in 1 .. (k - 1) : stack'[i] = stack[i]
        BY <1>3, <1>5, <3>2
      <4> QED
        BY <1>4, <4>1, <4>2 DEF PassedBy
    <3> QED
      BY <1>3, <3>1, <3>2
  <2>2. stack' # << >>
    BY <1>2, <1>3
  <2> QED
    BY <1>1, <1>2, <2>1, <2>2 DEF Passed, top
<1>8. stack' # << >>
  BY <1>2, <1>3
<1> QED
  BY <1>1, <1>6, <1>7, <1>8, SameCompleteInv

-----------------------------------------------------------------------------
(***************************************************************************)
(* A call that returns has passed the routes that lead to it.              *)
(***************************************************************************)

LEMMA StepEquality ==
  ASSUME NEW s \in Steps, NEW t \in Steps, s.res = t.res, s.begun = t.begun
  PROVE  s = t
BY StepFacts

LEMMA ReturnCalls ==
  ASSUME CompleteAnswerInv, stack # << >>, Nested, stack' = Callers
  PROVE  LET n == Len(stack) - 1 IN
           /\ n \in Nat /\ n >= 1 /\ n + 1 = Len(stack)
           /\ Len(stack') = n /\ stack' # << >>
           /\ \A k \in 1 .. n : stack'[k] = stack[k] /\ stack[k] \in Steps
           /\ \A k \in 1 .. n : stack[k + 1].res = Awaited(stack[k]).res
           /\ stack'[1].res = target
           /\ Linked(stack)'
<1> DEFINE n == Len(stack) - 1
<1>1. /\ n \in Nat /\ n >= 1 /\ n + 1 = Len(stack) /\ Len(Callers) = n
      /\ \A k \in 1 .. n : Callers[k] = stack[k] /\ stack[k] \in Steps
      /\ \A k \in 1 .. n : stack[k + 1].res = Awaited(stack[k]).res
  BY CallersAreSteps DEF CompleteAnswerInv, AnswerInv, Nested
<1>2. Len(stack') = n /\ \A k \in 1 .. n : stack'[k] = stack[k]
  BY <1>1
<1>3. stack[1].res = target
  BY DEF CompleteAnswerInv, CallsInv
<1> HIDE DEF n
<1>4. Linked(stack)'
  <2>1. \A k \in 1 .. (n - 1) : stack'[k + 1].res = Awaited(stack'[k]).res
    <3>1. \A k \in 1 .. (n - 1) : k \in 1 .. n /\ k + 1 \in 1 .. n
      BY <1>1
    <3> QED
      BY <1>1, <1>2, <3>1
  <2> QED
    BY <1>2, <2>1 DEF Linked
<1>5. stack' # << >> /\ stack'[1].res = target
  BY <1>1, <1>2, <1>3
<1> QED
  BY <1>1, <1>2, <1>4, <1>5 DEF n

LEMMA ReturnPasses ==
  ASSUME CompleteAnswerInv, stack # << >>, Nested, stack' = Callers,
         NEW route \in Routes(target)
  PROVE  Passed(route)' <=>
           \/ \E k \in (1 .. (Len(stack) - 1)) \cap (1 .. Len(route)) :
                PassedBy(route, k)
           \/ /\ Len(route) >= Len(stack) - 1
              /\ \A i \in 1 .. (Len(stack) - 1) : route[i] = stack[i]
<1> DEFINE n == Len(stack) - 1
<1>1. /\ n \in Nat /\ n >= 1 /\ n + 1 = Len(stack)
      /\ Len(stack') = n /\ stack' # << >>
      /\ \A k \in 1 .. n : stack'[k] = stack[k] /\ stack[k] \in Steps
  BY ReturnCalls
<1>2. Len(route) \in Nat /\ \A k \in 1 .. Len(route) : route[k] \in Steps
  BY RouteFacts
<1>3. \A k \in 1 .. n : stack[k].begun \in Nat
  BY <1>1, StepFacts
<1>4. \A k \in 1 .. Len(route) : route[k].begun \in Nat
  BY <1>2, StepFacts
<1>5. \A k \in 1 .. n : NextChild(k) = stack[k].begun
  <2> HIDE DEF n
  <2>1. ASSUME NEW k \in 1 .. n PROVE k # Len(stack)
    BY <1>1
  <2> QED
    BY <1>3, <2>1 DEF NextChild
<1>6. \A k \in 1 .. n : NextChild(k)' = stack[k].begun + (IF k = n THEN 1 ELSE 0)
  BY <1>1 DEF NextChild
<1> HIDE DEF n
<1>7. ASSUME NEW k \in 1 .. n, k \in 1 .. Len(route)
      PROVE  PassedBy(route, k)' <=>
               \/ PassedBy(route, k)
               \/ k = n /\ \A i \in 1 .. n : route[i] = stack[i]
  <2>1. \A i \in 1 .. (k - 1) : stack'[i] = stack[i]
    BY <1>1
  <2>2. stack'[k].res = stack[k].res
    BY <1>1
  <2>3. CASE k # n
    <3>1. NextChild(k)' = NextChild(k)
      BY <1>3, <1>5, <1>6, <2>3
    <3> QED
      BY <2>1, <2>2, <2>3, <3>1 DEF PassedBy
  <2>4. CASE k = n
    <3>1. NextChild(k)' = stack[k].begun + 1 /\ NextChild(k) = stack[k].begun
      BY <1>5, <1>6, <2>4
    <3>2. route[k].begun < NextChild(k)' <=>
            route[k].begun < NextChild(k) \/ route[k].begun = stack[k].begun
      BY <1>3, <1>4, <1>7, <3>1
    <3>3. route[k] = stack[k] <=>
            route[k].res = stack[k].res /\ route[k].begun = stack[k].begun
      BY <1>1, <1>2, <1>7, StepEquality
    <3>4. (\A i \in 1 .. n : route[i] = stack[i]) <=>
            (\A i \in 1 .. (k - 1) : route[i] = stack[i]) /\ route[k] = stack[k]
      <4>1. \A i \in 1 .. n : i \in 1 .. (k - 1) \/ i = k
        BY <1>1, <2>4
      <4>2. \A i \in 1 .. (k - 1) : i \in 1 .. n
        BY <1>1, <2>4
      <4> QED
        BY <4>1, <4>2
    <3>5. PassedBy(route, k)' <=> /\ \A i \in 1 .. (k - 1) : route[i] = stack[i]
                                  /\ route[k].res = stack[k].res
                                  /\ route[k].begun < NextChild(k)'
      BY <2>1, <2>2 DEF PassedBy
    <3> QED
      BY <2>4, <3>2, <3>3, <3>4, <3>5 DEF PassedBy
  <2> QED
    BY <2>3, <2>4
<1>8. Passed(route)' <=>
        \E k \in (1 .. n) \cap (1 .. Len(route)) : PassedBy(route, k)'
  BY <1>1 DEF Passed
<1>9. n \in 1 .. n /\ (n \in 1 .. Len(route) <=> Len(route) >= n)
  BY <1>1, <1>2
<1> QED
  BY <1>7, <1>8, <1>9 DEF n

\* An aggregate that returns has gone on to all of its children.
LEMMA ReturnObjectCompleteInv ==
  ASSUME CompleteAnswerInv, NEW res \in Aggregates, ReturnObject(res)
  PROVE  CallsInv' /\ CompleteInv'
<1> DEFINE top == Len(stack)
<1>1. /\ TypeOK /\ StackInv /\ stack # << >> /\ stack[top].res = res /\ stack' = Callers
      /\ ~(stack[top].begun < Len(Children[res]))
      /\ UNCHANGED <<target, answer, sources>>
      /\ reply' = IF Nested THEN reply ELSE "ok"
  BY DEF CompleteAnswerInv, AnswerInv, ReturnObject, Calling, Top, MoreChildren,
     environment
<1>2. top \in Nat /\ top >= 1 /\ stack[top].begun \in Nat /\ Len(Children[res]) \in Nat
  <2>1. top \in 1 .. top /\ stack[top] \in Frames
    BY <1>1, TopIsFrame DEF Top
  <2>2. Children[res] \in Seq(Child)
    BY TreeAssumption
  <2> QED
    BY <1>1, <2>1, <2>2 DEF Frames
<1> HIDE DEF top
<1>3. NextChild(top) = stack[top].begun + 1
  BY DEF NextChild, top
<1>4. ASSUME NEW route \in Routes(target), top \in 1 .. Len(route),
             \A i \in 1 .. (top - 1) : route[i] = stack[i],
             route[top].res = res
      PROVE  PassedBy(route, top)
  <2>1. route[top].begun \in Nat /\ route[top].begun <= Len(Children[res])
    BY <1>4, NoStepAtLeaf
  <2>2. route[top].begun < NextChild(top)
    BY <1>1, <1>2, <1>3, <2>1
  <2> QED
    BY <1>1, <1>4, <2>2 DEF PassedBy
<1>5. CASE Nested
  <2> DEFINE n == Len(stack) - 1
  <2>1. /\ n \in Nat /\ n >= 1 /\ n + 1 = top
        /\ stack' # << >> /\ stack'[1].res = target /\ Linked(stack)'
        /\ \A k \in 1 .. n : stack[k + 1].res = Awaited(stack[k]).res
    BY <1>1, <1>5, ReturnCalls DEF top
  <2>2. CallsInv'
    BY <1>1, <1>5, <2>1 DEF CompleteAnswerInv, CallsInv
  <2>3. ASSUME NEW route \in Routes(target) PROVE Passed(route)' <=> Passed(route)
    <3> DEFINE Below == Len(route) >= n /\ \A i \in 1 .. n : route[i] = stack[i]
    <3>1. Passed(route)' <=>
            (\E k \in (1 .. n) \cap (1 .. Len(route)) : PassedBy(route, k)) \/ Below
      BY <1>1, <1>5, ReturnPasses
    <3> HIDE DEF n
    <3>2. Passed(route) <=>
            \/ \E k \in (1 .. n) \cap (1 .. Len(route)) : PassedBy(route, k)
            \/ top \in 1 .. Len(route) /\ PassedBy(route, top)
      <4>1. \A k : k \in 1 .. Len(stack) <=> k \in 1 .. n \/ k = top
        BY <2>1 DEF top
      <4> QED
        BY <1>1, <4>1 DEF Passed
    <3>3. ASSUME Below PROVE top \in 1 .. Len(route) /\ PassedBy(route, top)
      <4>1. Len(route) \in Nat /\ n \in 1 .. n
        BY <2>1, RouteFacts
      <4>2. Awaited(route[n]).res = res
        BY <1>1, <2>1, <3>3, <4>1
      <4>3. n # Len(route)
        BY <4>2, RouteFacts
      <4>4. top \in 1 .. Len(route) /\ n \in 1 .. (Len(route) - 1)
        BY <2>1, <3>3, <4>1, <4>3
      <4>5. route[top].res = res
        BY <2>1, <4>2, <4>4, RouteFacts
      <4>6. \A i \in 1 .. (top - 1) : route[i] = stack[i]
        BY <2>1, <3>3
      <4> QED
        BY <1>4, <4>4, <4>5, <4>6
    <3>4. ASSUME top \in 1 .. Len(route), PassedBy(route, top) PROVE Below
      <4>1. Len(route) \in Nat /\ top - 1 = n
        BY <2>1, RouteFacts
      <4> QED
        BY <2>1, <3>4, <4>1 DEF PassedBy
    <3> HIDE DEF Below
    <3> QED
      BY <3>1, <3>2, <3>3, <3>4
  <2>4. UNCHANGED <<target, answer, reply, sources>>
    BY <1>1, <1>5
  <2> QED
    BY <1>1, <2>1, <2>2, <2>3, <2>4, SameCompleteInv
<1>6. CASE ~Nested
  <2>1. top = 1 /\ reply' = "ok"
    <3>1. ~(top > 1)
      BY <1>6 DEF Nested, top
    <3> QED
      BY <1>1, <1>2, <1>6, <3>1
  <2>2. stack' = << >>
    <3>1. Len(stack') = 0 /\ stack' \in Seq(Frames)
      BY <1>1, <2>1, CallersAreFrames DEF top
    <3> QED
      BY <3>1
  <2>3. stack[1].res = target
    BY <1>1 DEF CompleteAnswerInv, CallsInv
  <2>4. ASSUME NEW route \in Routes(target) PROVE Passed(route) /\ Passed(route)'
    <3>1. top \in 1 .. Len(route)
      BY <2>1, RouteFacts, HeightAssumption
    <3>2. route[top].res = res /\ \A i \in 1 .. (top - 1) : route[i] = stack[i]
      BY <1>1, <2>1, <2>3, RouteFacts
    <3>3. PassedBy(route, top) /\ top \in 1 .. Len(stack)
      BY <1>4, <2>1, <3>1, <3>2 DEF top
    <3> QED
      BY <2>2, <3>1, <3>3 DEF Passed
  <2>5. \A route \in Routes(target) : Answers(route)' <=> Answers(route)
    BY <1>1 DEF Answers, MayBeMissing
  <2>6. CallsInv'
    BY <2>2 DEF CallsInv
  <2>7. CompleteInv'
    BY <1>1, <2>1, <2>4, <2>5 DEF CompleteAnswerInv, CompleteInv
  <2> QED
    BY <2>6, <2>7
<1> QED
  BY <1>5, <1>6

\* A leaf that returns finishes one route, the one of its callers: its element
\* is new, and is only left out where it may be missing.
LEMMA ReturnCompleteInv ==
  ASSUME CompleteAnswerInv, stack # << >>, Top.res \notin Aggregates,
         NEW status, NEW value, Return(status, value),
         UNCHANGED <<target, sources>>,
         value = NoText => Top.res \in Leaves /\ NoText \in sources[Top.res]
  PROVE  CallsInv' /\ CompleteInv'
<1>1. TypeOK /\ StackInv /\ CallsInv /\ stack' = Callers
  BY DEF CompleteAnswerInv, AnswerInv, Return
<1>2. CASE ~Nested
  <2>1. Len(stack) = 1
    <3> DEFINE top == Len(stack)
    <3>1. top \in Nat /\ top >= 1
      BY <1>1, TopIsFrame
    <3>2. ~(top > 1)
      BY <1>2 DEF Nested
    <3> HIDE DEF top
    <3>3. top = 1
      BY <3>1, <3>2
    <3> QED
      BY <3>3 DEF top
  <2>2. stack' = << >>
    <3>1. Len(stack') = 0 /\ stack' \in Seq(Frames)
      BY <1>1, <2>1, CallersAreFrames
    <3> QED
      BY <3>1
  <2>3. target \notin Aggregates
    BY <1>1, <2>1 DEF CallsInv, Top
  <2> QED
    BY <2>2, <2>3 DEF CallsInv, CompleteInv
<1>3. CASE Nested
  <2> PICK mine : mine = Callers
    OBVIOUS
  <2> DEFINE n == Len(stack) - 1  child == Destination(mine)  entry == Entry(value)
  <2>1. /\ n \in Nat /\ n >= 1 /\ n + 1 = Len(stack)
        /\ stack' # << >> /\ stack'[1].res = target /\ Linked(stack)'
    BY <1>1, <1>3, ReturnCalls
  <2>2. /\ mine \in Routes(target) /\ Path = NamesOf(mine)
        /\ child = Awaited(stack[Len(stack) - 1]) /\ child.res = Top.res
    BY <1>1, <1>3, CallersAreRoute
  <2>3. Len(mine) = n /\ \A k \in 1 .. n : mine[k] = stack[k]
    BY <1>1, CallersAreSteps
  <2>4. reply' = reply /\ reply = "none"
    BY <1>1, <1>3 DEF CallsInv, Return
  <2>5. CallsInv'
    BY <2>1, <2>4 DEF CallsInv
  <2>6. Omitted(value) <=> value = NoText \/ (value = Null /\ child.omit)
    BY <1>3, <2>2 DEF Omitted
  <2>7. answer' = IF Omitted(value) THEN answer ELSE answer \cup {entry}
    BY DEF Return
  <2>8. entry.path = NamesOf(mine) /\ entry.value = value
    BY <2>2 DEF Entry
  <2> HIDE DEF child, entry
  <2>9. ~Passed(mine)
    <3> SUFFICES ASSUME NEW k \in (1 .. Len(stack)) \cap (1 .. Len(mine)),
                        PassedBy(mine, k)
                 PROVE  FALSE
      BY DEF Passed
    <3> HIDE DEF n
    <3>1. k \in 1 .. n /\ mine[k] = stack[k] /\ k # Len(stack)
      BY <2>1, <2>3
    <3>2. mine[k].begun \in Nat
      BY <2>2, NoStepAtLeaf
    <3>3. mine[k].begun < stack[k].begun + 0
      BY <3>1 DEF PassedBy, NextChild
    <3> QED
      BY <3>1, <3>2, <3>3
  <2>10. ASSUME NEW route \in Routes(target)
         PROVE  Passed(route)' <=> Passed(route) \/ route = mine
    <3> DEFINE Below == Len(route) >= n /\ \A i \in 1 .. n : route[i] = stack[i]
    <3>1. Passed(route)' <=>
            (\E k \in (1 .. n) \cap (1 .. Len(route)) : PassedBy(route, k)) \/ Below
      BY <1>1, <1>3, ReturnPasses
    <3> HIDE DEF n
    <3>2. Passed(route) <=> \E k \in (1 .. n) \cap (1 .. Len(route)) : PassedBy(route, k)
      <4>1. \A k : k \in 1 .. Len(stack) <=> k \in 1 .. n \/ k = Len(stack)
        BY <2>1
      <4>2. ASSUME NEW k \in 1 .. Len(route), k = Len(stack), PassedBy(route, k) PROVE FALSE
        <5>1. route[k].res = Top.res
          BY <4>2 DEF PassedBy, Top
        <5> QED
          BY <5>1, NoStepAtLeaf
      <4> QED
        BY <4>1, <4>2 DEF Passed
    <3>3. ASSUME Below PROVE route = mine
      <4>1. Len(route) \in Nat /\ n \in 1 .. n
        BY <2>1, RouteFacts
      <4>2. Awaited(route[n]).res = Top.res
        <5>1. route[n] = mine[n] /\ Destination(mine) = Awaited(mine[n])
          BY <2>3, <3>3, <4>1 DEF Destination
        <5> QED
          BY <2>2, <5>1 DEF child
      <4>3. ASSUME n < Len(route) PROVE FALSE
        <5>1. n \in 1 .. (Len(route) - 1) /\ n + 1 \in 1 .. Len(route)
          BY <4>1, <4>3
        <5>2. route[n + 1].res = Top.res
          BY <4>2, <5>1, RouteFacts
        <5> QED
          BY <5>1, <5>2, NoStepAtLeaf
      <4>4. Len(route) = n
        BY <3>3, <4>1, <4>3
      <4>5. route \in [1 .. n -> Steps] /\ mine \in [1 .. n -> Steps]
        BY <2>2, <2>3, <4>4, RouteFacts
      <4>6. route = [i \in 1 .. n |-> route[i]] /\ mine = [i \in 1 .. n |-> mine[i]]
        BY <4>5
      <4>7. \A i \in 1 .. n : route[i] = mine[i]
        BY <2>3, <3>3
      <4> HIDE DEF Below
      <4> QED
        BY <4>6, <4>7
    <3>4. ASSUME route = mine PROVE Below
      <4>1. Len(route) = n
        BY <2>3, <3>4
      <4> QED
        BY <2>1, <2>3, <3>4, <4>1
    <3> HIDE DEF Below
    <3> QED
      BY <3>1, <3>2, <3>3, <3>4
  <2> SUFFICES ASSUME target \in Aggregates PROVE CompleteInv'
    BY <2>5, <1>3 DEF CompleteInv
  <2>11. /\ \A e \in answer : \E route \in Routes(target) :
              Passed(route) /\ e.path = NamesOf(route)
         /\ \A route \in Routes(target) : Passed(route) => Answers(route)
    BY DEF CompleteAnswerInv, CompleteInv
  <2>12. \A e \in answer : e.path # NamesOf(mine)
    BY <2>2, <2>9, <2>11, NamesTell
  <2>13. ASSUME NEW e \in answer'
         PROVE  \E route \in Routes(target) : Passed(route)' /\ e.path = NamesOf(route)
    <3>1. CASE e \in answer
      BY <2>10, <2>11, <3>1
    <3>2. CASE e = entry
      BY <2>2, <2>8, <2>10, <3>2
    <3> QED
      BY <2>7, <3>1, <3>2
  <2>14. ASSUME NEW route \in Routes(target), Passed(route)' PROVE Answers(route)'
    <3>1. CASE route # mine
      <4>1. NamesOf(route) # NamesOf(mine)
        BY <2>2, <3>1, NamesTell
      <4>2. \A e : e \in answer' /\ e.path = NamesOf(route) <=>
                     e \in answer /\ e.path = NamesOf(route)
        BY <2>7, <2>8, <4>1
      <4>3. {e \in answer' : e.path = NamesOf(route)} =
              {e \in answer : e.path = NamesOf(route)}
        BY <4>2
      <4>4. Answers(route)
        BY <2>10, <2>11, <2>14, <3>1
      <4> QED
        BY <4>3, <4>4 DEF Answers, MayBeMissing
    <3>2. CASE route = mine
      <4> DEFINE found == {e \in answer' : e.path = NamesOf(mine)}
      <4>1. CASE Omitted(value)
        <5>1. found = {}
          BY <2>7, <2>12, <4>1
        <5>2. MayBeMissing(child)'
          BY <2>2, <2>6, <4>1 DEF MayBeMissing
        <5> QED
          BY <3>2, <5>1, <5>2 DEF Answers, child
      <4>2. CASE ~Omitted(value)
        <5>1. found = {entry}
          BY <2>7, <2>8, <2>12, <4>2
        <5>2. child.omit => entry.value # Null
          BY <2>6, <2>8, <4>2
        <5> HIDE DEF found
        <5>3. entry \in found /\ \A e \in found : e = entry
          BY <5>1
        <5> QED
          BY <3>2, <5>1, <5>2, <5>3 DEF Answers, child, found
      <4> QED
        BY <4>1, <4>2
    <3> QED
      BY <3>1, <3>2
  <2> QED
    BY <2>4, <2>13, <2>14 DEF CompleteInv
<1> QED
  BY <1>2, <1>3

-----------------------------------------------------------------------------

LEMMA GetLeafCompleteInv ==
  ASSUME CompleteAnswerInv, NEW leaf \in Leaves,
         GetMember(leaf) \/ GetLine(leaf) \/ GetFails(leaf) \/ SendFails(leaf)
  PROVE  CallsInv' /\ CompleteInv'
<1>1. stack # << >> /\ Top.res = leaf /\ leaf \notin Aggregates
  BY TreeAssumption DEF GetMember, GetLine, GetFails, SendFails, Calling
<1>2. source[leaf] \in sources[leaf]
  BY DEF CompleteAnswerInv, AnswerInv, HistoryInv
<1>3. CASE SendFails(leaf)
  BY <1>3, RequestCompleteInv DEF SendFails
<1>4. CASE GetFails(leaf)
  <2>1. Return("internal error", Null) /\ UNCHANGED <<target, sources>>
    BY <1>4 DEF GetFails, environment
  <2>2. Null # NoText
    BY ValuesAssumption
  <2> QED
    BY <1>1, <2>1, <2>2, ReturnCompleteInv
<1>5. CASE GetMember(leaf) \/ GetLine(leaf)
  <2>1. Return("ok", source[leaf]) /\ UNCHANGED <<target, sources>>
    BY <1>5 DEF GetMember, GetLine, environment
  <2> QED
    BY <1>1, <1>2, <2>1, ReturnCompleteInv
<1> QED
  BY <1>3, <1>4, <1>5

LEMMA RefreshSsidCompleteInv ==
  ASSUME CompleteAnswerInv, RefreshSsid
  PROVE  CallsInv' /\ CompleteInv'
<1> DEFINE value == [connected |-> connected_, addrs |-> addrs_, ssid |-> ssid_']
<1>1. /\ stack # << >> /\ Top.res \notin Aggregates
      /\ Return("ok", value)
      /\ UNCHANGED <<target, sources>>
  BY TreeAssumption DEF RefreshSsid, Calling, environment
<1>2. value \in StatusValues
  BY DEF CompleteAnswerInv, AnswerInv, TypeOK, Wlans, StatusValues, RefreshSsid
<1>3. value # NoText
  BY <1>2, ValuesAssumption
<1> HIDE DEF value
<1> QED
  BY <1>1, <1>3, ReturnCompleteInv

LEMMA NextCompleteInv == CompleteAnswerInv /\ [Next]_vars => CompleteAnswerInv'
<1> SUFFICES ASSUME CompleteAnswerInv, [Next]_vars PROVE CompleteAnswerInv'
  OBVIOUS
<1>1. AnswerInv'
  BY NextAnswerInv DEF CompleteAnswerInv
<1> SUFFICES CallsInv' /\ CompleteInv'
  BY <1>1 DEF CompleteAnswerInv
<1>2. CASE Restart \/ NotFound \/ BadRequest \/ NotAllowed \/ Get
  BY <1>2, RequestCompleteInv
<1>3. CASE (\E leaf \in Leaves : SourceChanges(leaf)) \/ WlanChanges
  BY <1>3, ChangesCompleteInv
<1>4. ASSUME NEW leaf \in Leaves,
             GetMember(leaf) \/ GetLine(leaf) \/ GetFails(leaf) \/ SendFails(leaf)
      PROVE  CallsInv' /\ CompleteInv'
  BY <1>4, GetLeafCompleteInv
<1>5. ASSUME NEW res \in Aggregates, GetChild(res) PROVE CallsInv' /\ CompleteInv'
  BY <1>5, GetChildCompleteInv
<1>6. ASSUME NEW res \in Aggregates, ReturnObject(res)
      PROVE  CallsInv' /\ CompleteInv'
  BY <1>6, ReturnObjectCompleteInv
<1>7. CASE ResetConnection \/ RefreshConnectionStatus
  <2>1. StatusStep(0) \/ StatusStep(1)
    BY <1>7 DEF ResetConnection, RefreshConnectionStatus
  <2> QED
    BY <2>1, StatusStepCompleteInv
<1>8. CASE RefreshSsid
  BY <1>8, RefreshSsidCompleteInv
<1>9. CASE UNCHANGED vars
  <2>1. UNCHANGED <<target, stack, answer, reply, sources>>
    BY <1>9 DEF vars, environment
  <2>2. CallsInv' <=> CallsInv
    BY <2>1 DEF CallsInv, Linked
  <2>3. \A route : (Passed(route)' <=> Passed(route)) /\ (Answers(route)' <=> Answers(route))
    BY <2>1 DEF Passed, PassedBy, NextChild, Answers, MayBeMissing
  <2> QED
    BY <2>1, <2>2, <2>3 DEF CompleteAnswerInv, CompleteInv
<1> QED
  BY <1>2, <1>3, <1>4, <1>5, <1>6, <1>7, <1>8, <1>9 DEF Next, Handler

\* The calls form a chain from the resource of the request, and its answer is
\* complete for what they have passed: what add_resource() does to the object
\* of the caller, whichever children fail.
THEOREM CompleteAnswerCorrect == Spec => []CompleteAnswerInv
<1>1. Init => CompleteAnswerInv
  BY InitCompleteInv
<1>2. CompleteAnswerInv /\ [Next]_vars => CompleteAnswerInv'
  BY NextCompleteInv
<1> QED
  BY <1>1, <1>2, PTL DEF Spec

\* aggregate_resource::get() answers 200 with exactly one element for each
\* child, at every depth of any tree of resources, whichever of them fail.
THEOREM AnswersAreComplete == Spec => []AnswersComplete
<1>1. CompleteAnswerInv => AnswersComplete
  <2> SUFFICES ASSUME CompleteAnswerInv, stack = << >>, target \in Aggregates,
                      reply \in {"ok", "internal error"}
               PROVE  /\ reply = "ok"
                      /\ \A entry \in answer :
                           \E route \in Routes(target) : entry.path = NamesOf(route)
                      /\ \A route \in Routes(target) : Answers(route)
    BY DEF AnswersComplete
  <2>1. \A route \in Routes(target) : Passed(route)
    BY DEF Passed
  <2> QED
    BY <2>1 DEF CompleteAnswerInv, CompleteInv
<1> QED
  BY <1>1, CompleteAnswerCorrect, PTL

-----------------------------------------------------------------------------
(***************************************************************************)
(* A request comes to its end in any tree, as far as that is safety: each  *)
(* step of a handler goes forward, in an order in which there are only so  *)
(* many places to go to.                                                   *)
(***************************************************************************)

\* The children of an aggregate, or the steps of wifi_status.
Parts(res) ==
  IF res \in Aggregates THEN Len(Children[res]) ELSE IF res = Status THEN 2 ELSE 0

BoundedInv ==
  stack # << >> =>
    /\ Len(stack) <= Height + 1
    /\ \A k \in 1 .. Len(stack) :
         stack[k].begun \in Nat /\ stack[k].begun <= Parts(stack[k].res)

\* Where a request is: in each call, the next child or step.
Position == [k \in 1 .. Len(stack) |-> NextChild(k)]

\* q is after p: it is greater where they differ first, or goes on at the end of p.
After(q, p) ==
  \E k \in DOMAIN q :
    /\ \A i \in 1 .. (k - 1) : i \in DOMAIN p /\ p[i] = q[i]
    /\ k \in DOMAIN p => p[k] < q[k]

\* A handler's step that does not end the request goes forward.
GoesForward == Handler /\ stack' # << >> => After(Position', Position)

LEMMA BoundedTop ==
  ASSUME CompleteAnswerInv, stack # << >>, Top.begun <= Parts(Top.res)
  PROVE  BoundedInv
<1> DEFINE top == Len(stack)
<1>1. /\ top \in Nat /\ top >= 1 /\ top - 1 <= Height
      /\ \A k \in 1 .. (top - 1) : stack[k] \in Steps
  BY CallersAreSteps DEF CompleteAnswerInv, AnswerInv
<1>2. Top \in Frames /\ Top = stack[top]
  BY TopIsFrame DEF CompleteAnswerInv, AnswerInv, Top
<1>3. Height \in Nat
  BY HeightAssumption
<1>4. ASSUME NEW k \in 1 .. (top - 1)
      PROVE  stack[k].begun \in Nat /\ stack[k].begun <= Parts(stack[k].res)
  <2>1. /\ stack[k] \in Steps /\ stack[k].res \in Aggregates
        /\ stack[k].begun \in DOMAIN Children[stack[k].res]
    BY <1>1, StepFacts
  <2>2. Children[stack[k].res] \in Seq(Child)
    BY <2>1, TreeAssumption
  <2> QED
    BY <2>1, <2>2 DEF Parts
<1>5. stack[top].begun \in Nat /\ stack[top].begun <= Parts(stack[top].res)
  BY <1>2 DEF Frames
<1> HIDE DEF top
<1>6. \A k \in 1 .. top : k = top \/ k \in 1 .. (top - 1)
  BY <1>1
<1>7. top <= Height + 1
  BY <1>1, <1>3
<1> QED
  BY <1>4, <1>5, <1>6, <1>7 DEF BoundedInv, top

TopInv == stack # << >> => Top.begun <= Parts(Top.res)

\* The caller that goes on is at one of its children.
LEMMA ReturnTopInv ==
  ASSUME AnswerInv, stack # << >>, stack' = Callers
  PROVE  TopInv'
<1> SUFFICES ASSUME stack' # << >> PROVE Top'.begun <= Parts(Top'.res)
  BY DEF TopInv
<1> DEFINE n == Len(stack')
<1>1. /\ stack' \in Seq(Frames) /\ n = Len(stack) - 1
      /\ \A k \in 1 .. n : stack'[k] = stack[k]
  BY CallersAreFrames DEF AnswerInv
<1>2. n \in 1 .. n
  BY <1>1
<1>3. Top' = stack'[n] /\ stack'[n] = stack[n]
  BY <1>1, <1>2 DEF Top
<1>4. /\ stack[n].res \in Aggregates
      /\ stack[n].begun \in DOMAIN Children[stack[n].res]
  BY <1>1, <1>2 DEF AnswerInv, StackInv
<1>5. Children[stack[n].res] \in Seq(Child)
  BY <1>4, TreeAssumption
<1> HIDE DEF n
<1> QED
  BY <1>3, <1>4, <1>5 DEF Parts

LEMMA NextTopInv == AnswerInv /\ TopInv /\ [Next]_vars => TopInv'
<1> SUFFICES ASSUME AnswerInv, TopInv, [Next]_vars PROVE TopInv'
  OBVIOUS
<1>1. CASE stack' = << >>
  BY <1>1 DEF TopInv
<1>2. CASE UNCHANGED stack
  BY <1>2 DEF TopInv, Top
<1>3. CASE Get
  <2>1. stack' = <<[res |-> target', begun |-> 0]>>
    BY <1>3 DEF Get
  <2>2. Top'.begun = 0 /\ Top'.res = target'
    BY <2>1 DEF Top
  <2>3. target' \in Aggregates => Children[target'] \in Seq(Child)
    BY TreeAssumption
  <2> QED
    BY <2>2, <2>3 DEF TopInv, Parts
<1>4. ASSUME NEW res \in Aggregates, GetChild(res) PROVE TopInv'
  <2> DEFINE top == Len(stack)  next == stack[top].begun + 1
  <2>1. /\ stack' \in Seq(Frames) /\ Len(stack') = top + 1
        /\ stack'[top + 1] = [res |-> Children[res][next].res, begun |-> 0]
    BY <1>4, GetChildCalls
  <2>2. Top'.begun = 0
    BY <2>1 DEF Top
  <2>3. Top'.res \in Aggregates => Children[Top'.res] \in Seq(Child)
    BY TreeAssumption
  <2> QED
    BY <2>2, <2>3 DEF TopInv, Parts
<1>5. ASSUME NEW n \in 0 .. 1, StatusStep(n) PROVE TopInv'
  <2>1. /\ TypeOK /\ StackInv /\ stack # << >> /\ Top.res = Status
        /\ stack' = [stack EXCEPT ![Len(stack)].begun = n + 1]
    BY <1>5 DEF AnswerInv, StatusStep, Calling
  <2> DEFINE next == n + 1
             called == [stack EXCEPT ![Len(stack)].begun = next]
  <2>2. next \in Nat /\ next <= 2
    OBVIOUS
  <2> HIDE DEF next
  <2>3. /\ Len(called) = Len(stack)
        /\ called[Len(stack)] = [res |-> Top.res, begun |-> next]
    BY <2>1, <2>2, TopGoesOn
  <2>4. stack' = called
    BY <2>1 DEF next
  <2> HIDE DEF called
  <2>5. Top' = [res |-> Status, begun |-> next]
    BY <2>1, <2>3, <2>4 DEF Top
  <2>6. Status \notin Aggregates
    BY TreeAssumption
  <2> QED
    BY <2>2, <2>5, <2>6 DEF TopInv, Parts
<1>6. CASE stack # << >> /\ stack' = Callers
  BY <1>6, ReturnTopInv
<1>7. \/ stack' = << >> \/ UNCHANGED stack \/ Get
      \/ \E res \in Aggregates : GetChild(res)
      \/ StatusStep(0) \/ StatusStep(1)
      \/ stack # << >> /\ stack' = Callers
  BY DEF Next, Handler, vars, Restart, SourceChanges, WlanChanges, NotFound, BadRequest,
     NotAllowed, Refuse, GetMember, GetLine, GetFails, SendFails, ReturnObject, Return,
     Calling, ResetConnection, RefreshConnectionStatus, RefreshSsid
<1> QED
  BY <1>1, <1>2, <1>3, <1>4, <1>5, <1>6, <1>7

\* The calls of get() under way are no more than the tree is high, and each has
\* begun no more children, or steps, than its resource has.
THEOREM RequestsAreBounded == Spec => []BoundedInv
<1>1. Init => TopInv
  BY DEF Init, TopInv
<1>2. CompleteAnswerInv => AnswerInv
  BY DEF CompleteAnswerInv
<1>3. CompleteAnswerInv /\ TopInv => BoundedInv
  <2> SUFFICES ASSUME CompleteAnswerInv, TopInv, stack # << >> PROVE BoundedInv
    BY DEF BoundedInv
  <2> QED
    BY BoundedTop DEF TopInv
<1> QED
  BY <1>1, <1>2, <1>3, CompleteAnswerCorrect, NextTopInv, PTL DEF Spec

\* One call goes on, and the calls before it stay where they are.
LEMMA GoesOnAt ==
  ASSUME NEW n \in Nat, n >= 1, n <= Len(stack'), Len(stack') \in Nat, Len(stack) \in Nat,
         \A k \in 1 .. (n - 1) : k <= Len(stack) /\ NextChild(k)' = NextChild(k),
         n <= Len(stack) => NextChild(n) < NextChild(n)'
  PROVE  After(Position', Position)
<1> DEFINE p == Position  q == Position'
<1>1. DOMAIN p = 1 .. Len(stack) /\ \A k \in 1 .. Len(stack) : p[k] = NextChild(k)
  BY DEF Position
<1>2. DOMAIN q = 1 .. Len(stack') /\ \A k \in 1 .. Len(stack') : q[k] = NextChild(k)'
  BY DEF Position
<1> HIDE DEF p, q
<1>3. n \in DOMAIN q
  BY <1>2
<1>4. ASSUME NEW i \in 1 .. (n - 1) PROVE i \in DOMAIN p /\ p[i] = q[i]
  BY <1>1, <1>2
<1>5. ASSUME n \in DOMAIN p PROVE p[n] < q[n]
  BY <1>1, <1>2, <1>5
<1>6. After(q, p)
  BY <1>3, <1>4, <1>5 DEF After
<1> QED
  BY <1>6 DEF p, q

LEMMA HandlerGoesForward == CompleteAnswerInv /\ [Next]_vars => GoesForward
<1> SUFFICES ASSUME CompleteAnswerInv, Handler, stack' # << >>
             PROVE  After(Position', Position)
  BY DEF GoesForward
<1> PICK top : top = Len(stack)
  OBVIOUS
<1>1. TypeOK /\ StackInv /\ AnswerInv
  BY DEF CompleteAnswerInv, AnswerInv
<1>2. stack # << >>
  BY DEF Handler, GetMember, GetLine, GetFails, SendFails, Calling, GetChild, ReturnObject,
     ResetConnection, RefreshConnectionStatus, StatusStep, RefreshSsid
<1>3. /\ top \in Nat /\ top >= 1 /\ stack[top].begun \in Nat
      /\ \A k \in 1 .. (top - 1) : k <= top /\ NextChild(k) = stack[k].begun
                                  /\ stack[k].begun \in Nat
      /\ NextChild(top) = stack[top].begun + 1
  <2>1. top \in 1 .. top /\ stack[top] \in Frames
    BY <1>1, <1>2, TopIsFrame DEF Top
  <2>2. \A k \in 1 .. (top - 1) : stack[k] \in Frames
    BY <1>1 DEF TypeOK
  <2>3. \A k \in 1 .. (top - 1) : stack[k].begun \in Nat
    BY <2>2 DEF Frames
  <2>4. NextChild(top) = stack[top].begun + 1
    BY DEF NextChild
  <2>5. stack[top].begun \in Nat
    BY <2>1 DEF Frames
  <2>6. \A k \in 1 .. (top - 1) : NextChild(k) = stack[k].begun
    <3> SUFFICES ASSUME NEW k \in 1 .. (top - 1) PROVE k # Len(stack) /\ stack[k].begun \in Nat
      BY DEF NextChild
    <3> QED
      BY <2>1, <2>3
  <2> QED
    BY <2>1, <2>3, <2>4, <2>5, <2>6
<1>4. ASSUME NEW res \in Aggregates, GetChild(res) PROVE After(Position', Position)
  <2> DEFINE next == stack[top].begun + 1
  <2>1. /\ stack' \in Seq(Frames) /\ Len(stack') = top + 1
        /\ \A k \in 1 .. top : k = top \/ (/\ stack'[k] = stack[k]
                                           /\ k \in 1 .. (top - 1))
        /\ stack'[top] = [res |-> res, begun |-> next]
    BY <1>1, <1>4, GetChildCalls
  <2>2. stack'[top].begun = next
    BY <2>1
  <2>3. ASSUME NEW k \in 1 .. top PROVE k <= top /\ NextChild(k)' = NextChild(k)
    <3>1. k # top + 1 /\ k <= top
      BY <1>3
    <3>2. NextChild(k)' = stack'[k].begun + 0
      BY <2>1, <3>1 DEF NextChild
    <3>3. CASE k = top
      BY <1>3, <2>2, <3>1, <3>2, <3>3
    <3>4. CASE k \in 1 .. (top - 1) /\ stack'[k] = stack[k]
      BY <1>3, <3>1, <3>2, <3>4
    <3> QED
      BY <2>1, <3>3, <3>4
  <2> DEFINE n == top + 1
  <2>4. /\ n \in Nat /\ n >= 1 /\ n <= Len(stack') /\ Len(stack') \in Nat /\ ~(n <= top)
        /\ \A k \in 1 .. (n - 1) : k \in 1 .. top
    BY <1>3, <2>1
  <2> HIDE DEF n
  <2> QED
    BY <1>3, <2>3, <2>4, GoesOnAt
<1>5. ASSUME NEW m \in 0 .. 1, StatusStep(m) PROVE After(Position', Position)
  <2>1. /\ stack[top].begun = m
        /\ stack' = [stack EXCEPT ![Len(stack)].begun = m + 1]
    BY <1>5 DEF StatusStep, Calling, Top
  <2> DEFINE next == m + 1
             called == [stack EXCEPT ![Len(stack)].begun = next]
  <2>2. next \in Nat /\ next = m + 1
    OBVIOUS
  <2> HIDE DEF next
  <2>3. /\ Len(called) = Len(stack) /\ called[Len(stack)] = [res |-> Top.res, begun |-> next]
        /\ \A k \in 1 .. Len(stack) : k = Len(stack) \/ (/\ called[k] = stack[k]
                                                     /\ k \in 1 .. (Len(stack) - 1))
    BY <1>1, <1>2, <2>2, TopGoesOn
  <2>4. stack' = called
    BY <2>1 DEF next
  <2> HIDE DEF called
  <2>5. /\ Len(stack') = top /\ stack'[top].begun = next
        /\ \A k \in 1 .. top : k = top \/ stack'[k] = stack[k]
    BY <2>3, <2>4
  <2>6. NextChild(top)' = next + 1
    BY <2>5 DEF NextChild
  <2>7. ASSUME NEW k \in 1 .. (top - 1) PROVE k <= top /\ NextChild(k)' = NextChild(k)
    <3>1. k # top /\ k \in 1 .. top
      BY <1>3
    <3>2. NextChild(k)' = stack'[k].begun + 0 /\ stack'[k] = stack[k]
      BY <2>5, <3>1 DEF NextChild
    <3> QED
      BY <1>3, <3>2
  <2>8. NextChild(top) < NextChild(top)'
    BY <1>3, <2>1, <2>2, <2>6
  <2>9. top <= Len(stack') /\ Len(stack') \in Nat
    BY <1>3, <2>5
  <2> QED
    BY <1>3, <2>7, <2>8, <2>9, GoesOnAt
<1>6. CASE stack' = Callers
  <2> PICK n : n = Len(stack')
    OBVIOUS
  <2>1. /\ stack' \in Seq(Frames) /\ n = top - 1
        /\ \A k \in 1 .. n : stack'[k] = stack[k]
    BY <1>1, <1>2, <1>6, CallersAreFrames
  <2>2. n \in Nat /\ n >= 1
    <3>1. \A s \in Seq(Frames) : s # << >> => Len(s) \in Nat /\ Len(s) >= 1
      OBVIOUS
    <3> QED
      BY <2>1, <3>1
  <2>3. NextChild(n)' = stack[n].begun + 1
    BY <2>1, <2>2 DEF NextChild
  <2>4. ASSUME NEW k \in 1 .. (n - 1) PROVE k <= top /\ NextChild(k)' = NextChild(k)
    <3>1. k # n /\ k \in 1 .. n /\ k \in 1 .. (top - 1)
      BY <1>3, <2>1, <2>2
    <3>2. NextChild(k)' = stack'[k].begun + 0 /\ stack'[k] = stack[k]
      BY <2>1, <3>1 DEF NextChild
    <3> QED
      BY <1>3, <3>1, <3>2
  <2>5. NextChild(n) < NextChild(n)'
    <3>1. n \in 1 .. (top - 1)
      BY <1>3, <2>1, <2>2
    <3> QED
      BY <1>3, <2>3, <3>1
  <2> QED
    BY <1>3, <2>2, <2>4, <2>5, GoesOnAt
<1>7. \/ \E res \in Aggregates : GetChild(res)
      \/ StatusStep(0) \/ StatusStep(1)
      \/ stack' = Callers
  BY DEF Handler, Restart, GetMember, GetLine, GetFails, SendFails, ReturnObject, Return,
     ResetConnection, RefreshConnectionStatus, RefreshSsid
<1> QED
  BY <1>4, <1>5, <1>6, <1>7

\* Every step of a handler goes forward through the children, in the order of
\* add(): get() never comes back to where it was, whichever sources fail.
THEOREM RequestsGoForward == Spec => [][GoesForward]_vars
<1>1. CompleteAnswerInv /\ [Next]_vars => [GoesForward]_vars
  BY HandlerGoesForward
<1> QED
  BY <1>1, CompleteAnswerCorrect, PTL DEF Spec

=============================================================================
