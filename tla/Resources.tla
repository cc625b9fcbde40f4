------------------------------ MODULE Resources -------------------------------
(***************************************************************************)
(* GET in captived: how the HTTP server dispatches a request to a REST     *)
(* resource, how an aggregate resource puts its answer together from its   *)
(* children's, and the one read-only resource that has members, the status *)
(* of the WiFi interface.                                                  *)
(*                                                                         *)
(* An answer takes as many steps as it reads sources: files and commands   *)
(* that change, and fail, in between.  A call of get() is a frame of       *)
(* `stack'; what the calls have put into JSON objects so far is `answer',  *)
(* a set of entries, each at its path of names.                            *)
(***************************************************************************)
EXTENDS Naturals, Sequences

CONSTANTS
  Leaves,      \* the resources that read one source
  Members,     \* those of them whose source is a member, like firmware_uri's
  Status,      \* wifi_status
  Aggregates,  \* the aggregate resources
  Children,    \* for each of them, children_ as add() made it
  Registered,  \* the resources that main() registered with the server
  Names,       \* the names under which children are added
  Values,      \* what a source may hold
  NoText,      \* what is no UTF-8: json_string() makes nothing of it
  Null,        \* nothing: a source that cannot be read, and json::null()
  Height,      \* the height of the tree
  Addresses,   \* IPv4 and IPv6 addresses of wlan0
  Ssids        \* names of WiFi networks

Resource == Leaves \cup {Status} \cup Aggregates

Child == [name : Names, res : Resource, omit : BOOLEAN]

ASSUME TreeAssumption ==
  /\ Members \subseteq Leaves
  /\ Status \notin Leaves \cup Aggregates
  /\ Leaves \cap Aggregates = {}
  /\ Registered \subseteq Resource
  /\ Children \in [Aggregates -> Seq(Child)]

\* An element of a JSON object has a name of its own.
ASSUME NamesAssumption ==
  \A res \in Aggregates : \A j, k \in DOMAIN Children[res] :
    Children[res][j].name = Children[res][k].name => j = k

StatusValues == [connected : BOOLEAN, addrs : SUBSET Addresses,
                 ssid : Ssids \cup {Null}]

ASSUME ValuesAssumption ==
  /\ NoText \notin Values \cup StatusValues
  /\ Null \notin Values \cup Ssids \cup {NoText}

VARIABLES
  target,      \* the resource of the request
  stack,       \* the calls of get(), the innermost last
  answer,      \* the entries of the JSON objects that they have made
  reply,       \* the status of the last response
  connected_, addrs_, ssid_,  \* the members of wifi_status
  running,     \* the flag IFF_RUNNING as getifaddrs() has read it
  source,      \* what each leaf reads
  wlan,        \* the WiFi interface
  sources,     \* history: what each source has held during the request
  wlans        \* history: how the interface has been during the request

members     == <<connected_, addrs_, ssid_, running>>
environment == <<source, wlan, sources, wlans>>
vars        == <<target, stack, answer, reply, members, environment>>

\* begun counts the children of an aggregate, or the steps of wifi_status.
Frames == [res : Resource, begun : Nat]

Contents(leaf) ==
  Values \cup {Null} \cup (IF leaf \in Members THEN {} ELSE {NoText})

AnyContents == Values \cup {NoText, Null}

Sources ==
  {s \in [Leaves -> AnyContents] :
     \A leaf \in Leaves : s[leaf] \in Contents(leaf)}

Wlans == [running : BOOLEAN, addrs : SUBSET Addresses,
          ssid : Ssids \cup {Null}]

Replies == {"none", "ok", "bad request", "not found", "not allowed",
            "internal error"}

Entries == [path : Seq(Names), res : Leaves, value : Values \cup {Null}]
             \cup [path : Seq(Names), res : {Status}, value : StatusValues]

TypeOK ==
  /\ target \in Resource
  /\ stack \in Seq(Frames)
  /\ answer \subseteq Entries
  /\ reply \in Replies
  /\ connected_ \in BOOLEAN
  /\ addrs_ \subseteq Addresses
  /\ ssid_ \in Ssids \cup {Null}
  /\ running \in BOOLEAN
  /\ source \in Sources
  /\ wlan \in Wlans
  /\ sources \in [Leaves -> SUBSET AnyContents]
  /\ wlans \in [running : SUBSET BOOLEAN, addrs : SUBSET SUBSET Addresses,
                ssid : SUBSET (Ssids \cup {Null})]

-----------------------------------------------------------------------------

\* The history of a request that begins.
NoHistory(now, interface, held, been) ==
  /\ held = [leaf \in Leaves |-> {now[leaf]}]
  /\ been = [running |-> {interface.running}, addrs |-> {interface.addrs},
             ssid |-> {interface.ssid}]

Init ==
  /\ target \in Registered
  /\ stack = << >>
  /\ answer = {}
  /\ reply = "none"
  /\ connected_ = FALSE /\ addrs_ = {} /\ ssid_ = Null /\ running = FALSE
  /\ source \in Sources
  /\ wlan \in Wlans
  /\ NoHistory(source, wlan, sources, wlans)

\* captived ends, and systemd starts it again.
Restart ==
  /\ stack' = << >>
  /\ answer' = {}
  /\ reply' = "none"
  /\ connected_' = FALSE /\ addrs_' = {} /\ ssid_' = Null /\ running' = FALSE
  /\ NoHistory(source, wlan, sources', wlans')
  /\ UNCHANGED <<target, source, wlan>>

(***************************************************************************)
(* The environment, during a request.  A member changes only in a handler  *)
(* of another one.                                                         *)
(***************************************************************************)
SourceChanges(leaf) ==
  /\ stack # << >>
  /\ leaf \notin Members
  /\ \E value \in Contents(leaf) :
       /\ source' = [source EXCEPT ![leaf] = value]
       /\ sources' = [sources EXCEPT ![leaf] = @ \cup {value}]
  /\ UNCHANGED <<target, stack, answer, reply, members, wlan, wlans>>

WlanChanges ==
  /\ stack # << >>
  /\ wlan' \in Wlans
  /\ wlans' = [running |-> wlans.running \cup {wlan'.running},
               addrs |-> wlans.addrs \cup {wlan'.addrs},
               ssid |-> wlans.ssid \cup {wlan'.ssid}]
  /\ UNCHANGED <<target, stack, answer, reply, members, source, sources>>

-----------------------------------------------------------------------------
(***************************************************************************)
(* The server refuses a request for a path that was not registered, one    *)
(* whose body is no JSON or has another content type, and one whose method *)
(* the resource does not have.  What PUT and POST do where a resource has  *)
(* them is the subject of other modules.                                   *)
(***************************************************************************)
Refuse(status) ==
  /\ stack = << >>
  /\ reply' = status
  /\ answer' = {}
  /\ NoHistory(source, wlan, sources', wlans')
  /\ UNCHANGED <<target, stack, members, source, wlan>>

NotFound   == Refuse("not found")
BadRequest == Refuse("bad request")
NotAllowed == Refuse("not allowed")

\* Whatever has changed since the last request.
Get ==
  /\ stack = << >>
  /\ target' \in Registered
  /\ stack' = <<[res |-> target', begun |-> 0]>>
  /\ answer' = {}
  /\ reply' = "none"
  /\ source' \in Sources
  /\ wlan' \in Wlans
  /\ NoHistory(source', wlan', sources', wlans')
  /\ UNCHANGED members

-----------------------------------------------------------------------------

Top == stack[Len(stack)]

Calling(res) == stack # << >> /\ Top.res = res

\* An aggregate resource, not the server, waits for the call on top.
Nested == Len(stack) > 1

Callers == SubSeq(stack, 1, Len(stack) - 1)

\* The child that a caller waits for.
Awaited(frame) == Children[frame.res][frame.begun]

\* The names under which the answer of the call on top will be found.
NamesOf(calls) == [k \in 1 .. Len(calls) |-> Awaited(calls[k]).name]

Path == NamesOf(Callers)

Entry(value) == [path |-> Path, res |-> Top.res, value |-> value]

\* An element that is no JSON value cannot be set.
Omitted(value) ==
  /\ Nested
  /\ \/ value = NoText
     \/ value = Null /\ Awaited(stack[Len(stack) - 1]).omit

(***************************************************************************)
(* What get() returns is the response, or becomes an element of the        *)
(* caller's object: null if the child failed, and none if that is null and *)
(* the child was added with omit_null.                                     *)
(***************************************************************************)
\* add_resource() that leaves a child out when its get() fails.
ReturnUnlessFailed(status, value) ==
  /\ stack' = Callers
  /\ answer' = IF Omitted(value) \/ (Nested /\ status # "ok") THEN answer
               ELSE answer \cup {Entry(value)}
  /\ reply' = IF Nested THEN reply ELSE status

\* add_resource() that sets whatever the child returns, also its message.
ReturnStatus(status, value) ==
  /\ stack' = Callers
  /\ answer' = IF Omitted(value) THEN answer
               ELSE answer \cup
                      {Entry(IF status = "ok" THEN value ELSE status)}
  /\ reply' = IF Nested THEN reply ELSE status

Return(status, value) ==
  /\ stack' = Callers
  /\ answer' = IF Omitted(value) THEN answer
               ELSE answer \cup {Entry(value)}
  /\ reply' = IF Nested THEN reply ELSE status

(***************************************************************************)
(* get() of a resource with one source.  A member is null when it is empty,*)
(* and a read of anything else may fail, or find nothing that matches.     *)
(***************************************************************************)
GetMember(leaf) ==
  /\ Calling(leaf) /\ leaf \in Members
  /\ Return("ok", source[leaf])
  /\ UNCHANGED <<target, members, environment>>

\* A source that is read again when it could not be read.
GetRetries(leaf) ==
  /\ Calling(leaf) /\ leaf \notin Members
  /\ UNCHANGED vars

GetFails(leaf) ==
  /\ Calling(leaf) /\ leaf \notin Members
  /\ Return("internal error", Null)
  /\ UNCHANGED <<target, members, environment>>

\* Nothing but a JSON value can be sent.
Sendable(value) == Nested \/ value # NoText

GetLine(leaf) ==
  /\ Calling(leaf) /\ leaf \notin Members
  /\ source[leaf] # Null /\ Sendable(source[leaf])
  /\ Return("ok", source[leaf])
  /\ UNCHANGED <<target, members, environment>>

\* dumps() throws, which ends captived.
SendFails(leaf) ==
  /\ Calling(leaf) /\ ~Sendable(source[leaf])
  /\ Restart

(***************************************************************************)
(* aggregate_resource::get(): one child after the other.                   *)
(***************************************************************************)
MoreChildren == Top.begun < Len(Children[Top.res])

GetChild(res) ==
  /\ Calling(res)
  /\ MoreChildren
  /\ stack' = Append([stack EXCEPT ![Len(stack)].begun = @ + 1],
                     [res |-> Children[res][Top.begun + 1].res, begun |-> 0])
  /\ UNCHANGED <<target, answer, reply, members, environment>>

ReturnObject(res) ==
  /\ Calling(res)
  /\ ~MoreChildren
  /\ stack' = Callers
  /\ reply' = IF Nested THEN reply ELSE "ok"
  /\ UNCHANGED <<target, answer, members, environment>>

(***************************************************************************)
(* wifi_status::get().  getifaddrs() asks the kernel for the interfaces    *)
(* and then for their addresses; it may fail, and then yields none.  The   *)
(* command iw may fail, too.                                               *)
(***************************************************************************)
StatusStep(n) ==
  /\ Calling(Status)
  /\ Top.begun = n
  /\ stack' = [stack EXCEPT ![Len(stack)].begun = n + 1]
  /\ UNCHANGED <<target, answer, reply, environment>>

\* refresh_connection_status() without reset_connection().
ResetForgotten ==
  /\ StatusStep(0)
  /\ running' = wlan.running
  /\ UNCHANGED <<connected_, addrs_, ssid_>>

ResetConnection ==
  /\ StatusStep(0)
  /\ connected_' = FALSE /\ addrs_' = {} /\ ssid_' = Null
  /\ running' = wlan.running

\* One that looks at IFF_RUNNING before the family of an entry.
RefreshOfAnyFamily ==
  /\ StatusStep(1)
  /\ \/ /\ addrs_' = addrs_ \cup wlan.addrs
        /\ connected_' = (connected_ \/ running)
     \/ UNCHANGED <<connected_, addrs_>>
  /\ UNCHANGED <<ssid_, running>>

RefreshConnectionStatus ==
  /\ StatusStep(1)
  /\ \/ /\ addrs_' = addrs_ \cup wlan.addrs
        /\ connected_' = (connected_ \/ (running /\ wlan.addrs # {}))
     \/ UNCHANGED <<connected_, addrs_>>
  /\ UNCHANGED <<ssid_, running>>

RefreshSsid ==
  /\ Calling(Status)
  /\ Top.begun = 2
  /\ ssid_' \in {wlan.ssid, Null}
  /\ Return("ok", [connected |-> connected_, addrs |-> addrs_, ssid |-> ssid_'])
  /\ UNCHANGED <<target, connected_, addrs_, running, environment>>

-----------------------------------------------------------------------------

Handler ==
  \/ \E leaf \in Leaves :
       GetMember(leaf) \/ GetLine(leaf) \/ GetFails(leaf) \/ SendFails(leaf)
  \/ \E res \in Aggregates : GetChild(res) \/ ReturnObject(res)
  \/ ResetConnection
  \/ RefreshConnectionStatus
  \/ RefreshSsid

Next ==
  \/ Restart
  \/ \E leaf \in Leaves : SourceChanges(leaf)
  \/ WlanChanges
  \/ NotFound \/ BadRequest \/ NotAllowed
  \/ Get
  \/ Handler

Spec == Init /\ [][Next]_vars

\* The thread is scheduled, and files and commands come to an end.
FairSpec == Spec /\ WF_vars(Handler)

-----------------------------------------------------------------------------
(***************************************************************************)
(* Properties.                                                             *)
(***************************************************************************)

\* What a wifi_status says of addresses and connection: each was so at some
\* moment of the request, or could not be found out.
ConnectionMomentary(connected, addrs) ==
  /\ addrs \in {{}} \cup wlans.addrs
  /\ connected => TRUE \in wlans.running

Momentary(entry) ==
  IF entry.res = Status
    THEN /\ ConnectionMomentary(entry.value.connected, entry.value.addrs)
         /\ entry.value.ssid \in {Null} \cup wlans.ssid
    ELSE entry.value \in {Null} \cup sources[entry.res]

\* Whatever GET answers was so at some moment since the request arrived,
\* whichever sources changed or failed in between; nothing is left of an
\* earlier answer in the members of wifi_status.
AnswersMomentary == \A entry \in answer : Momentary(entry)

\* "connected" is only said of an interface that has an address.
ConnectedHasAddress ==
  \A entry \in answer :
    entry.res = Status /\ entry.value.connected => entry.value.addrs # {}

(***************************************************************************)
(* The calls and the steps of wifi_status: the inductive part of these.    *)
(***************************************************************************)
StackInv ==
  \A k \in 1 .. (Len(stack) - 1) :
    /\ stack[k].res \in Aggregates
    /\ stack[k].begun \in DOMAIN Children[stack[k].res]

StatusInv ==
  /\ Calling(Status) /\ Top.begun = 1 =>
       connected_ = FALSE /\ addrs_ = {} /\ (running => TRUE \in wlans.running)
  /\ Calling(Status) /\ Top.begun = 2 =>
       ConnectionMomentary(connected_, addrs_) /\ (connected_ => addrs_ # {})

HistoryInv ==
  /\ \A leaf \in Leaves : source[leaf] \in sources[leaf]
  /\ wlan.running \in wlans.running
  /\ wlan.addrs \in wlans.addrs
  /\ wlan.ssid \in wlans.ssid

AnswerInv ==
  TypeOK /\ StackInv /\ HistoryInv /\ StatusInv
    /\ AnswersMomentary /\ ConnectedHasAddress

(***************************************************************************)
(* The ways from an aggregate resource down to its leaves: for each leaf   *)
(* the calls that wait when it is asked, each a step to one of the         *)
(* children.  The tree has some height.                                    *)
(***************************************************************************)
Steps == UNION {[res : {res}, begun : DOMAIN Children[res]] : res \in Aggregates}

\* Each call waits for the next.
Linked(calls) ==
  \A k \in 1 .. (Len(calls) - 1) : calls[k + 1].res = Awaited(calls[k]).res

ASSUME HeightAssumption ==
  Height \in Nat /\ \A calls \in [1 .. (Height + 1) -> Steps] : ~Linked(calls)

Destination(calls) == Awaited(calls[Len(calls)])

Routes(res) ==
  {route \in UNION {[1 .. n -> Steps] : n \in 1 .. Height} :
     /\ route[1].res = res
     /\ Linked(route)
     /\ Destination(route).res \notin Aggregates}

\* An element may be missing instead of null, if it was added with omit_null,
\* and if its source was no text.
MayBeMissing(child) ==
  child.omit \/ (child.res \in Leaves /\ NoText \in sources[child.res])

\* The one element at the end of a route.
Answers(route) ==
  LET found == {entry \in answer : entry.path = NamesOf(route)}
      child == Destination(route)
  IN  IF MayBeMissing(child)
        THEN \A entry \in found :
               found = {entry} /\ (child.omit => entry.value # Null)
        ELSE \E entry \in found : found = {entry}

\* A GET of an aggregate resource succeeds, whatever fails below it, with one
\* element for each child, at every depth, and no others.
AnswersComplete ==
  stack = << >> /\ target \in Aggregates /\ reply \in {"ok", "internal error"}
  =>
    /\ reply = "ok"
    /\ \A entry \in answer : \E route \in Routes(target) : entry.path = NamesOf(route)
    /\ \A route \in Routes(target) : Answers(route)

(***************************************************************************)
(* The inductive part: the calls form a chain that begins at the target,   *)
(* and the answer is complete for the routes that they have passed.        *)
(***************************************************************************)
CallsInv ==
  stack # << >> => stack[1].res = target /\ reply = "none" /\ Linked(stack)

\* The first child of the call that has not answered.
NextChild(k) == stack[k].begun + (IF k = Len(stack) THEN 1 ELSE 0)

\* A route is passed by a call when it is its callers', and goes on to a child
\* before.
PassedBy(route, k) ==
  /\ \A i \in 1 .. (k - 1) : route[i] = stack[i]
  /\ route[k].res = stack[k].res
  /\ route[k].begun < NextChild(k)

Passed(route) ==
  \/ stack = << >>
  \/ \E k \in (1 .. Len(stack)) \cap (1 .. Len(route)) : PassedBy(route, k)

CompleteInv ==
  target \in Aggregates /\ (stack # << >> \/ reply \in {"ok", "internal error"})
  =>
    /\ reply # "internal error"
    /\ \A entry \in answer :
         \E route \in Routes(target) : Passed(route) /\ entry.path = NamesOf(route)
    /\ \A route \in Routes(target) : Passed(route) => Answers(route)

\* Every request comes to its end, also when a source can never be read.
Answered == stack # << >> ~> stack = << >>

=============================================================================
