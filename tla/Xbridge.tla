------------------------------- MODULE Xbridge --------------------------------
(***************************************************************************)
(* xbridge: the loop that moves frames between the USB interface to the    *)
(* host and a network interface, answers the host's Neighbor Solicitations *)
(* for the default gateway and advertises that gateway, under the signals  *)
(* that end it or ask it for statistics or for an advertisement.           *)
(*                                                                         *)
(* With the option -2 (the service xbridges) the network interface is a    *)
(* tunnel without Ethernet headers; without it (xbridge) both interfaces   *)
(* are Ethernet and frames pass untouched.                                 *)
(*                                                                         *)
(* Traffic never ends.  Some frames carry a tag, 1, 2, ... in the order of *)
(* capture, by which the history of what became of them is kept.           *)
(***************************************************************************)
EXTENDS Integers, Sequences

CONSTANTS
  Kinds,   \* for each interface, the kinds of frames captured there
  Tags,    \* for each interface, how many frames are tagged
  Room,    \* bound: for each interface, the frames its capture buffer holds
  Batch,   \* the frames that one pcap_dispatch() handles
  Period   \* NEIGHBOR_ADV_PERIOD

Ifaces == {"usb", "net"}

FrameKinds == {"solicitation", "ipv6", "other", "truncated"}

ASSUME KindsAssumption ==
  /\ Kinds \in [Ifaces -> SUBSET FrameKinds]
  /\ Tags \in [Ifaces -> Nat]

ASSUME BoundsAssumption ==
  /\ Room \in [Ifaces -> Nat \ {0}]
  /\ Batch \in Nat \ {0}
  /\ Period \in Nat \ {0}

VARIABLES
  strip,      \* option -2
  pc,         \* where the loop is
  ready,      \* r_set: the interfaces still to be dispatched
  left,       \* what is left of the batch
  ring,       \* the capture buffers
  quit, stats, na, \* the flags that the signal handler sets
  timer,      \* na_timeout - time(NULL), -1 when it is past
  sleep,      \* what is left of the timeout of select()
  tagged,     \* the tags given, per interface
  fate,       \* history: the tagged frames that were forwarded or answered
  malformed,  \* history: something was injected in the wrong form
  asked       \* history: a SIGUSR2 since the last unsolicited advertisement

vars == <<strip, pc, ready, left, ring, quit, stats, na, timer, sleep,
          tagged, fate, malformed, asked>>

flags   == <<quit, stats, na, asked>>
clock   == <<timer, sleep>>
traffic == <<ready, left, ring, tagged, fate>>

Control == {"down", "test", "enter", "blocked", "dispatch", "stats",
            "shown", "advert", "reset"}

Frames == [kind : FrameKinds, tag : Nat]

TypeOK ==
  /\ strip \in BOOLEAN
  /\ pc \in Control
  /\ ready \subseteq Ifaces
  /\ left \in 0 .. Batch
  /\ ring \in [Ifaces -> Seq(Frames)]
  /\ quit \in BOOLEAN /\ stats \in BOOLEAN /\ na \in BOOLEAN
  /\ timer \in -1 .. Period
  /\ sleep \in 0 .. Period
  /\ tagged \in [Ifaces -> Nat]
  /\ fate \in [Ifaces -> Seq(Nat)]
  /\ malformed \in BOOLEAN
  /\ asked \in BOOLEAN

Init ==
  /\ strip \in BOOLEAN
  /\ pc = "down"
  /\ ready = {}
  /\ left = Batch
  /\ ring = [i \in Ifaces |-> << >>]
  /\ quit = FALSE /\ stats = FALSE /\ na = FALSE /\ asked = FALSE
  /\ timer = -1
  /\ sleep = 0
  /\ tagged = [i \in Ifaces |-> 0]
  /\ fate = [i \in Ifaces |-> << >>]
  /\ malformed = FALSE

(***************************************************************************)
(* systemd starts the program, also again after it ended.  Nothing was     *)
(* captured yet, and na_timeout is 0.                                      *)
(***************************************************************************)
Start ==
  /\ pc = "down"
  /\ pc' = "test"
  /\ ring' = [i \in Ifaces |-> << >>]
  /\ quit' = FALSE /\ stats' = FALSE /\ na' = FALSE /\ asked' = FALSE
  /\ timer' = -1
  /\ sleep' = 0
  /\ UNCHANGED <<strip, ready, left, tagged, fate, malformed>>

-----------------------------------------------------------------------------
(***************************************************************************)
(* The environment: frames are captured (or dropped, when there is no      *)
(* room), time passes, signals arrive.                                     *)
(***************************************************************************)
Capture(i) ==
  /\ pc # "down"
  /\ Len(ring[i]) < Room[i]
  /\ \E kind \in Kinds[i] : \E tag \in {0, tagged[i] + 1} \cap (0 .. Tags[i]) :
       /\ ring' = [ring EXCEPT ![i] = Append(@, [kind |-> kind, tag |-> tag])]
       /\ tagged' = IF tag = 0 THEN tagged ELSE [tagged EXCEPT ![i] = tag]
  /\ UNCHANGED <<strip, pc, ready, left, fate, malformed, flags, clock>>

Tick ==
  /\ pc # "down"
  /\ timer >= 0 \/ (pc = "blocked" /\ sleep > 0)
  /\ timer' = IF timer >= 0 THEN timer - 1 ELSE timer
  /\ sleep' = IF pc = "blocked" /\ sleep > 0 THEN sleep - 1 ELSE sleep
  /\ UNCHANGED <<strip, pc, malformed, traffic, flags>>

(***************************************************************************)
(* signal_handler().  A signal ends the select() it finds blocked.         *)
(***************************************************************************)
Woken == pc' = IF pc = "blocked" THEN "stats" ELSE pc

\* One variable with the last signal instead of a flag for each.
SignalLast ==
  /\ pc # "down"
  /\ \E signal \in {"TERM", "USR1", "USR2"} :
       /\ quit' = (signal = "TERM")
       /\ stats' = (signal = "USR1")
       /\ na' = (signal = "USR2")
       /\ asked' = (asked \/ signal = "USR2")
  /\ Woken
  /\ UNCHANGED <<strip, malformed, traffic, clock>>

Signal ==
  /\ pc # "down"
  /\ \/ quit' = TRUE /\ UNCHANGED <<stats, na, asked>>
     \/ stats' = TRUE /\ UNCHANGED <<quit, na, asked>>
     \/ na' = TRUE /\ asked' = TRUE /\ UNCHANGED <<quit, stats>>
  /\ Woken
  /\ UNCHANGED <<strip, malformed, traffic, clock>>

-----------------------------------------------------------------------------
(***************************************************************************)
(* sendPacket() passes a packet on as it is, takes 14 bytes off it or puts *)
(* 14 bytes before it, without looking whether it begins with an Ethernet  *)
(* header: what it injects has one header less (-1: it begins within the   *)
(* IPv6 packet) or one more (2: an Ethernet frame within another).  An     *)
(* injection that fails is logged and forgotten.                           *)
(***************************************************************************)
Handling(iface) ==
  IF ~strip THEN "touch" ELSE IF iface = "net" THEN "strip" ELSE "prepend"

Injected(iface, headers) ==
  CASE Handling(iface) = "touch"   -> headers
    [] Handling(iface) = "strip"   -> headers - 1
    [] Handling(iface) = "prepend" -> headers + 1

\* The Ethernet headers of a frame on an interface.
LinkHeaders(i) == IF i = "usb" \/ ~strip THEN 1 ELSE 0

SendPacket(iface, headers) ==
  malformed' = (malformed \/ Injected(iface, headers) # LinkHeaders(iface))

\* sendNeighborAdvert() makes an IPv6 packet.
SendNeighborAdvert(iface) == SendPacket(iface, 0)

-----------------------------------------------------------------------------
(***************************************************************************)
(* while (!quit), then select() with a timeout that reaches to the next    *)
(* advertisement.                                                          *)
(***************************************************************************)
\* The timeout without MAX(1, ...), negative once the advertisement is due.
TestUnclamped ==
  /\ pc = "test"
  /\ IF quit
       THEN pc' = "down" /\ UNCHANGED sleep
       ELSE pc' = "enter" /\ sleep' = timer
  /\ UNCHANGED <<strip, timer, malformed, traffic, flags>>

Test ==
  /\ pc = "test"
  /\ IF quit
       THEN pc' = "down" /\ UNCHANGED sleep
       ELSE /\ pc' = "enter"
            /\ sleep' = IF timer > 1 THEN timer ELSE 1
  /\ UNCHANGED <<strip, timer, malformed, traffic, flags>>

Enter ==
  /\ pc = "enter"
  /\ pc' = "blocked"
  /\ UNCHANGED <<strip, malformed, traffic, flags, clock>>

Captured == {i \in Ifaces : ring[i] # << >>}

Select ==
  /\ pc = "blocked"
  /\ \/ /\ Captured # {}
        /\ ready' = Captured
        /\ pc' = "dispatch"
     \/ /\ Captured = {}
        /\ sleep = 0
        /\ pc' = "stats"
        /\ UNCHANGED ready
  /\ UNCHANGED <<strip, left, ring, tagged, fate, malformed, flags, clock>>

(***************************************************************************)
(* pcap_dispatch() on the host's interface first, then on the other: up to *)
(* Batch frames of each, one callback() per frame, which is given the      *)
(* interface to forward to.                                                *)
(***************************************************************************)
Current == IF "usb" \in ready THEN "usb" ELSE "net"

Other(i) == IF i = "usb" THEN "net" ELSE "usb"

Note(frame) ==
  fate' = IF frame.tag = 0 THEN fate
          ELSE [fate EXCEPT ![Current] = Append(@, frame.tag)]

\* With -2, callback() is given the tunnel for the frames of the host only.
Answered(iface, frame) ==
  Handling(iface) = "strip" /\ frame.kind = "solicitation"

\* Only an IPv6 frame is stripped and sent.
Forwarded(iface, frame) ==
  Handling(iface) = "strip" => frame.kind \in {"ipv6", "solicitation"}

Take ==
  /\ pc = "dispatch"
  /\ left > 0
  /\ ring[Current] # << >>
  /\ ring' = [ring EXCEPT ![Current] = Tail(@)]
  /\ left' = left - 1

\* callback() that answers a solicitation and forwards it, too.
CallbackBoth ==
  /\ Take
  /\ LET frame == Head(ring[Current])
         iface == Other(Current) IN
       \/ /\ frame.kind # "truncated"
          /\ Forwarded(iface, frame)
          /\ SendPacket(iface, LinkHeaders(Current))
          /\ fate' = IF frame.tag = 0 THEN fate
                     ELSE [fate EXCEPT ![Current] =
                             IF Answered(iface, frame)
                               THEN @ \o <<frame.tag, frame.tag>>
                               ELSE Append(@, frame.tag)]
       \/ UNCHANGED <<malformed, fate>>
  /\ UNCHANGED <<strip, pc, ready, tagged, flags, clock>>

\* callback() that answers on the interface it was given instead of its other.
CallbackOnIface ==
  /\ Take
  /\ LET frame == Head(ring[Current])
         iface == Other(Current) IN
       \/ /\ frame.kind # "truncated"
          /\ IF Answered(iface, frame)
               THEN SendNeighborAdvert(iface)
               ELSE /\ Forwarded(iface, frame)
                    /\ SendPacket(iface, LinkHeaders(Current))
          /\ Note(frame)
       \/ UNCHANGED <<malformed, fate>>
  /\ UNCHANGED <<strip, pc, ready, tagged, flags, clock>>

Callback ==
  /\ Take
  /\ LET frame == Head(ring[Current])
         iface == Other(Current) IN
       \/ /\ frame.kind # "truncated"
          /\ Answered(iface, frame)
          /\ SendNeighborAdvert(Other(iface))
          /\ Note(frame)
       \/ /\ frame.kind # "truncated"
          /\ ~Answered(iface, frame)
          /\ Forwarded(iface, frame)
          /\ SendPacket(iface, LinkHeaders(Current))
          /\ Note(frame)
       \/ UNCHANGED <<malformed, fate>>
  /\ UNCHANGED <<strip, pc, ready, tagged, flags, clock>>

EndDispatch ==
  /\ pc = "dispatch"
  /\ left = 0 \/ ring[Current] = << >>
  /\ ready' = ready \ {Current}
  /\ left' = Batch
  /\ pc' = IF ready' = {} THEN "stats" ELSE "dispatch"
  /\ UNCHANGED <<strip, ring, tagged, fate, malformed, flags, clock>>

(***************************************************************************)
(* The flags, looked at after the frames: the statistics and the           *)
(* unsolicited advertisement, each cleared when it was served.             *)
(***************************************************************************)
ShowStats ==
  /\ pc = "stats"
  /\ pc' = IF stats THEN "shown" ELSE "advert"
  /\ UNCHANGED <<strip, malformed, traffic, flags, clock>>

ClearStats ==
  /\ pc = "shown"
  /\ stats' = FALSE
  /\ pc' = "advert"
  /\ UNCHANGED <<strip, malformed, quit, na, asked, traffic, clock>>

\* An advertisement only when one was asked for or nothing is waiting.
AdvertWhenIdle ==
  /\ pc = "advert"
  /\ IF na \/ (timer < 0 /\ Captured = {})
       THEN SendNeighborAdvert("usb") /\ asked' = FALSE /\ pc' = "reset"
       ELSE UNCHANGED <<malformed, asked>> /\ pc' = "test"
  /\ UNCHANGED <<strip, quit, stats, na, traffic, clock>>

\* An advertisement only when one was asked for.
AdvertOnRequest ==
  /\ pc = "advert"
  /\ IF na
       THEN SendNeighborAdvert("usb") /\ asked' = FALSE /\ pc' = "reset"
       ELSE UNCHANGED <<malformed, asked>> /\ pc' = "test"
  /\ UNCHANGED <<strip, quit, stats, na, traffic, clock>>

Advert ==
  /\ pc = "advert"
  /\ IF na \/ timer < 0
       THEN SendNeighborAdvert("usb") /\ asked' = FALSE /\ pc' = "reset"
       ELSE UNCHANGED <<malformed, asked>> /\ pc' = "test"
  /\ UNCHANGED <<strip, quit, stats, na, traffic, clock>>

Reset ==
  /\ pc = "reset"
  /\ pc' = "test"
  /\ na' = FALSE
  /\ timer' = Period
  /\ UNCHANGED <<strip, sleep, malformed, quit, stats, asked, traffic>>

-----------------------------------------------------------------------------

Loop == \/ Test
        \/ Enter
        \/ Select
        \/ Callback
        \/ EndDispatch
        \/ ShowStats
        \/ ClearStats
        \/ Advert
        \/ Reset

Next ==
  \/ Start
  \/ \E i \in Ifaces : Capture(i)
  \/ Tick
  \/ Signal
  \/ Loop

Spec == Init /\ [][Next]_vars

\* The program gets to run, time passes, and systemd starts it again.
Fairness == WF_vars(Loop) /\ WF_vars(Tick) /\ WF_vars(Start)

FairSpec == Spec /\ Fairness

-----------------------------------------------------------------------------
(***************************************************************************)
(* Where the tags are: the ones that were treated, then the ones in the    *)
(* buffer, in one increasing sequence.                                     *)
(***************************************************************************)
InOrder(i) ==
  /\ \A m \in DOMAIN ring[i] : ring[i][m].tag <= tagged[i]
  /\ \A m, n \in DOMAIN ring[i] :
       m < n /\ ring[i][m].tag # 0 /\ ring[i][n].tag # 0
         => ring[i][m].tag < ring[i][n].tag
  /\ \A m \in DOMAIN fate[i], n \in DOMAIN ring[i] :
       ring[i][n].tag # 0 => fate[i][m] < ring[i][n].tag
  /\ \A m \in DOMAIN fate[i] : fate[i][m] <= tagged[i]

-----------------------------------------------------------------------------
(***************************************************************************)
(* Properties.                                                             *)
(***************************************************************************)

\* callback() treats every frame once, in the order of capture: a solicitation
\* is answered or forwarded and never both, and nothing is repeated.
OnceInOrder ==
  \A i \in Ifaces : \A m, n \in DOMAIN fate[i] :
    m < n => fate[i][m] < fate[i][n]

\* With -2, what sendPacket() injects has one Ethernet header on the host's side
\* and none on the tunnel's: callback() gives it the frames of the one side for
\* the other only, and an advertisement, which has no header, only for the host.
WellFormed == strip => ~malformed

\* A SIGTERM or SIGINT ends the program, however much traffic there is and also
\* when it arrives between the test of quit and the select() after it.
QuitEnds == quit ~> pc = "down"

\* The advertisement goes out again and again, however much traffic there is.
AdvertisesForever == []<>(pc \in {"reset", "down"})

\* A SIGUSR2 is followed by an advertisement or by the end of the program, at
\* any point of the loop and under any traffic: when its flag is cleared with
\* the advertisement before it, the periodic one makes up for it.
RequestFollowed == asked ~> ~asked

=============================================================================
