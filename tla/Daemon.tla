-------------------------------- MODULE Daemon --------------------------------
(***************************************************************************)
(* The life of the captived process: the initial task, which makes the     *)
(* secure-lan link; the server, which waits for the control address and    *)
(* binds to it; the handlers for SIGINT and SIGTERM; the dispatch loop.    *)
(* systemd starts captived again whenever it ends, and it may end at any   *)
(* point.                                                                  *)
(***************************************************************************)

CONSTANTS
  Addresses, \* what a line of the control address file may be
  NoAddress  \* no such file, or nothing bound

ASSUME AddressesAssumption == NoAddress \notin Addresses

VARIABLES
  pc,               \* where captived is
  link,             \* what is found at secure-lan
  fault,            \* history: a call of the initial task failed
  file,             \* the control address file
  usable,           \* the addresses that can be bound to
  ctrl_addr,        \* the address read last
  bound,            \* the address the server listens at
  continue_running, \* whether the loop goes on
  handled,          \* the signals with a handler
  pending,          \* signals caught, their callback not yet run
  told              \* history: the callback has run

vars == <<pc, link, fault, file, usable, ctrl_addr, bound,
          continue_running, handled, pending, told>>

path    == <<link, fault>>
network == <<file, usable>>
server  == <<ctrl_addr, bound>>
loop    == <<continue_running, handled, pending, told>>

\* A link with the right or another target, a special file in "other".
Links == {"absent", "right", "wrong", "file", "dir", "other"}

Signals == {"INT", "TERM"}

InTask == {"lstat", "readlink", "remove", "rm -rf", "symlink"}

AfterTask == {"address", "bind", "sigint", "sigterm", "while", "dispatch"}

TypeOK ==
  /\ pc \in {"down"} \cup InTask \cup AfterTask
  /\ link \in Links
  /\ fault \in BOOLEAN
  /\ file \in Addresses \cup {NoAddress}
  /\ usable \subseteq Addresses
  /\ ctrl_addr \in Addresses \cup {NoAddress}
  /\ bound \in Addresses \cup {NoAddress}
  /\ continue_running \in BOOLEAN
  /\ handled \subseteq Signals
  /\ pending \subseteq handled
  /\ told \in BOOLEAN

Init ==
  /\ pc = "down"
  /\ link \in Links
  /\ fault = FALSE
  /\ file \in Addresses \cup {NoAddress}
  /\ usable \in SUBSET Addresses
  /\ ctrl_addr = NoAddress
  /\ bound = NoAddress
  /\ continue_running = TRUE
  /\ handled = {}
  /\ pending = {}
  /\ told = FALSE

Start ==
  /\ pc = "down"
  /\ pc' = "lstat"
  /\ fault' = FALSE
  /\ UNCHANGED <<link, network, server, loop>>

-----------------------------------------------------------------------------
(***************************************************************************)
(* create_symlink_to_config_dir(), a step per system call.  Any call may   *)
(* fail.  main() does not look at the result: captived goes on to the      *)
(* server from every end of the task.                                      *)
(***************************************************************************)
\* stat() in the place of lstat(): a link to nothing is taken for no file.
LstatFollows ==
  /\ pc = "lstat"
  /\ pc' = CASE link \in {"absent", "wrong", "other"} -> "symlink"
             [] link = "right"                       -> "readlink"
             [] link = "file"                        -> "remove"
             [] link = "dir"                         -> "rm -rf"
  /\ UNCHANGED <<path, network, server, loop>>

Lstat ==
  /\ pc = "lstat"
  /\ \/ /\ pc' = CASE link \in {"absent", "other"} -> "symlink"
                   [] link \in {"right", "wrong"}  -> "readlink"
                   [] link = "file"                -> "remove"
                   [] link = "dir"                 -> "rm -rf"
        /\ UNCHANGED fault
     \/ pc' = "symlink" /\ fault' = TRUE
  /\ UNCHANGED <<link, network, server, loop>>

\* Every link is replaced, also the right one.
ReadlinkUncompared ==
  /\ pc = "readlink"
  /\ pc' = "remove"
  /\ UNCHANGED <<path, network, server, loop>>

Readlink ==
  /\ pc = "readlink"
  /\ \/ /\ pc' = IF link = "right" THEN "address" ELSE "remove"
        /\ UNCHANGED fault
     \/ pc' = "remove" /\ fault' = TRUE
  /\ UNCHANGED <<link, network, server, loop>>

Remove ==
  /\ pc = "remove"
  /\ \/ pc' = "symlink" /\ link' = "absent" /\ UNCHANGED fault
     \/ pc' = "address" /\ fault' = TRUE /\ UNCHANGED link
  /\ UNCHANGED <<network, server, loop>>

\* rm may fail with the directory still there, or the command may after all.
RemoveDir ==
  /\ pc = "rm -rf"
  /\ \/ pc' = "symlink" /\ link' = "absent" /\ UNCHANGED fault
     \/ pc' = "address" /\ link' \in {"dir", "absent"} /\ fault' = TRUE
  /\ UNCHANGED <<network, server, loop>>

Symlink ==
  /\ pc = "symlink"
  /\ pc' = "address"
  /\ \/ /\ link' = IF link = "absent" THEN "right" ELSE link
        /\ UNCHANGED fault
     \/ fault' = TRUE /\ UNCHANGED link
  /\ UNCHANGED <<network, server, loop>>

-----------------------------------------------------------------------------
(***************************************************************************)
(* The server's constructor: get_control_address() sleeps a second at a    *)
(* time until the file can be opened, and is called again after each       *)
(* failure to bind.                                                        *)
(***************************************************************************)
ReadAddress ==
  /\ pc = "address"
  /\ file # NoAddress
  /\ ctrl_addr' = file
  /\ pc' = "bind"
  /\ UNCHANGED <<bound, path, network, loop>>

\* The address is read once, before the loop.
BindSame ==
  /\ pc = "bind"
  /\ IF ctrl_addr \in usable
       THEN bound' = ctrl_addr /\ pc' = "sigint"
       ELSE UNCHANGED <<bound, pc>>
  /\ UNCHANGED <<ctrl_addr, path, network, loop>>

Bind ==
  /\ pc = "bind"
  /\ IF ctrl_addr \in usable
       THEN bound' = ctrl_addr /\ pc' = "sigint"
       ELSE UNCHANGED bound /\ pc' = "address"
  /\ UNCHANGED <<ctrl_addr, path, network, loop>>

\* The network behind the card: enftun writes the file and sets the address.
NetworkChanges ==
  /\ \/ file' \in Addresses \cup {NoAddress} /\ UNCHANGED usable
     \/ usable' \in SUBSET Addresses /\ UNCHANGED file
  /\ UNCHANGED <<pc, path, server, loop>>

-----------------------------------------------------------------------------
(***************************************************************************)
(* The dispatch loop of main(), which returns from dispatch every second.  *)
(***************************************************************************)
HandleInt ==
  /\ pc = "sigint"
  /\ handled' = handled \cup {"INT"}
  /\ pc' = "sigterm"
  /\ UNCHANGED <<continue_running, pending, told, path, network, server>>

HandleTerm ==
  /\ pc = "sigterm"
  /\ handled' = handled \cup {"TERM"}
  /\ pc' = "while"
  /\ UNCHANGED <<continue_running, pending, told, path, network, server>>

\* The process is gone, and what it kept; systemd ends the rm -rf it ran.
Die ==
  /\ pc' = "down"
  /\ link' \in IF pc = "rm -rf" THEN {"dir", "absent"} ELSE {link}
  /\ ctrl_addr' = NoAddress
  /\ bound' = NoAddress
  /\ continue_running' = TRUE
  /\ handled' = {}
  /\ pending' = {}
  /\ told' = FALSE

While ==
  /\ pc = "while"
  /\ IF continue_running
       THEN pc' = "dispatch" /\ UNCHANGED <<link, server, loop>>
       ELSE Die
  /\ UNCHANGED <<fault, network>>

EndDispatch ==
  /\ pc = "dispatch"
  /\ pc' = "while"
  /\ UNCHANGED <<path, network, server, loop>>

(***************************************************************************)
(* A signal without handler kills, except that system() ignores a SIGINT   *)
(* while its command runs. The callback of one that has a handler is given *)
(* base.get(), takes it for the flag, and so writes a zero into the first  *)
(* byte of the event base, a pointer to the event mechanism's functions:   *)
(* nothing happens if the byte was zero, else the next call through that   *)
(* pointer goes astray. continue_running is not changed.                   *)
(***************************************************************************)
\* Every signal is caught, with or without a handler.
SignalCaught(signal) ==
  /\ pc # "down"
  /\ pending' = pending \cup {signal}
  /\ UNCHANGED <<pc, continue_running, handled, told, path, network, server>>

Signal(signal) ==
  /\ pc # "down"
  /\ pc = "rm -rf" => signal # "INT"
  /\ IF signal \in handled
       THEN /\ pending' = pending \cup {signal}
            /\ UNCHANGED <<pc, link, continue_running, handled, told, server>>
       ELSE Die
  /\ UNCHANGED <<fault, network>>

SignalCallback ==
  /\ pc = "dispatch"
  /\ \E signal \in pending :
       \/ /\ pending' = pending \ {signal}
          /\ told' = TRUE
          /\ UNCHANGED <<pc, link, continue_running, handled, server>>
       \/ Die
  /\ UNCHANGED <<fault, network>>

\* SIGKILL, a crash, a power cut.
Kill ==
  /\ pc # "down"
  /\ Die
  /\ UNCHANGED <<fault, network>>

\* While captived is down, anything may be put in the place of the link.
LinkChanges ==
  /\ pc = "down"
  /\ link' \in Links
  /\ UNCHANGED <<pc, fault, network, server, loop>>

-----------------------------------------------------------------------------
Task == Lstat \/ Readlink \/ Remove \/ RemoveDir \/ Symlink

Setup == ReadAddress \/ Bind \/ HandleInt \/ HandleTerm

Next ==
  \/ Start \/ Task \/ Setup \/ While \/ EndDispatch
  \/ NetworkChanges \/ LinkChanges \/ Kill
  \/ \E signal \in Signals : Signal(signal)
  \/ SignalCallback

Spec == Init /\ [][Next]_vars

(***************************************************************************)
(* systemd restarts captived, its thread is scheduled, and libevent runs   *)
(* the callbacks of the signals it caught.                                 *)
(***************************************************************************)
Fairness ==
  /\ WF_vars(Start)
  /\ WF_vars(Task)
  /\ WF_vars(Setup)
  /\ WF_vars(While)
  /\ WF_vars(EndDispatch)
  /\ SF_vars(SignalCallback)

FairSpec == Spec /\ Fairness

-----------------------------------------------------------------------------
(***************************************************************************)
(* Properties.                                                             *)
(***************************************************************************)

\* Whatever was at secure-lan when captived started, and wherever an earlier
\* start was cut short, captived serves with the right link unless a call of
\* the initial task failed or a special file is in the way.
LinkMade ==
  pc \in AfterTask => link = "right" \/ fault \/ link = "other"

\* A link that is right is left alone, unless it could not be examined.
LinkKept ==
  [][link = "right" /\ pc # "down" /\ ~fault' => link' = "right"]_vars

\* Once the control address stays known and usable, captived serves, or has
\* been killed and starts again: the loop around bind is never stuck with an
\* address of the past.
Serves ==
  (\E a \in Addresses : <>[](file = a /\ a \in usable))
    => []<>(pc \in {"down", "dispatch"})

\* The callback for SIGINT and SIGTERM ends the loop.
SignalEndsLoop == told ~> pc = "down"

(***************************************************************************)
(* How far the initial task has come: the inductive part of LinkMade.      *)
(***************************************************************************)
TaskInv ==
  /\ pc = "remove" => link \in {"right", "wrong", "file"}
  /\ pc = "readlink" => link \in {"right", "wrong"}
  /\ pc = "remove" /\ link = "right" => fault
  /\ pc = "rm -rf" => link = "dir"
  /\ pc = "symlink" /\ ~fault => link \in {"absent", "other"}

=============================================================================
