--------------------------------- MODULE Mode ---------------------------------
(***************************************************************************)
(* The REST resources /mode and /reboot: the default.target link that says *)
(* in which mode the card will boot, the targets that say in which mode it *)
(* runs, and the reboots that make the two agree.                          *)
(*                                                                         *)
(* Replacing the link takes two system calls, remove and symlink, and what *)
(* follows executes two commands; captived may die or the power be cut     *)
(* between any two of them.                                                *)
(***************************************************************************)

CONSTANTS
  Modes,      \* the modes is_valid_mode() accepts
  OtherModes, \* the other values a client may send
  NoLink      \* no default.target

ASSUME ModesAssumption ==
  /\ Modes # {}
  /\ Modes \cap OtherModes = {}
  /\ NoLink \notin Modes

VARIABLES
  pc,         \* where captived is in a request
  new,        \* the mode that the PUT in progress sets
  previous,   \* history: the link when that PUT arrived
  answer,     \* the kind of the last answer
  link,       \* the mode default.target points to
  running,    \* the mode of the active target
  rebooting,  \* the card is about to reboot
  lost        \* history: the link was removed and not made again

vars == <<pc, new, previous, answer, link, running, rebooting, lost>>

Control == {"down", "loop", "remove", "symlink", "targets", "reboot", "answer"}

Answers == {"none", "ok", "bad request", "failed"}

TypeOK ==
  /\ pc \in Control
  /\ new \in Modes
  /\ previous \in Modes \cup {NoLink}
  /\ answer \in Answers
  /\ link \in Modes \cup {NoLink}
  /\ running \in Modes \cup {NoLink}
  /\ rebooting \in BOOLEAN
  /\ lost \in BOOLEAN

Init ==
  /\ pc = "down"
  /\ new \in Modes
  /\ answer = "none"
  /\ link \in Modes
  /\ previous = link
  /\ running = link
  /\ rebooting = FALSE
  /\ lost = FALSE

Start ==
  /\ pc = "down"
  /\ pc' = "loop"
  /\ UNCHANGED <<new, previous, answer, link, running, rebooting, lost>>

-----------------------------------------------------------------------------
(***************************************************************************)
(* PUT /mode, with the mode validated before anything is touched.          *)
(***************************************************************************)
Done(kind) == pc' = "loop" /\ answer' = kind

\* PUT /mode without is_valid_mode().
PutUnchecked ==
  /\ pc = "loop"
  /\ new' \in Modes \cup OtherModes
  /\ previous' = link
  /\ answer' = "none"
  /\ pc' = "remove"
  /\ UNCHANGED <<link, running, rebooting, lost>>

Put ==
  /\ pc = "loop"
  /\ \E value \in Modes \cup OtherModes :
       IF value \in Modes
         THEN /\ new' = value
              /\ previous' = link
              /\ answer' = "none"
              /\ pc' = "remove"
         ELSE /\ Done("bad request")
              /\ UNCHANGED <<new, previous>>
  /\ UNCHANGED <<link, running, rebooting, lost>>

(***************************************************************************)
(* system::symlink_target(target, link).  The result of remove() is not    *)
(* looked at; symlink() fails when the old link is still there.            *)
(***************************************************************************)
Remove ==
  /\ pc = "remove"
  /\ pc' = "symlink"
  /\ link' \in {link, NoLink}
  /\ UNCHANGED <<new, previous, answer, running, rebooting, lost>>

\* A link that is not made again when it is the one that was there.
SymlinkIfReconfigured ==
  /\ pc = "symlink"
  /\ IF new = previous
       THEN UNCHANGED <<link, lost>>
       ELSE link' = new /\ lost' = FALSE
  /\ pc' = "targets"
  /\ UNCHANGED <<new, previous, answer, running, rebooting>>

Symlink ==
  /\ pc = "symlink"
  /\ \/ /\ link = NoLink
        /\ link' = new
        /\ lost' = FALSE
        /\ pc' = "targets"
        /\ UNCHANGED answer
     \/ /\ lost' = (link = NoLink)
        /\ Done("failed")
        /\ UNCHANGED link
  /\ UNCHANGED <<new, previous, running, rebooting>>

(***************************************************************************)
(* router_mode(): the mode among the active targets, if the command works  *)
(* and there is one.  Without an answer the card is rebooted.              *)
(***************************************************************************)
\* A reboot only when the configured mode changes.
RebootIfReconfigured ==
  /\ pc = "targets"
  /\ pc' = IF new # previous THEN "reboot" ELSE "answer"
  /\ UNCHANGED <<new, previous, answer, link, running, rebooting, lost>>

ReadTargets ==
  /\ pc = "targets"
  /\ \E found \in {running, NoLink} :
       pc' = IF new # found THEN "reboot" ELSE "answer"
  /\ UNCHANGED <<new, previous, answer, link, running, rebooting, lost>>

(***************************************************************************)
(* reboot::execute()                                                       *)
(***************************************************************************)
ExecuteReboot ==
  /\ pc = "reboot"
  /\ \/ /\ rebooting' = TRUE
        /\ pc' = "answer"
        /\ UNCHANGED answer
     \/ /\ Done("failed")
        /\ UNCHANGED rebooting
  /\ UNCHANGED <<new, previous, link, running, lost>>

(***************************************************************************)
(* The answer is the configured mode, read back from the link.             *)
(***************************************************************************)
Answer ==
  /\ pc = "answer"
  /\ \/ link # NoLink /\ Done("ok")
     \/ Done("failed")
  /\ UNCHANGED <<new, previous, link, running, rebooting, lost>>

(***************************************************************************)
(* POST /reboot                                                            *)
(***************************************************************************)
PostReboot ==
  /\ pc = "loop"
  /\ answer' = "none"
  /\ rebooting' \in {rebooting, TRUE}
  /\ UNCHANGED <<pc, new, previous, link, running, lost>>

-----------------------------------------------------------------------------

Crash ==
  /\ pc # "down"
  /\ pc' = "down"
  /\ lost' = (lost \/ (pc = "symlink" /\ link = NoLink))
  /\ UNCHANGED <<new, previous, answer, link, running, rebooting>>

(***************************************************************************)
(* The card reboots because it was told to, or because the power was cut.  *)
(***************************************************************************)
Boot ==
  /\ pc' = "down"
  /\ running' = link
  /\ rebooting' = FALSE
  /\ lost' = (link = NoLink)
  /\ UNCHANGED <<new, previous, answer, link>>

-----------------------------------------------------------------------------

Next ==
  \/ Start
  \/ Put
  \/ Remove
  \/ Symlink
  \/ ReadTargets
  \/ ExecuteReboot
  \/ Answer
  \/ PostReboot
  \/ Crash
  \/ Boot

Spec == Init /\ [][Next]_vars

-----------------------------------------------------------------------------
(***************************************************************************)
(* Properties.                                                             *)
(***************************************************************************)

\* A PUT /mode that answers with a mode has made it the configured one, and
\* the card runs in it or is about to reboot into it: also when an earlier PUT
\* set the link and failed to reboot, or its reboot has not happened yet.
ModeTakesEffect ==
  [][pc = "answer" /\ answer' = "ok" =>
       link = new /\ (running = new \/ rebooting)]_vars

\* default.target is missing only while PUT /mode replaces it, or after that
\* was cut short between remove() and symlink().
LinkOnlyLostMidway == link = NoLink => pc = "symlink" \/ lost

\* A mode that differs from the one configured before or from the running one
\* makes the card reboot.
RebootsWhenChanged ==
  [][/\ pc = "answer" /\ answer' = "ok"
     /\ previous \in Modes \ {new} \/ new # running
     => rebooting]_vars

(***************************************************************************)
(* How far a PUT has come: the inductive part of the above.                *)
(***************************************************************************)
PutInv ==
  /\ pc \in {"targets", "reboot", "answer"} => link = new
  /\ pc = "answer" => running = new \/ rebooting

=============================================================================
