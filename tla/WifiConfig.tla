------------------------------ MODULE WifiConfig ------------------------------
(***************************************************************************)
(* A REST resource /wifi/config/...: the file that holds the WiFi          *)
(* configuration, the temporary file through which captived replaces it,   *)
(* and connman, which reads the file when it starts and on SIGHUP.         *)
(*                                                                         *)
(* Files survive a crash of captived and a power cut.  A step of captived  *)
(* is what it does between two points at which connman, a crash or a power *)
(* cut can be observed to intervene.                                       *)
(***************************************************************************)
EXTENDS Naturals

CONSTANTS
  Contents,   \* the non-empty contents a client may send
  Empty,      \* the empty contents
  Torn,       \* a part of some contents
  Missing     \* no such file

ASSUME ContentsAssumption ==
  /\ Contents # {}
  /\ Empty \notin Contents
  /\ Torn \notin Contents \cup {Empty}
  /\ Missing \notin Contents \cup {Empty, Torn}

VARIABLES
  pc,       \* where captived is in a request
  new,      \* the contents of the PUT in progress
  before,   \* history: the file when that PUT arrived
  answer,   \* the last answer, as <<kind, contents>>
  file,     \* wifi.config
  temp,     \* wifi.config_XXXXXX
  hup,      \* a SIGHUP for connman is pending
  loaded,   \* what connman last read
  missed    \* history: the file changed and nobody told connman

vars == <<pc, new, before, answer, file, temp, hup, loaded, missed>>

Whole == Contents \cup {Empty}

Control == {"down", "loop", "check", "write", "close", "rename", "reload", "get"}

Answers == ({"ok"} \X Contents) \cup {<<"none", Empty>>, <<"read failed", Empty>>,
                                      <<"update failed", Empty>>}

TypeOK ==
  /\ pc \in Control
  /\ new \in Whole
  /\ before \in Whole \cup {Missing, Torn}
  /\ answer \in Answers
  /\ file \in Whole \cup {Missing, Torn}
  /\ temp \in Whole \cup {Missing, Torn}
  /\ hup \in BOOLEAN
  /\ loaded \in Whole \cup {Missing, Torn}
  /\ missed \in BOOLEAN

(***************************************************************************)
(* system::read() yields the contents of a file, but nothing for one that  *)
(* is missing and for an empty one: inserting an empty streambuf sets      *)
(* failbit.                                                                *)
(***************************************************************************)
Readable(contents) == contents \in Contents

-----------------------------------------------------------------------------

Init ==
  /\ pc = "down"
  /\ new = Empty
  /\ answer = <<"none", Empty>>
  /\ file \in Contents \cup {Missing}
  /\ before = file
  /\ temp = Missing
  /\ hup = FALSE
  /\ loaded = file
  /\ missed = FALSE

Start ==
  /\ pc = "down"
  /\ pc' = "loop"
  /\ UNCHANGED <<new, before, answer, file, temp, hup, loaded, missed>>

\* A GET that does not check whether the file could be read.
GetUnchecked ==
  /\ pc \in {"loop", "get"}
  /\ pc' = "loop"
  /\ answer' = <<"ok", file>>
  /\ UNCHANGED <<new, before, file, temp, hup, loaded, missed>>

(***************************************************************************)
(* GET, also at the end of a PUT.                                          *)
(***************************************************************************)
Get ==
  /\ pc \in {"loop", "get"}
  /\ pc' = "loop"
  /\ answer' = IF Readable(file) THEN <<"ok", file>> ELSE <<"read failed", Empty>>
  /\ UNCHANGED <<new, before, file, temp, hup, loaded, missed>>

Put ==
  /\ pc = "loop"
  /\ pc' = "check"
  /\ new' \in Whole
  /\ before' = file
  /\ answer' = <<"none", Empty>>
  /\ UNCHANGED <<file, temp, hup, loaded, missed>>

(***************************************************************************)
(* contents(new): is the sha256 of the file that of the new contents?      *)
(* When the file cannot be read, *sha256() dereferences an empty optional; *)
(* the comparison may then yield anything, and may bring captived down.    *)
(***************************************************************************)
Unchanged == pc' = "get"
Changed   == pc' = "write"

Check ==
  /\ pc = "check"
  /\ IF Readable(file)
       THEN IF new = file THEN Unchanged ELSE Changed
       ELSE Unchanged \/ Changed \/ pc' = "down"
  /\ UNCHANGED <<new, before, answer, file, temp, hup, loaded, missed>>

(***************************************************************************)
(* system::write(): fill the temporary file, close it, rename it.          *)
(***************************************************************************)
UpdateFails ==
  /\ pc' = "loop"
  /\ answer' = <<"update failed", Empty>>

Open ==
  /\ pc = "write"
  /\ \/ /\ temp' = Torn
        /\ pc' = "close"
        /\ UNCHANGED answer
     \/ UpdateFails /\ UNCHANGED temp
  /\ UNCHANGED <<new, before, file, hup, loaded, missed>>

\* write() that renames the temporary file whatever became of it.
CloseUnchecked ==
  /\ pc = "close"
  /\ temp' \in {new, Torn}
  /\ pc' = "rename"
  /\ UNCHANGED <<new, before, answer, file, hup, loaded, missed>>

Close ==
  /\ pc = "close"
  /\ \/ /\ temp' = new
        /\ pc' = "rename"
        /\ UNCHANGED answer
     \/ UpdateFails /\ UNCHANGED temp
  /\ UNCHANGED <<new, before, file, hup, loaded, missed>>

\* write() that does not look at the result of rename().
RenameUnchecked ==
  /\ pc = "rename"
  /\ \/ file' = temp /\ temp' = Missing
     \/ UNCHANGED <<file, temp>>
  /\ pc' = "reload"
  /\ UNCHANGED <<new, before, answer, hup, loaded, missed>>

\* A PUT that has reloaded connman before the new file is in place.
RenameAfterReload ==
  /\ pc = "rename"
  /\ \/ /\ file' = temp
        /\ temp' = Missing
        /\ pc' = "get"
        /\ UNCHANGED answer
     \/ UpdateFails /\ UNCHANGED <<file, temp>>
  /\ UNCHANGED <<new, before, hup, loaded, missed>>

Rename ==
  /\ pc = "rename"
  /\ \/ /\ file' = temp
        /\ temp' = Missing
        /\ pc' = "reload"
        /\ UNCHANGED answer
     \/ UpdateFails /\ UNCHANGED <<file, temp>>
  /\ UNCHANGED <<new, before, hup, loaded, missed>>

(***************************************************************************)
(* COMMAND_RELOAD_CONNMAN, whose exit code is ignored.                     *)
(***************************************************************************)
\* A PUT that fails when connman could not be reloaded.
ReloadChecked ==
  /\ pc = "reload"
  /\ \/ hup' = TRUE /\ pc' = "get" /\ UNCHANGED <<answer, missed>>
     \/ UpdateFails /\ missed' = TRUE /\ UNCHANGED hup
  /\ UNCHANGED <<new, before, file, temp, loaded>>

Reload ==
  /\ pc = "reload"
  /\ pc' = "get"
  /\ \/ hup' = TRUE /\ UNCHANGED missed
     \/ missed' = TRUE /\ UNCHANGED hup
  /\ UNCHANGED <<new, before, answer, file, temp, loaded>>

-----------------------------------------------------------------------------
(***************************************************************************)
(* connman reads the file on SIGHUP and whenever it is restarted.          *)
(***************************************************************************)
Load ==
  /\ loaded' = file
  /\ missed' = FALSE

ConnmanReads ==
  /\ hup
  /\ hup' = FALSE
  /\ Load
  /\ UNCHANGED <<pc, new, before, answer, file, temp>>

Crash ==
  /\ pc # "down"
  /\ pc' = "down"
  /\ missed' = (missed \/ pc = "reload")
  /\ UNCHANGED <<new, before, answer, file, temp, hup, loaded>>

PowerCut ==
  /\ pc' = "down"
  /\ hup' = FALSE
  /\ Load
  /\ UNCHANGED <<new, before, answer, file, temp>>

-----------------------------------------------------------------------------

Next ==
  \/ Start
  \/ Get
  \/ Put
  \/ Check
  \/ Open
  \/ Close
  \/ Rename
  \/ Reload
  \/ ConnmanReads
  \/ Crash
  \/ PowerCut

Spec == Init /\ [][Next]_vars

-----------------------------------------------------------------------------
(***************************************************************************)
(* Properties.                                                             *)
(***************************************************************************)

\* Neither the file nor what connman read of it is ever a part of some
\* contents, whenever the write fails, captived crashes or the power is cut:
\* write() closes and checks a temporary file before it renames it.
FileIsWhole == Torn \notin {file, loaded}

\* A PUT that is answered with contents is answered with those it sent, and
\* they are in the file, also when nothing had to be written.
PutAnswersNew ==
  [][pc = "get" /\ pc' = "loop" /\ answer'[1] = "ok" =>
       answer'[2] = new /\ file = new]_vars

\* A PUT that is answered with "failed to update config" has not changed the
\* file.
RefusedPutKeepsFile == answer[1] = "update failed" => file = before

\* connman runs with another configuration than the file holds only until it
\* handles a SIGHUP, or after a reload that failed or that a crash prevented.
InSync == loaded = file \/ hup \/ missed \/ pc = "reload"

\* Through failing calls, crashes and power cuts a PUT replaces the contents at
\* one moment or not at all, and its answer says nothing else.
Promised ==
  INSTANCE ConfigStore WITH
    Contents <- Whole, NoContents <- Empty, NoRequest <- Missing,
    stored <- file, old <- before,
    pending <- IF pc \in {"down", "loop"} THEN Missing ELSE new

PutAtomic == Promised!Spec

\* A PUT of contents that did not change needs no reload.
NoUpdateNeeded ==
  [][pc = "check" /\ pc' = "get" /\ Readable(file) => loaded = file \/ hup]_vars

(***************************************************************************)
(* How far a PUT has come: the inductive part of the above.                *)
(***************************************************************************)
Writing == {"check", "write", "close", "rename"}

PutInv ==
  /\ pc \in Writing => file = before
  /\ pc = "rename" => temp = new
  /\ pc = "reload" => file = new
  /\ pc = "get" => file = new \/ ~Readable(file)
  /\ pc \in Writing \cup {"reload", "get"} => answer[1] = "none"

=============================================================================
