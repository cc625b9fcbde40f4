----------------------------- MODULE ConfigStore ------------------------------
(***************************************************************************)
(* What /wifi/config/... promises its clients: contents that a PUT         *)
(* replaces at one moment or not at all.  An accepted PUT has replaced     *)
(* them, or found its own there; a refused one has not; of one that was    *)
(* abandoned, or answered with "failed to read config", a client knows     *)
(* nothing, but the contents are the old or the new ones all the same.     *)
(***************************************************************************)
CONSTANTS
  Contents,   \* what may be put
  NoContents, \* the absence of contents
  NoRequest   \* no PUT is in progress

VARIABLES
  stored,     \* what is stored, if anything
  old,        \* what was stored when the last PUT arrived
  pending,    \* what the PUT in progress is to store
  answer      \* the last answer, as <<kind, contents>>

vars == <<stored, old, pending, answer>>

Init ==
  /\ old = stored
  /\ pending = NoRequest
  /\ answer = <<"none", NoContents>>

Get ==
  /\ pending = NoRequest
  /\ answer' \in {<<"ok", stored>>, <<"read failed", NoContents>>}
  /\ UNCHANGED <<stored, old, pending>>

Put ==
  /\ pending = NoRequest
  /\ pending' \in Contents
  /\ old' = stored
  /\ answer' = <<"none", NoContents>>
  /\ UNCHANGED stored

Store ==
  /\ pending # NoRequest
  /\ stored = old
  /\ stored' = pending
  /\ UNCHANGED <<old, pending, answer>>

End(reply) ==
  /\ pending # NoRequest
  /\ pending' = NoRequest
  /\ answer' = reply
  /\ UNCHANGED <<stored, old>>

Accept  == stored = pending /\ End(<<"ok", pending>>)
Refuse  == stored = old /\ End(<<"update failed", NoContents>>)
Doubt   == End(<<"read failed", NoContents>>)
Abandon == End(answer)

Next == Get \/ Put \/ Store \/ Accept \/ Refuse \/ Doubt \/ Abandon

Spec == Init /\ [][Next]_vars

=============================================================================
