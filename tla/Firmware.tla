------------------------------- MODULE Firmware -------------------------------
(***************************************************************************)
(* Firmware updates in captived: the firmware_manager, the REST resources  *)
(* /firmware and /firmware/commit, the `mender -install' processes that    *)
(* captived forks, the U-Boot environment through which everyone learns    *)
(* the state of an update, and restarts of the daemon and of the card.     *)
(*                                                                         *)
(* captived is one thread running a libevent loop.  A handler runs to      *)
(* completion, but every external command it executes takes time, during   *)
(* which mender goes on: each command is a step of its own here, and what  *)
(* the handler computes between two commands belongs to the step of the    *)
(* first.                                                                  *)
(***************************************************************************)
EXTENDS Integers

CONSTANTS
  Pids,           \* process ids that fork() may return
  Uris,           \* update URIs a client may send
  NoUri,          \* the empty fw_uri_
  NoPid,          \* child_pid_ before the first download
  NoValue,        \* an empty optional
  ExitCodes,      \* exit codes of mender; 0 is success
  Signals,        \* signals that may end mender
  BootLimit,      \* U-Boot's bootlimit: boots an uncommitted image may take
  MaxBootcount,   \* bound on the bootcount variable
  SettleClears    \* does settling an update (commit, rollback) zero bootcount?

ASSUME PidsAssumption == NoPid \notin Pids
ASSUME UrisAssumption == NoUri \notin Uris
ASSUME ExitCodesAssumption ==
  /\ 0 \in ExitCodes
  /\ ExitCodes \subseteq 0..255
  /\ Signals \subseteq 1..127
ASSUME BootAssumption ==
  /\ BootLimit \in Nat \ {0}
  /\ MaxBootcount \in Nat
  /\ BootLimit < MaxBootcount
  /\ NoValue \notin Nat
ASSUME SwitchAssumption == SettleClears \in BOOLEAN

VARIABLES
  pc,                 \* where the captived thread is
  caller,             \* the handler that called firmware_state()
  bootcount_read,     \* firmware_state()'s local copy of bootcount
  uri_,               \* firmware_uri::uri_
  downloading_,       \* firmware_manager::downloading_
  child_pid_,         \* firmware_manager::child_pid_
  watching,           \* child_event_ is added to the event base
  sigchld,            \* child_event_ is active: its callback is due
  debug_msg_,         \* firmware_manager::debug_msg_, as <<kind, number>>
  installer,          \* the forked captiveds that install, by pid
  source,             \* the URI each installer was started with
  mender_status,      \* how each installer's mender ended, as a wait status
  mender,             \* what the mender of each installer does
  orphaned,           \* history: a mender has outlived its installer
  bootcount,          \* U-Boot environment
  upgrade_available,  \* U-Boot environment
  booted              \* history: the pending image has been booted

daemonVars    == <<pc, caller, bootcount_read, uri_, downloading_, child_pid_,
                   watching, sigchld, debug_msg_>>
installerVars == <<installer, source, mender_status, mender, orphaned>>
deviceVars    == <<bootcount, upgrade_available, booted>>
vars == <<daemonVars, installerVars, deviceVars>>

(***************************************************************************)
(* An installer, which is a forked captived, is a pid that is free, one    *)
(* that waits for the mender it has started, or a dead child that captived *)
(* has not waited for.  A mender is downloading, or it has also set        *)
(* upgrade_available.  It is a process of its own, and the end of its      *)
(* installer does not end it.                                              *)
(***************************************************************************)
Dead    == {"exited", "killed", "dumped"}
Working == {"fetching", "flagged"}

\* A mender at work for which nobody waits.
Orphan(p) == mender[p] \in Working /\ installer[p] # "running"

(***************************************************************************)
(* The wait status of a mender that exited or was ended by a signal, and   *)
(* the exit status captived sees: the forked child passes what pclose()    *)
(* returns, that wait status, to exit(), which keeps its low byte.         *)
(***************************************************************************)
WaitStatus(code) == code * 256
MenderStatuses == {WaitStatus(code) : code \in ExitCodes} \cup Signals
\* A child that could hand on the whole wait status.
ExitStatusWhole(status) == status

ExitStatus(status) == status % 256

Control == {"down", "loop", "bootcount", "upgrade", "fork", "watch", "commit"}
Callers == {"reply", "update", "commit"}
Messages == {<<"none", 0>>, <<"killed", 0>>, <<"unexpected", 0>>, <<"error", 0>>}
              \cup ({"exited"} \X (0..255))

TypeOK ==
  /\ pc \in Control
  /\ caller \in Callers
  /\ bootcount_read \in Nat \cup {NoValue}
  /\ uri_ \in Uris \cup {NoUri}
  /\ downloading_ \in BOOLEAN
  /\ child_pid_ \in Pids \cup {NoPid}
  /\ watching \in BOOLEAN
  /\ sigchld \in BOOLEAN
  /\ debug_msg_ \in Messages
  /\ installer \in [Pids -> {"free", "running"} \cup Dead]
  /\ source \in [Pids -> Uris \cup {NoUri}]
  /\ mender_status \in [Pids -> MenderStatuses]
  /\ mender \in [Pids -> {"none"} \cup Working]
  /\ orphaned \in BOOLEAN
  /\ bootcount \in Nat
  /\ upgrade_available \in BOOLEAN
  /\ booted \in BOOLEAN

(***************************************************************************)
(* What firmware_state() answers from the two variables and the flag.      *)
(***************************************************************************)
FirmwareState(count, available, downloading) ==
  IF available
    THEN IF count = 0 THEN "downloaded" ELSE "uncommitted"
    ELSE IF downloading THEN "downloading" ELSE "normal"

(***************************************************************************)
(* What the device is really doing.                                        *)
(***************************************************************************)
DeviceState ==
  IF upgrade_available
    THEN IF booted THEN "uncommitted" ELSE "downloaded"
    ELSE IF \E p \in Pids : installer[p] # "free" \/ mender[p] \in Working
           THEN "downloading" ELSE "normal"

(***************************************************************************)
(* Whatever child ends, the kernel sends SIGCHLD; it reaches the download  *)
(* callback only when child_event_ is registered at that time.             *)
(***************************************************************************)
ChildEnds == sigchld' = (sigchld \/ watching)

-----------------------------------------------------------------------------

Init ==
  /\ pc = "down"
  /\ caller = "reply"
  /\ bootcount_read = NoValue
  /\ uri_ = NoUri
  /\ downloading_ = FALSE
  /\ child_pid_ = NoPid
  /\ watching = FALSE
  /\ sigchld = FALSE
  /\ debug_msg_ = <<"none", 0>>
  /\ installer = [p \in Pids |-> "free"]
  /\ source = [p \in Pids |-> NoUri]
  /\ mender_status = [p \in Pids |-> 0]
  /\ mender = [p \in Pids |-> "none"]
  /\ orphaned = FALSE
  /\ bootcount \in (IF SettleClears THEN {0} ELSE 0..(BootLimit + 1))
  /\ upgrade_available = FALSE
  /\ booted = FALSE

(***************************************************************************)
(* captived: the constructor of firmware_manager, then the event loop.     *)
(***************************************************************************)
Start ==
  /\ pc = "down"
  /\ pc' = "loop"
  /\ UNCHANGED <<caller, bootcount_read, uri_, downloading_, child_pid_,
                 watching, sigchld, debug_msg_, installerVars, deviceVars>>

(***************************************************************************)
(* A request arrives; each of the three handlers first asks                *)
(* firmware_state().  GET / contains GET /firmware.                        *)
(***************************************************************************)
Request(handler) ==
  /\ pc = "loop"
  /\ pc' = "bootcount"
  /\ caller' = handler
  /\ UNCHANGED <<bootcount_read, uri_, downloading_, child_pid_, watching,
                 sigchld, debug_msg_, installerVars, deviceVars>>

GetFirmware == Request("reply")
PutFirmware == Request("update")
PutCommit   == Request("commit")

(***************************************************************************)
(* firmware_state(), first command: fw_printenv bootcount.                 *)
(***************************************************************************)
ReadBootcount ==
  /\ pc = "bootcount"
  /\ bootcount_read' \in {bootcount, NoValue}
  /\ pc' = "upgrade"
  /\ ChildEnds
  /\ UNCHANGED <<caller, uri_, downloading_, child_pid_, watching, debug_msg_,
                 installerVars, deviceVars>>

(***************************************************************************)
(* What the caller of firmware_state() does with the answer, up to its     *)
(* next command.  An update whose body is malformed is refused like one    *)
(* that comes at the wrong time.                                           *)
(***************************************************************************)
Reply == pc' = "loop" /\ UNCHANGED uri_

\* PUT /firmware storing the URI before it looks at the state.
UpdateUriFirst(state) ==
  /\ uri_' \in Uris
  /\ pc' = IF state = "normal" THEN "fork" ELSE "loop"

\* PUT /firmware that refuses a second download but not a downloaded image.
UpdateOverDownloaded(state) ==
  \/ Reply
  \/ /\ state \in {"normal", "downloaded"}
     /\ uri_' \in Uris
     /\ pc' = "fork"

ContinueUpdate(state) ==
  \/ Reply
  \/ /\ state = "normal"
     /\ uri_' \in Uris
     /\ pc' = "fork"

\* PUT /firmware/commit that only refuses during a download.
CommitOverDownloaded(state) ==
  IF state # "downloading"
    THEN pc' = "commit" /\ UNCHANGED uri_
    ELSE Reply

ContinueCommit(state) ==
  IF state \in {"normal", "uncommitted"}
    THEN pc' = "commit" /\ UNCHANGED uri_
    ELSE Reply

Continue(state) ==
  \/ caller = "reply" /\ Reply
  \/ caller = "update" /\ ContinueUpdate(state)
  \/ caller = "commit" /\ ContinueCommit(state)

(***************************************************************************)
(* firmware_state(), second command: fw_printenv upgrade_available, and    *)
(* the answer.  It has none when one of the two commands failed.           *)
(***************************************************************************)
ReadUpgradeAvailable ==
  /\ pc = "upgrade"
  /\ bootcount_read' = NoValue
  /\ ChildEnds
  /\ \/ Reply /\ UNCHANGED downloading_
     \/ /\ bootcount_read # NoValue
        /\ downloading_' = (downloading_ /\ ~upgrade_available)
        /\ Continue(FirmwareState(bootcount_read, upgrade_available,
                                  downloading_'))
  /\ UNCHANGED <<caller, child_pid_, watching, debug_msg_, installerVars,
                 deviceVars>>

(***************************************************************************)
(* firmware_manager::download(), up to the fork and in the parent.  In the *)
(* child, system::execute() starts mender.  (The pid of an installer whose *)
(* mender goes on is not used again.)                                      *)
(***************************************************************************)
ForkFails ==
  /\ pc = "fork"
  /\ pc' = "loop"
  /\ UNCHANGED <<caller, bootcount_read, uri_, downloading_, child_pid_,
                 watching, sigchld, debug_msg_, installerVars, deviceVars>>

Fork ==
  /\ pc = "fork"
  /\ \E p \in Pids :
       /\ installer[p] = "free" /\ mender[p] = "none"
       /\ installer' = [installer EXCEPT ![p] = "running"]
       /\ mender' = [mender EXCEPT ![p] = "fetching"]
       /\ source' = [source EXCEPT ![p] = uri_]
       /\ child_pid_' = p
  /\ downloading_' = TRUE
  /\ pc' = "watch"
  /\ UNCHANGED <<caller, bootcount_read, uri_, watching, sigchld, debug_msg_,
                 mender_status, orphaned, deviceVars>>

(***************************************************************************)
(* firmware_manager::download(), the rest: a new child_event_ replaces the *)
(* old one.  A SIGCHLD caught before activates the new event if the loop   *)
(* has not dispatched it yet, and is lost with the old event if it has.    *)
(* When event_add() fails the client gets an error although the download   *)
(* is running.  Otherwise the handler answers with GET /firmware, which    *)
(* asks firmware_state() again.                                            *)
(***************************************************************************)
\* download() whose caller answers without GET /firmware.
WatchWithoutGet ==
  /\ pc = "watch"
  /\ watching' = TRUE
  /\ sigchld' \in {FALSE, sigchld}
  /\ pc' = "loop"
  /\ UNCHANGED <<caller, bootcount_read, uri_, downloading_, child_pid_,
                 debug_msg_, installerVars, deviceVars>>

Watch ==
  /\ pc = "watch"
  /\ \/ /\ watching' = TRUE
        /\ sigchld' \in {FALSE, sigchld}
        /\ pc' = "bootcount"
        /\ caller' = "reply"
     \/ /\ watching' = FALSE
        /\ sigchld' = FALSE
        /\ pc' = "loop"
        /\ UNCHANGED caller
  /\ UNCHANGED <<bootcount_read, uri_, downloading_, child_pid_, debug_msg_,
                 installerVars, deviceVars>>

(***************************************************************************)
(* The callback of child_event_.                                           *)
(***************************************************************************)
ExitMessage(p) ==
  CASE installer[p] = "killed" -> <<"killed", 0>>
    [] installer[p] = "exited" -> <<"exited", ExitStatus(mender_status[p])>>
    [] OTHER                   -> <<"unexpected", 0>>

\* A callback that forgets clear_downloading().
ReapKeepsDownloading(p) ==
  /\ installer' = [installer EXCEPT ![p] = "free"]
  /\ source' = [source EXCEPT ![p] = NoUri]
  /\ mender_status' = [mender_status EXCEPT ![p] = 0]
  /\ UNCHANGED <<mender, orphaned>>
  /\ watching' = FALSE
  /\ debug_msg_' = ExitMessage(p)
  /\ UNCHANGED downloading_

\* A callback that forgets delete_child_event().
ReapKeepsEvent(p) ==
  /\ installer' = [installer EXCEPT ![p] = "free"]
  /\ source' = [source EXCEPT ![p] = NoUri]
  /\ mender_status' = [mender_status EXCEPT ![p] = 0]
  /\ UNCHANGED <<mender, orphaned>>
  /\ downloading_' = FALSE
  /\ debug_msg_' = ExitMessage(p)
  /\ UNCHANGED watching

Reap(p) ==
  /\ installer' = [installer EXCEPT ![p] = "free"]
  /\ source' = [source EXCEPT ![p] = NoUri]
  /\ mender_status' = [mender_status EXCEPT ![p] = 0]
  /\ UNCHANGED <<mender, orphaned>>
  /\ downloading_' = FALSE
  /\ watching' = FALSE
  /\ debug_msg_' = ExitMessage(p)

ChildCallback ==
  /\ pc = "loop"
  /\ watching /\ sigchld
  /\ sigchld' = FALSE
  /\ IF installer[child_pid_] \in Dead
       THEN Reap(child_pid_)
       ELSE /\ debug_msg_' = IF installer[child_pid_] = "free"
                               THEN <<"error", 0>> ELSE debug_msg_
            /\ UNCHANGED <<downloading_, watching, installerVars>>
  /\ UNCHANGED <<pc, caller, bootcount_read, uri_, child_pid_, deviceVars>>

(***************************************************************************)
(* firmware_commit::put(), its command mender -commit, then the answer,    *)
(* which is GET /firmware again.                                           *)
(***************************************************************************)
Settled(count) == IF SettleClears THEN 0 ELSE count

Settle ==
  /\ upgrade_available' = FALSE
  /\ bootcount' = Settled(bootcount)
  /\ booted' = FALSE

Commit ==
  /\ pc = "commit"
  /\ ChildEnds
  /\ \/ /\ Settle
        /\ pc' = "bootcount"
        /\ caller' = "reply"
     \/ /\ pc' = "loop"
        /\ UNCHANGED <<caller, deviceVars>>
  /\ UNCHANGED <<bootcount_read, uri_, downloading_, child_pid_, watching,
                 debug_msg_, installerVars>>

-----------------------------------------------------------------------------
(***************************************************************************)
(* mender -install.  When the image is written, it sets upgrade_available  *)
(* and then bootcount.  Its installer, if there still is one, exits when   *)
(* mender has ended; the end of an orphan is noticed by nobody.            *)
(***************************************************************************)
MenderEnds(p, status) ==
  /\ mender' = [mender EXCEPT ![p] = "none"]
  /\ IF installer[p] = "running"
       THEN /\ installer' = [installer EXCEPT ![p] = "exited"]
            /\ mender_status' = [mender_status EXCEPT ![p] = status]
            /\ ChildEnds
       ELSE UNCHANGED <<installer, mender_status, sigchld>>
  /\ UNCHANGED <<pc, caller, bootcount_read, uri_, downloading_, child_pid_,
                 watching, debug_msg_, source, orphaned>>

MenderFails(p) ==
  /\ mender[p] \in Working
  /\ \E status \in MenderStatuses \ {0} :
       /\ mender[p] = "flagged" => status \in Signals
       /\ MenderEnds(p, status)
  /\ UNCHANGED deviceVars

SetUpgradeAvailable(p) ==
  /\ mender[p] = "fetching"
  /\ mender' = [mender EXCEPT ![p] = "flagged"]
  /\ upgrade_available' = TRUE
  /\ booted' = FALSE
  /\ UNCHANGED <<daemonVars, installer, source, mender_status, orphaned,
                 bootcount>>

ClearBootcount(p) ==
  /\ mender[p] = "flagged"
  /\ bootcount' = 0
  /\ MenderEnds(p, 0)
  /\ UNCHANGED <<upgrade_available, booted>>

(***************************************************************************)
(* A signal ends the installer.  Its mender goes on, unless it has just    *)
(* ended or the signal was for both.                                       *)
(***************************************************************************)
InstallerKilled(p) ==
  /\ installer[p] = "running"
  /\ \E how \in Dead \ {"exited"} :
       installer' = [installer EXCEPT ![p] = how]
  /\ ChildEnds
  /\ \/ orphaned' = TRUE /\ UNCHANGED mender
     \/ mender' = [mender EXCEPT ![p] = "none"] /\ UNCHANGED orphaned
  /\ UNCHANGED <<pc, caller, bootcount_read, uri_, downloading_, child_pid_,
                 watching, debug_msg_, source, mender_status, deviceVars>>

-----------------------------------------------------------------------------
(***************************************************************************)
(* captived dies, or the card goes down: the volatile state is lost.       *)
(* systemd kills the remaining processes of the service before it restarts *)
(* captived, so no installer and no mender outlives it; what one still did *)
(* in between, it might as well have done before captived died.            *)
(***************************************************************************)
LoseVolatile ==
  /\ pc' = "down"
  /\ caller' = "reply"
  /\ bootcount_read' = NoValue
  /\ uri_' = NoUri
  /\ downloading_' = FALSE
  /\ child_pid_' = NoPid
  /\ watching' = FALSE
  /\ sigchld' = FALSE
  /\ debug_msg_' = <<"none", 0>>
  /\ installer' = [p \in Pids |-> "free"]
  /\ source' = [p \in Pids |-> NoUri]
  /\ mender_status' = [p \in Pids |-> 0]
  /\ mender' = [p \in Pids |-> "none"]
  /\ orphaned' = FALSE

Crash ==
  /\ pc # "down"
  /\ LoseVolatile
  /\ UNCHANGED deviceVars

(***************************************************************************)
(* U-Boot counts the boots of a pending image and gives it up beyond       *)
(* BootLimit.                                                              *)
(***************************************************************************)
BootPending ==
  /\ upgrade_available
  /\ bootcount < MaxBootcount
  /\ IF bootcount + 1 > BootLimit
       THEN /\ upgrade_available' = FALSE
            /\ bootcount' = Settled(bootcount + 1)
            /\ booted' = FALSE
       ELSE /\ bootcount' = bootcount + 1
            /\ booted' = TRUE
            /\ UNCHANGED upgrade_available

Reboot ==
  /\ LoseVolatile
  /\ \/ BootPending
     \/ ~upgrade_available /\ UNCHANGED deviceVars

-----------------------------------------------------------------------------

Installer(p) ==
  MenderFails(p) \/ SetUpgradeAvailable(p) \/ ClearBootcount(p)
    \/ InstallerKilled(p)

Next ==
  \/ Start
  \/ GetFirmware
  \/ PutFirmware
  \/ PutCommit
  \/ ReadBootcount
  \/ ReadUpgradeAvailable
  \/ ForkFails
  \/ Fork
  \/ Watch
  \/ ChildCallback
  \/ Commit
  \/ \E p \in Pids : Installer(p)
  \/ Crash
  \/ Reboot

Spec == Init /\ [][Next]_vars

-----------------------------------------------------------------------------
(***************************************************************************)
(* Safety.                                                                 *)
(***************************************************************************)

\* What firmware_state() is about to answer is what the device is doing,
\* although it reads the two variables in two commands, between which an
\* installation may finish, and keeps the rest of the answer in downloading_:
\* it is wrong only while a mender works whose installer was killed, of which
\* captived does not know.  It holds when SettleClears.
ReportIsTrue ==
  pc = "upgrade" /\ bootcount_read # NoValue =>
    \/ FirmwareState(bootcount_read, upgrade_available, downloading_) = DeviceState
    \/ \E p \in Pids : Orphan(p)

\* PUT /firmware starts an update only when captived waits for none: of two
\* menders at work one is always an orphan, whose installer was killed.  It
\* holds when SettleClears.
SingleInstaller ==
  \A p, q \in Pids :
    mender[p] \in Working /\ mender[q] \in Working =>
      p = q \/ Orphan(p) \/ Orphan(q)

\* The update_URI that GET /firmware shows is the one being fetched by the
\* installer: a refused PUT /firmware does not replace it.  It holds when
\* SettleClears.
UriNamesInstall ==
  \A p \in Pids : installer[p] = "running" => source[p] = uri_

\* As long as captived reports a download or waits for its end, child_pid_ is
\* a child it has not waited for: the callback of child_event_ never fails
\* with ECHILD, and a download that is over is found to be over.
DownloadTracked ==
  downloading_ \/ watching => child_pid_ \in Pids /\ installer[child_pid_] # "free"

\* PUT /firmware/commit makes an update permanent only after it has booted: it
\* refuses in the "downloading" and "downloaded" states.  The exception is an
\* orphan, which may finish after "normal" was read.  It holds when
\* SettleClears.
CommitNeedsTrial ==
  [][pc = "commit" /\ pc' = "bootcount" /\ upgrade_available =>
       booted \/ orphaned]_vars

(***************************************************************************)
(* Invariants from which the above follow.                                 *)
(***************************************************************************)

\* Whether or not settling an update zeroes bootcount, as long as no mender was
\* orphaned: what is being fetched is fetched for the one child captived
\* follows, and nothing is forked meanwhile.
FetchInv ==
  /\ pc = "watch" => downloading_
  /\ ~orphaned =>
       /\ \A p \in Pids : mender[p] = "fetching" =>
            /\ installer[p] = "running"
            /\ downloading_ /\ child_pid_ = p
            /\ ~upgrade_available
            /\ source[p] = uri_
       /\ pc = "fork" => ~downloading_ /\ ~upgrade_available

BaseInv == TypeOK /\ DownloadTracked /\ FetchInv

\* With a bootcount that is zero except while a pending image is on trial.
BootInv ==
  /\ bootcount # 0 <=> booted
  /\ booted => upgrade_available
  /\ bootcount <= BootLimit

InstallerInv ==
  \A p \in Pids :
    /\ installer[p] # "free" =>
         child_pid_ = p /\ (downloading_ \/ upgrade_available) /\ ~booted
    /\ installer[p] = "running" => mender[p] \in Working /\ source[p] = uri_
    /\ mender[p] \in Working => ~booted
    /\ Orphan(p) => orphaned

\* No installer is there that captived would not know of.
Idle == ~downloading_ /\ \A p \in Pids : installer[p] = "free"

ThreadInv ==
  /\ pc = "fork" => Idle /\ ~booted
  /\ pc = "commit" => booted \/ (Idle /\ (upgrade_available => orphaned))
  /\ bootcount_read # NoValue => pc = "upgrade" /\ (bootcount_read # 0 <=> booted)

\* The conjunction is inductive: what PUT /firmware and PUT /firmware/commit
\* decide from two environment reads still holds when they act on it, but for
\* what an orphan does.
ClearedInv == BootInv /\ InstallerInv /\ ThreadInv

(***************************************************************************)
(* Refinement: what the device does is a firmware update's life cycle.     *)
(***************************************************************************)

UC == INSTANCE UpdateCycle WITH stage <- DeviceState

\* The commit of an image that an orphan has installed behind captived's back.
EarlyCommit == Commit /\ orphaned

\* No crash, reboot, concurrent request or failing command takes an update
\* from one state to another except along the life cycle, with one exception.
LifeCycle == UC!Init /\ [][UC!Next \/ EarlyCommit]_DeviceState

(***************************************************************************)
(* Liveness.  captived goes on and the commands it executes end.  libevent *)
(* dispatches active events in order, so a callback that is due is not     *)
(* overtaken for ever by requests.  Nothing is assumed of installers.      *)
(***************************************************************************)
Step ==
  \/ Start
  \/ ReadBootcount
  \/ ReadUpgradeAvailable
  \/ ForkFails
  \/ Fork
  \/ Watch
  \/ Commit

Fairness == WF_vars(Step) /\ SF_vars(ChildCallback)

FairSpec == Spec /\ Fairness

\* captived notices the end of every installer once event_add() succeeded, even
\* when it ended between fork() and event_add(), where its SIGCHLD is lost: GET
\* /firmware at the end of PUT /firmware executes commands, whose ends raise
\* SIGCHLD again.
DownloadSettles ==
  \A p \in Pids : installer[p] \in Dead /\ watching ~>
                   installer[p] = "free" /\ ~downloading_

=============================================================================
