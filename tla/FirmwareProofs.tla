---------------------------- MODULE FirmwareProofs ----------------------------
(***************************************************************************)
(* Proofs about Firmware, for any pids, URIs, exit codes and boot limit.   *)
(*                                                                         *)
(*   TypeOK and BaseInv need no assumption on the environment.  ClearedInv *)
(*   is inductive relative to BaseInv when SettleClears, and the safety    *)
(*   properties and the life cycle follow from the two.                    *)
(***************************************************************************)
EXTENDS Firmware, TLAPS

USE DEF Dead, Working, Control, Callers

-----------------------------------------------------------------------------
(***************************************************************************)
(* Type correctness.                                                       *)
(***************************************************************************)

\* Wait statuses are numbers and the status exit() passes on is a byte, so
\* every message of the callback is one of Messages.
LEMMA StatusFacts ==
  /\ 0 \in MenderStatuses
  /\ \A status \in MenderStatuses : ExitStatus(status) \in 0..255
<1>1. 0 \in MenderStatuses
  BY ExitCodesAssumption DEF MenderStatuses, WaitStatus
<1>2. MenderStatuses \subseteq Nat
  <2>1. \A code \in 0..255 : code * 256 \in Nat
    OBVIOUS
  <2>2. \A code \in ExitCodes : WaitStatus(code) \in Nat
    BY <2>1, ExitCodesAssumption DEF WaitStatus
  <2>3. Signals \subseteq Nat
    BY ExitCodesAssumption
  <2> QED
    BY <2>2, <2>3 DEF MenderStatuses
<1>3. \A status \in Nat : status % 256 \in 0..255
  OBVIOUS
<1> QED
  BY <1>1, <1>2, <1>3 DEF ExitStatus

LEMMA MessageType ==
  ASSUME TypeOK, NEW p \in Pids
  PROVE  ExitMessage(p) \in Messages
<1>1. ExitStatus(mender_status[p]) \in 0..255
  BY StatusFacts DEF TypeOK
<1> QED
  BY <1>1 DEF ExitMessage, Messages

LEMMA SettledType == \A count \in Nat : Settled(count) \in Nat
<1>1. CASE SettleClears
  BY <1>1 DEF Settled
<1>2. CASE ~SettleClears
  BY <1>2 DEF Settled
<1> QED
  BY <1>1, <1>2

LEMMA InitTypeOK == Init => TypeOK
<1> SUFFICES ASSUME Init PROVE TypeOK
  OBVIOUS
<1>1. bootcount \in Nat
  BY BootAssumption DEF Init
<1>2. debug_msg_ \in Messages
  BY DEF Init, Messages
<1> QED
  BY <1>1, <1>2, StatusFacts DEF Init, TypeOK

LEMMA LoseVolatileTypeOK ==
  ASSUME TypeOK, LoseVolatile,
         bootcount' \in Nat, upgrade_available' \in BOOLEAN, booted' \in BOOLEAN
  PROVE  TypeOK'
<1>1. debug_msg_' \in Messages
  BY DEF LoseVolatile, Messages
<1> QED
  BY <1>1, StatusFacts DEF LoseVolatile, TypeOK

LEMMA NextTypeOK == TypeOK /\ DownloadTracked /\ [Next]_vars => TypeOK'
<1> SUFFICES ASSUME TypeOK, DownloadTracked, [Next]_vars PROVE TypeOK'
  OBVIOUS
<1> USE DEF daemonVars, installerVars, deviceVars
<1>1. CASE Start
  BY <1>1 DEF Start, TypeOK
<1>2. CASE GetFirmware \/ PutFirmware \/ PutCommit
  BY <1>2 DEF GetFirmware, PutFirmware, PutCommit, Request, TypeOK
<1>3. CASE ReadBootcount
  BY <1>3 DEF ReadBootcount, ChildEnds, TypeOK
<1>4. CASE ReadUpgradeAvailable
  BY <1>4 DEF ReadUpgradeAvailable, ChildEnds, Continue, ContinueUpdate,
              ContinueCommit, Reply, TypeOK
<1>5. CASE ForkFails
  BY <1>5 DEF ForkFails, TypeOK
<1>6. CASE Fork
  BY <1>6 DEF Fork, TypeOK
<1>7. CASE Watch
  <2>1. pc' \in Control /\ caller' \in Callers
    BY <1>7 DEF Watch, TypeOK
  <2>2. watching' \in BOOLEAN /\ sigchld' \in BOOLEAN
    BY <1>7 DEF Watch, TypeOK
  <2>3. UNCHANGED <<bootcount_read, uri_, downloading_, child_pid_, debug_msg_,
                    installerVars, deviceVars>>
    BY <1>7 DEF Watch
  <2> QED
    BY <2>1, <2>2, <2>3 DEF TypeOK
<1>8. CASE ChildCallback
  <2>1. child_pid_ \in Pids
    BY <1>8 DEF ChildCallback, DownloadTracked
  <2>2. CASE installer[child_pid_] \in Dead
    <3>1. Reap(child_pid_) /\ sigchld' = FALSE
      BY <1>8, <2>2 DEF ChildCallback
    <3>2. debug_msg_' \in Messages
      BY <3>1, <2>1, MessageType DEF Reap
    <3>3. /\ installer' \in [Pids -> {"free", "running"} \cup Dead]
          /\ source' \in [Pids -> Uris \cup {NoUri}]
          /\ mender_status' \in [Pids -> MenderStatuses]
      BY <3>1, <2>1, StatusFacts DEF Reap, TypeOK
    <3> QED
      BY <1>8, <3>1, <3>2, <3>3 DEF ChildCallback, Reap, TypeOK
  <2>3. CASE installer[child_pid_] \notin Dead
    <3>1. debug_msg_' \in Messages
      BY <1>8, <2>3 DEF ChildCallback, TypeOK, Messages
    <3> QED
      BY <1>8, <2>3, <3>1 DEF ChildCallback, TypeOK
  <2> QED
    BY <2>2, <2>3
<1>9. CASE Commit
  <2>1. bootcount' \in Nat /\ upgrade_available' \in BOOLEAN /\ booted' \in BOOLEAN
    <3>1. CASE Settle
      BY <3>1, SettledType DEF Settle, TypeOK
    <3>2. CASE UNCHANGED deviceVars
      BY <3>2 DEF TypeOK
    <3> QED
      BY <1>9, <3>1, <3>2 DEF Commit
  <2> QED
    BY <1>9, <2>1 DEF Commit, ChildEnds, TypeOK
<1>10. ASSUME NEW p \in Pids, Installer(p) PROVE TypeOK'
  <2> DEFINE MenderType ==
               /\ installer \in [Pids -> {"free", "running"} \cup Dead]
               /\ mender_status \in [Pids -> MenderStatuses]
               /\ mender \in [Pids -> {"none"} \cup Working]
               /\ sigchld \in BOOLEAN
  <2>0. ASSUME NEW status \in MenderStatuses, MenderEnds(p, status)
        PROVE  MenderType'
    <3>1. mender' \in [Pids -> {"none"} \cup Working]
      BY <2>0 DEF MenderEnds, TypeOK
    <3>2. /\ installer' \in [Pids -> {"free", "running"} \cup Dead]
          /\ mender_status' \in [Pids -> MenderStatuses]
      BY <2>0 DEF MenderEnds, TypeOK
    <3>3. sigchld' \in BOOLEAN
      BY <2>0 DEF MenderEnds, ChildEnds, TypeOK
    <3> QED
      BY <3>1, <3>2, <3>3
  <2>1. CASE MenderFails(p)
    <3>1. PICK status \in MenderStatuses : MenderEnds(p, status)
      BY <2>1 DEF MenderFails
    <3> QED
      BY <2>0, <2>1, <3>1 DEF MenderFails, MenderEnds, TypeOK
  <2>2. CASE SetUpgradeAvailable(p)
    <3>1. mender' \in [Pids -> {"none"} \cup Working]
      BY <2>2 DEF SetUpgradeAvailable, TypeOK
    <3>2. /\ upgrade_available' = TRUE /\ booted' = FALSE
          /\ UNCHANGED <<daemonVars, installer, source, mender_status, orphaned,
                         bootcount>>
      BY <2>2 DEF SetUpgradeAvailable
    <3> HIDE DEF Dead, Working, Control, Callers
    <3> QED
      BY <3>1, <3>2 DEF TypeOK
  <2>3. CASE ClearBootcount(p)
    <3>1. MenderType'
      BY <2>0, <2>3, StatusFacts DEF ClearBootcount
    <3> QED
      BY <2>3, <3>1 DEF ClearBootcount, MenderEnds, TypeOK
  <2>4. CASE InstallerKilled(p)
    <3>1. /\ installer' \in [Pids -> {"free", "running"} \cup Dead]
          /\ mender' \in [Pids -> {"none"} \cup Working]
          /\ orphaned' \in BOOLEAN
      BY <2>4 DEF InstallerKilled, TypeOK
    <3> QED
      BY <2>4, <3>1 DEF InstallerKilled, ChildEnds, TypeOK
  <2> QED
    BY <1>10, <2>1, <2>2, <2>3, <2>4 DEF Installer
<1>11. CASE Crash
  BY <1>11, LoseVolatileTypeOK DEF Crash, TypeOK
<1>12. CASE Reboot
  <2>1. bootcount' \in Nat /\ upgrade_available' \in BOOLEAN /\ booted' \in BOOLEAN
    <3>1. CASE BootPending
      <4>1. bootcount + 1 \in Nat
        BY DEF TypeOK
      <4> QED
        BY <3>1, <4>1, SettledType DEF BootPending, TypeOK
    <3>2. CASE UNCHANGED deviceVars
      BY <3>2 DEF TypeOK
    <3> QED
      BY <1>12, <3>1, <3>2 DEF Reboot
  <2> QED
    BY <1>12, <2>1, LoseVolatileTypeOK DEF Reboot
<1>13. CASE UNCHANGED vars
  BY <1>13 DEF vars, TypeOK
<1> QED
  BY <1>1, <1>2, <1>3, <1>4, <1>5, <1>6, <1>7, <1>8, <1>9, <1>10, <1>11,
     <1>12, <1>13 DEF Next

-----------------------------------------------------------------------------
(***************************************************************************)
(* The invariant that needs no assumption on the environment.              *)
(***************************************************************************)

LEMMA InitBaseInv == Init => BaseInv
<1> SUFFICES ASSUME Init PROVE BaseInv
  OBVIOUS
<1>1. DownloadTracked
  BY DEF Init, DownloadTracked
<1>2. FetchInv
  BY DEF Init, FetchInv
<1> QED
  BY <1>1, <1>2, InitTypeOK DEF BaseInv

LEMMA NextDownloadTracked == BaseInv /\ [Next]_vars => DownloadTracked'
<1> SUFFICES ASSUME TypeOK, DownloadTracked, FetchInv, [Next]_vars
             PROVE  DownloadTracked'
  BY DEF BaseInv
<1> USE DEF DownloadTracked, daemonVars, installerVars, deviceVars
<1>1. CASE Start \/ GetFirmware \/ PutFirmware \/ PutCommit
  BY <1>1 DEF Start, GetFirmware, PutFirmware, PutCommit, Request
<1>2. CASE ReadBootcount \/ ForkFails \/ Commit
  BY <1>2 DEF ReadBootcount, ForkFails, Commit
<1>3. CASE ReadUpgradeAvailable
  BY <1>3 DEF ReadUpgradeAvailable
<1>4. CASE Fork
  BY <1>4 DEF Fork, TypeOK
<1>5. CASE Watch
  BY <1>5 DEF Watch, FetchInv
<1>6. CASE ChildCallback
  <2>1. CASE installer[child_pid_] \in Dead
    BY <1>6, <2>1 DEF ChildCallback, Reap
  <2>2. CASE installer[child_pid_] \notin Dead
    BY <1>6, <2>2 DEF ChildCallback
  <2> QED
    BY <2>1, <2>2
<1>7. ASSUME NEW p \in Pids, Installer(p) PROVE DownloadTracked'
  BY <1>7 DEF Installer, MenderFails, MenderEnds, SetUpgradeAvailable,
              ClearBootcount, InstallerKilled, TypeOK
<1>8. CASE Crash \/ Reboot
  BY <1>8 DEF Crash, Reboot, LoseVolatile
<1>9. CASE UNCHANGED vars
  BY <1>9 DEF vars
<1> QED
  BY <1>1, <1>2, <1>3, <1>4, <1>5, <1>6, <1>7, <1>8, <1>9 DEF Next

LEMMA NextFetchInv == BaseInv /\ [Next]_vars => FetchInv'
<1> SUFFICES ASSUME TypeOK, DownloadTracked, FetchInv, [Next]_vars
             PROVE  FetchInv'
  BY DEF BaseInv
<1> USE DEF FetchInv, daemonVars, installerVars, deviceVars
<1>1. CASE Start \/ GetFirmware \/ PutFirmware \/ PutCommit
  BY <1>1 DEF Start, GetFirmware, PutFirmware, PutCommit, Request
<1>2. CASE ReadBootcount \/ ForkFails
  BY <1>2 DEF ReadBootcount, ForkFails
<1>3. CASE ReadUpgradeAvailable
  BY <1>3 DEF ReadUpgradeAvailable, Continue, ContinueUpdate, ContinueCommit,
              Reply, FirmwareState, TypeOK
<1>4. CASE Fork
  BY <1>4 DEF Fork, TypeOK
<1>5. CASE Watch
  BY <1>5 DEF Watch
<1>6. CASE ChildCallback
  BY <1>6 DEF ChildCallback, Reap, TypeOK
<1>7. CASE Commit
  BY <1>7 DEF Commit, Settle
<1>8. ASSUME NEW p \in Pids, Installer(p) PROVE FetchInv'
  <2>1. CASE MenderFails(p)
    BY <2>1 DEF MenderFails, MenderEnds, TypeOK
  <2>2. CASE SetUpgradeAvailable(p)
    BY <2>2 DEF SetUpgradeAvailable, TypeOK
  <2>3. CASE ClearBootcount(p)
    BY <2>3 DEF ClearBootcount, MenderEnds, TypeOK
  <2>4. CASE InstallerKilled(p)
    BY <2>4 DEF InstallerKilled, TypeOK
  <2> QED
    BY <1>8, <2>1, <2>2, <2>3, <2>4 DEF Installer
<1>9. CASE Crash \/ Reboot
  BY <1>9 DEF Crash, Reboot, LoseVolatile
<1>10. CASE UNCHANGED vars
  BY <1>10 DEF vars
<1> QED
  BY <1>1, <1>2, <1>3, <1>4, <1>5, <1>6, <1>7, <1>8, <1>9, <1>10 DEF Next

\* The invariant of every environment.
THEOREM BaseCorrect == Spec => []BaseInv
<1>1. BaseInv /\ [Next]_vars => BaseInv'
  BY NextTypeOK, NextDownloadTracked, NextFetchInv DEF BaseInv
<1> QED
  BY <1>1, InitBaseInv, PTL DEF Spec

\* What is being fetched is fetched by the child of captived's that downloads.
THEOREM FetchCorrect == Spec => []FetchInv
<1>1. BaseInv => FetchInv
  BY DEF BaseInv
<1> QED
  BY <1>1, BaseCorrect, PTL

\* Every variable of captived, of the installers and of the U-Boot environment
\* keeps its type, whatever fails; the message of the callback stays a byte.
THEOREM TypeCorrect == Spec => []TypeOK
<1>1. BaseInv => TypeOK
  BY DEF BaseInv
<1> QED
  BY <1>1, BaseCorrect, PTL

\* captived always follows a child it has not waited for.
THEOREM DownloadIsTracked == Spec => []DownloadTracked
<1>1. BaseInv => DownloadTracked
  BY DEF BaseInv
<1> QED
  BY <1>1, BaseCorrect, PTL

-----------------------------------------------------------------------------
(***************************************************************************)
(* The invariant of an environment in which bootcount is zero whenever no  *)
(* image is on trial.                                                      *)
(***************************************************************************)

LEMMA InitClearedInv == SettleClears /\ Init => ClearedInv
  BY BootAssumption DEF Init, ClearedInv, BootInv, InstallerInv, ThreadInv, Idle,
       Orphan

\* Only a commit, a rollback, a boot or an installer changes the device.
LEMMA NextBootInv ==
  ASSUME SettleClears, BaseInv, ClearedInv, [Next]_vars
  PROVE  BootInv'
<1> USE DEF BootInv, daemonVars, installerVars, deviceVars
<1>1. BootInv /\ InstallerInv /\ TypeOK
  BY DEF ClearedInv, BaseInv
<1>2. ASSUME UNCHANGED deviceVars PROVE BootInv'
  BY <1>1, <1>2
<1>3. CASE Commit
  <2>1. CASE Settle
    BY <2>1, BootAssumption DEF Settle, Settled
  <2> QED
    BY <1>2, <1>3, <2>1 DEF Commit
<1>4. ASSUME NEW p \in Pids, Installer(p) PROVE BootInv'
  <2>1. CASE MenderFails(p) \/ InstallerKilled(p)
    BY <1>2, <2>1 DEF MenderFails, InstallerKilled
  <2>2. CASE SetUpgradeAvailable(p)
    BY <1>1, <2>2 DEF SetUpgradeAvailable, InstallerInv
  <2>3. CASE ClearBootcount(p)
    BY <1>1, <2>3, BootAssumption DEF ClearBootcount, InstallerInv
  <2> QED
    BY <1>4, <2>1, <2>2, <2>3 DEF Installer
<1>5. CASE Reboot
  <2>1. ASSUME BootPending, bootcount + 1 > BootLimit PROVE BootInv'
    <3>1. upgrade_available' = FALSE /\ booted' = FALSE /\ bootcount' = 0
      BY <2>1 DEF BootPending, Settled
    <3> QED
      BY <3>1, BootAssumption
  <2>2. ASSUME BootPending, ~(bootcount + 1 > BootLimit) PROVE BootInv'
    <3>1. bootcount \in Nat /\ bootcount' = bootcount + 1
      BY <1>1, <2>2 DEF BootPending, TypeOK
    <3>2. upgrade_available' /\ booted'
      BY <2>2 DEF BootPending
    <3>3. bootcount' # 0 /\ bootcount' <= BootLimit
      BY <2>2, <3>1, BootAssumption
    <3> QED
      BY <3>2, <3>3
  <2> QED
    BY <1>2, <1>5, <2>1, <2>2 DEF Reboot
<1>6. CASE Start \/ GetFirmware \/ PutFirmware \/ PutCommit \/ ReadBootcount
             \/ ReadUpgradeAvailable \/ ForkFails \/ Fork \/ Watch \/ Crash
  BY <1>2, <1>6 DEF Start, GetFirmware, PutFirmware, PutCommit, Request,
       ReadBootcount, ReadUpgradeAvailable, ForkFails, Fork, Watch, Crash
<1>7. CASE ChildCallback
  BY <1>2, <1>7 DEF ChildCallback
<1>8. CASE UNCHANGED vars
  BY <1>2, <1>8 DEF vars
<1> QED
  BY <1>3, <1>4, <1>5, <1>6, <1>7, <1>8 DEF Next

LEMMA NextInstallerInv ==
  ASSUME SettleClears, BaseInv, ClearedInv, [Next]_vars
  PROVE  InstallerInv'
<1> USE DEF InstallerInv, Orphan, daemonVars, installerVars, deviceVars
<1>1. TypeOK /\ DownloadTracked /\ FetchInv /\ BootInv /\ InstallerInv /\ ThreadInv
  BY DEF BaseInv, ClearedInv
<1>2. CASE Start \/ GetFirmware \/ PutFirmware \/ PutCommit \/ ReadBootcount
             \/ ForkFails \/ Watch
  <2>1. UNCHANGED <<child_pid_, downloading_, uri_, installerVars,
                   upgrade_available, booted>>
    BY <1>2 DEF Start, GetFirmware, PutFirmware, PutCommit, Request,
         ReadBootcount, ForkFails, Watch
  <2> QED
    BY <1>1, <2>1
<1>3. CASE ReadUpgradeAvailable
  <2>1. UNCHANGED <<child_pid_, installerVars, upgrade_available, booted>>
    BY <1>3 DEF ReadUpgradeAvailable
  <2>2. downloading_ \/ upgrade_available => downloading_' \/ upgrade_available
    BY <1>3 DEF ReadUpgradeAvailable
  <2>3. uri_' = uri_ \/ ~(downloading_' \/ upgrade_available)
    BY <1>3 DEF ReadUpgradeAvailable, Continue, ContinueUpdate, ContinueCommit,
                Reply, FirmwareState
  <2> QED
    BY <1>1, <2>1, <2>2, <2>3
<1>4. CASE Fork
  <2>1. ~booted /\ \A p \in Pids : installer[p] = "free"
    BY <1>1, <1>4 DEF Fork, ThreadInv, Idle
  <2>2. PICK p \in Pids :
          /\ installer' = [installer EXCEPT ![p] = "running"]
          /\ mender' = [mender EXCEPT ![p] = "fetching"]
          /\ source' = [source EXCEPT ![p] = uri_]
          /\ child_pid_' = p
    BY <1>4 DEF Fork
  <2>3. downloading_' /\ UNCHANGED <<uri_, booted, orphaned>>
    BY <1>4 DEF Fork
  <2>4. ASSUME NEW q \in Pids
        PROVE  IF q = p
                 THEN /\ installer'[q] = "running"
                      /\ mender'[q] = "fetching"
                      /\ source'[q] = uri_
                 ELSE installer'[q] = "free" /\ mender'[q] = mender[q]
    BY <1>1, <2>1, <2>2 DEF TypeOK
  <2> QED
    BY <1>1, <2>1, <2>2, <2>3, <2>4
<1>5. CASE ChildCallback
  <2>1. CASE installer[child_pid_] \in Dead
    BY <1>1, <1>5, <2>1 DEF ChildCallback, Reap, TypeOK
  <2>2. CASE installer[child_pid_] \notin Dead
    BY <1>1, <1>5, <2>2 DEF ChildCallback
  <2> QED
    BY <2>1, <2>2
<1>6. CASE Commit
  <2>1. UNCHANGED <<child_pid_, downloading_, uri_, installerVars>>
    BY <1>6 DEF Commit
  <2>2. \/ UNCHANGED <<upgrade_available, booted>>
        \/ ~booted' /\ \A p \in Pids : installer[p] = "free"
    BY <1>1, <1>6 DEF Commit, Settle, ThreadInv, Idle
  <2> QED
    BY <1>1, <2>1, <2>2
<1>7. ASSUME NEW p \in Pids, Installer(p) PROVE InstallerInv'
  <2>1. CASE MenderFails(p)
    BY <1>1, <2>1 DEF MenderFails, MenderEnds, TypeOK
  <2>2. CASE SetUpgradeAvailable(p)
    BY <1>1, <2>2 DEF SetUpgradeAvailable, TypeOK
  <2>3. CASE ClearBootcount(p)
    BY <1>1, <2>3 DEF ClearBootcount, MenderEnds, TypeOK
  <2>4. CASE InstallerKilled(p)
    BY <1>1, <2>4 DEF InstallerKilled, TypeOK
  <2> QED
    BY <1>7, <2>1, <2>2, <2>3, <2>4 DEF Installer
<1>8. CASE Crash \/ Reboot
  BY <1>8 DEF Crash, Reboot, LoseVolatile
<1>9. CASE UNCHANGED vars
  BY <1>1, <1>9 DEF vars
<1> QED
  BY <1>2, <1>3, <1>4, <1>5, <1>6, <1>7, <1>8, <1>9 DEF Next

\* What a handler has read of the environment, and the decision to commit,
\* stay right while installers go on.
LEMMA NextThreadInv ==
  ASSUME SettleClears, BaseInv, ClearedInv, [Next]_vars
  PROVE  ThreadInv'
<1> USE DEF ThreadInv, daemonVars, installerVars, deviceVars
<1>1. TypeOK /\ DownloadTracked /\ FetchInv /\ BootInv /\ InstallerInv /\ ThreadInv
  BY DEF BaseInv, ClearedInv
<1>2. CASE Start \/ GetFirmware \/ PutFirmware \/ PutCommit \/ ForkFails \/ Watch
  <2>1. pc' \notin {"commit", "fork"} /\ pc # "upgrade" /\ UNCHANGED bootcount_read
    BY <1>2 DEF Start, GetFirmware, PutFirmware, PutCommit, Request,
         ForkFails, Watch
  <2> QED
    BY <1>1, <2>1
<1>3. CASE ReadBootcount
  BY <1>1, <1>3 DEF ReadBootcount, BootInv
<1>4. CASE ReadUpgradeAvailable
  <2>1. bootcount_read' = NoValue /\ UNCHANGED deviceVars
    BY <1>4 DEF ReadUpgradeAvailable
  <2>2. ASSUME pc' \in {"commit", "fork"}
        PROVE  /\ bootcount_read # NoValue
               /\ downloading_' = (downloading_ /\ ~upgrade_available)
               /\ FirmwareState(bootcount_read, upgrade_available, downloading_')
                    \in IF pc' = "fork" THEN {"normal"}
                                        ELSE {"normal", "uncommitted"}
    BY <1>4, <2>2 DEF ReadUpgradeAvailable, Continue, ContinueUpdate,
         ContinueCommit, Reply
  <2>3. ASSUME pc' \in {"commit", "fork"}, ~upgrade_available
        PROVE  Idle' /\ ~booted'
    <3>1. ~downloading_'
      BY <2>2, <2>3 DEF FirmwareState
    <3>2. UNCHANGED <<installer, booted>> /\ ~downloading_
      BY <1>4, <2>2, <2>3, <3>1 DEF ReadUpgradeAvailable
    <3> QED
      BY <1>1, <2>3, <3>1, <3>2 DEF Idle, InstallerInv, BootInv
  <2>4. ASSUME pc' \in {"commit", "fork"}, upgrade_available
        PROVE  pc' = "commit" /\ booted'
    <3>1. pc' = "commit" /\ bootcount_read # 0
      BY <2>2, <2>4 DEF FirmwareState
    <3> QED
      BY <1>1, <2>1, <2>2, <2>4, <3>1
  <2> QED
    BY <2>1, <2>3, <2>4
<1>5. CASE Fork
  BY <1>1, <1>5 DEF Fork
<1>6. CASE ChildCallback
  <2>1. CASE installer[child_pid_] \in Dead
    BY <1>1, <1>6, <2>1 DEF ChildCallback
  <2>2. CASE installer[child_pid_] \notin Dead
    BY <1>1, <1>6, <2>2 DEF ChildCallback
  <2> QED
    BY <2>1, <2>2
<1>7. CASE Commit
  BY <1>1, <1>7 DEF Commit
<1>8. ASSUME NEW p \in Pids, Installer(p) PROVE ThreadInv'
  <2>1. UNCHANGED <<pc, bootcount_read, downloading_>>
    BY <1>8 DEF Installer, MenderFails, MenderEnds, SetUpgradeAvailable,
         ClearBootcount, InstallerKilled
  <2>2. ~booted
    BY <1>1, <1>8 DEF InstallerInv, Installer, MenderFails,
         SetUpgradeAvailable, ClearBootcount, InstallerKilled
  <2>3. ~booted'
    BY <1>8, <2>2 DEF Installer, MenderFails, SetUpgradeAvailable,
         ClearBootcount, InstallerKilled
  <2>4. ASSUME Idle PROVE Idle' /\ (mender[p] \in Working => orphaned)
    <3>1. installer[p] = "free" /\ ~InstallerKilled(p)
      BY <2>4 DEF Idle, InstallerKilled
    <3>2. UNCHANGED installer
      BY <1>8, <3>1 DEF Installer, MenderFails, MenderEnds,
           SetUpgradeAvailable, ClearBootcount
    <3> QED
      BY <1>1, <2>1, <2>4, <3>1, <3>2 DEF Idle, InstallerInv, Orphan
  <2>5. \/ orphaned' \/ UNCHANGED <<upgrade_available, orphaned>>
        \/ mender[p] \in Working /\ UNCHANGED orphaned
    BY <1>8 DEF Installer, MenderFails, MenderEnds, SetUpgradeAvailable,
         ClearBootcount, InstallerKilled
  <2>6. pc' = "fork" => Idle'
    BY <1>1, <2>1, <2>4
  <2>7. pc' = "commit" => Idle' /\ (upgrade_available' => orphaned')
    BY <1>1, <2>1, <2>2, <2>4, <2>5
  <2>8. bootcount_read' # NoValue => pc' = "upgrade" /\ bootcount_read' = 0
    BY <1>1, <2>1, <2>2
  <2> QED
    BY <2>3, <2>6, <2>7, <2>8
<1>9. CASE Crash \/ Reboot
  BY <1>9 DEF Crash, Reboot, LoseVolatile
<1>10. CASE UNCHANGED vars
  BY <1>1, <1>10 DEF vars, Idle
<1> QED
  BY <1>2, <1>3, <1>4, <1>5, <1>6, <1>7, <1>8, <1>9, <1>10 DEF Next

\* The invariant of a cleared environment.
THEOREM ClearedCorrect == SettleClears => (Spec => [](BaseInv /\ ClearedInv))
<1> SUFFICES ASSUME SettleClears PROVE Spec => [](BaseInv /\ ClearedInv)
  OBVIOUS
<1>1. Init => BaseInv /\ ClearedInv
  BY InitBaseInv, InitClearedInv
<1>2. BaseInv /\ ClearedInv /\ [Next]_vars => BaseInv' /\ ClearedInv'
  <2> SUFFICES ASSUME BaseInv, ClearedInv, [Next]_vars
               PROVE  BaseInv' /\ ClearedInv'
    OBVIOUS
  <2>1. BaseInv'
    BY NextTypeOK, NextDownloadTracked, NextFetchInv DEF BaseInv
  <2>2. ClearedInv'
    BY NextBootInv, NextInstallerInv, NextThreadInv DEF ClearedInv
  <2> QED
    BY <2>1, <2>2
<1> QED
  BY <1>1, <1>2, PTL DEF Spec

-----------------------------------------------------------------------------
(***************************************************************************)
(* What the two invariants imply.                                          *)
(***************************************************************************)

\* PUT /firmware never starts a second mender beside one whose installer lives;
\* menders that have outlived theirs may be at work besides.
THEOREM OneInstaller == SettleClears => (Spec => []SingleInstaller)
<1>1. ClearedInv => SingleInstaller
  BY DEF ClearedInv, InstallerInv, SingleInstaller, Orphan
<1> QED
  BY <1>1, ClearedCorrect, PTL

\* The update_URI shown is the one that the installer was started with.
THEOREM UriIsInstalled == SettleClears => (Spec => []UriNamesInstall)
<1>1. ClearedInv => UriNamesInstall
  BY DEF ClearedInv, InstallerInv, UriNamesInstall
<1> QED
  BY <1>1, ClearedCorrect, PTL

LEMMA StateIsDevice ==
  ASSUME BaseInv, ClearedInv, bootcount_read # NoValue,
         \A p \in Pids : ~Orphan(p)
  PROVE  FirmwareState(bootcount_read, upgrade_available, downloading_)
           = DeviceState
<1>1. DownloadTracked /\ ThreadInv /\ InstallerInv
  BY DEF BaseInv, ClearedInv
<1>2. CASE upgrade_available
  BY <1>1, <1>2 DEF ThreadInv, FirmwareState, DeviceState
<1>3. CASE ~upgrade_available
  <2>1. downloading_ <=> \E p \in Pids : installer[p] # "free"
    BY <1>1, <1>3 DEF DownloadTracked, InstallerInv
  <2>2. \A p \in Pids : mender[p] \in Working => installer[p] # "free"
    BY DEF Orphan
  <2> QED
    BY <1>3, <2>1, <2>2 DEF FirmwareState, DeviceState
<1> QED
  BY <1>2, <1>3

\* firmware_state() answers the truth, from two reads and a flag, as long as no
\* mender works that captived does not know of.
THEOREM ReportTrue == SettleClears => (Spec => []ReportIsTrue)
<1>1. BaseInv /\ ClearedInv => ReportIsTrue
  BY StateIsDevice DEF ReportIsTrue
<1> QED
  BY <1>1, ClearedCorrect, PTL

\* PUT /firmware/commit settles no update that has not booted, but for one that
\* an orphan has installed.
THEOREM CommitAfterTrial == SettleClears => (Spec => CommitNeedsTrial)
<1> SUFFICES ASSUME SettleClears PROVE Spec => CommitNeedsTrial
  OBVIOUS
<1>1. ClearedInv /\ [Next]_vars =>
        [pc = "commit" /\ pc' = "bootcount" /\ upgrade_available =>
           booted \/ orphaned]_vars
  BY DEF ClearedInv, ThreadInv
<1> QED
  BY <1>1, ClearedCorrect, PTL DEF Spec, CommitNeedsTrial

-----------------------------------------------------------------------------
(***************************************************************************)
(* The end of a download is noticed: the part of DownloadSettles that is   *)
(* safety.                                                                 *)
(***************************************************************************)

\* Once child_event_ is added, the end of the child is not forgotten: its
\* callback is due, or a command of GET /firmware is, whose end raises SIGCHLD.
EndIsDue ==
  watching /\ installer[child_pid_] \in Dead => sigchld \/ pc = "bootcount"

NoticeInv == BaseInv /\ EndIsDue

LEMMA NextEndIsDue == NoticeInv /\ [Next]_vars => EndIsDue'
<1> SUFFICES ASSUME TypeOK, DownloadTracked, EndIsDue, [Next]_vars
             PROVE  EndIsDue'
  BY DEF NoticeInv, BaseInv
<1> USE DEF EndIsDue, daemonVars, installerVars, deviceVars
<1>1. CASE Start \/ GetFirmware \/ PutFirmware \/ PutCommit
  BY <1>1 DEF Start, GetFirmware, PutFirmware, PutCommit, Request
<1>2. CASE ReadBootcount \/ ReadUpgradeAvailable \/ Commit
  BY <1>2 DEF ReadBootcount, ReadUpgradeAvailable, Commit, ChildEnds
<1>3. CASE ForkFails
  BY <1>3 DEF ForkFails
<1>4. CASE Fork
  BY <1>4 DEF Fork, TypeOK
<1>5. CASE Watch
  BY <1>5 DEF Watch
<1>6. CASE ChildCallback
  <2>1. CASE installer[child_pid_] \in Dead
    BY <1>6, <2>1 DEF ChildCallback, Reap
  <2>2. CASE installer[child_pid_] \notin Dead
    BY <1>6, <2>2 DEF ChildCallback
  <2> QED
    BY <2>1, <2>2
<1>7. ASSUME NEW p \in Pids, Installer(p) PROVE EndIsDue'
  <2>1. CASE MenderFails(p) \/ ClearBootcount(p) \/ InstallerKilled(p)
    BY <2>1 DEF MenderFails, ClearBootcount, MenderEnds, InstallerKilled,
         ChildEnds
  <2>2. CASE SetUpgradeAvailable(p)
    <3>1. UNCHANGED <<pc, watching, sigchld, child_pid_>>
      BY <2>2 DEF SetUpgradeAvailable
    <3>2. watching => (installer'[child_pid_] \in Dead =>
                         installer[child_pid_] \in Dead)
      BY <2>2 DEF SetUpgradeAvailable, TypeOK, DownloadTracked
    <3> QED
      BY <3>1, <3>2
  <2> QED
    BY <1>7, <2>1, <2>2 DEF Installer
<1>8. CASE Crash \/ Reboot
  BY <1>8 DEF Crash, Reboot, LoseVolatile
<1>9. CASE UNCHANGED vars
  BY <1>9 DEF vars
<1> QED
  BY <1>1, <1>2, <1>3, <1>4, <1>5, <1>6, <1>7, <1>8, <1>9 DEF Next

LEMMA NoticeInvariance == Spec => []NoticeInv
<1>1. Init => NoticeInv
  BY InitBaseInv DEF Init, NoticeInv, EndIsDue
<1>2. NoticeInv /\ [Next]_vars => NoticeInv'
  BY NextTypeOK, NextDownloadTracked, NextFetchInv, NextEndIsDue
     DEF NoticeInv, BaseInv
<1> QED
  BY <1>1, <1>2, PTL DEF Spec

\* In every environment, the SIGCHLD that is lost between fork() and
\* event_add() is made up for before the handler is done.
THEOREM EndOfChildIsDue == Spec => []EndIsDue
<1>1. NoticeInv => EndIsDue
  BY DEF NoticeInv
<1> QED
  BY NoticeInvariance, <1>1, PTL

\* Any installer that has ended while child_event_ is added.
EveryEndIsDue ==
  \A p \in Pids :
    watching /\ installer[p] \in Dead =>
      /\ child_pid_ = p
      /\ sigchld \/ pc = "bootcount"

\* With a bootcount that is cleared, that is so of every installer, not only of
\* the one forked last: no end of a child stays unnoticed.
THEOREM EveryEndOfChildIsDue == SettleClears => (Spec => []EveryEndIsDue)
<1>1. NoticeInv /\ ClearedInv => EveryEndIsDue
  BY DEF NoticeInv, EndIsDue, ClearedInv, InstallerInv, EveryEndIsDue
<1> QED
  BY <1>1, NoticeInvariance, ClearedCorrect, PTL

\* The callback of an end that is due frees the child and ends the download.
CallbackSettles ==
  \A p \in Pids :
    ChildCallback /\ installer[p] \in Dead =>
      installer'[p] = "free" /\ ~downloading_' /\ ~watching'

\* When the callback runs it settles every download that has ended.
THEOREM EndsAreSettled == SettleClears => (Spec => [][CallbackSettles]_vars)
<1> SUFFICES ASSUME SettleClears PROVE Spec => [][CallbackSettles]_vars
  OBVIOUS
<1>1. BaseInv /\ ClearedInv /\ [Next]_vars => [CallbackSettles]_vars
  <2> SUFFICES ASSUME TypeOK, InstallerInv, NEW p \in Pids,
                      ChildCallback, installer[p] \in Dead
               PROVE  installer'[p] = "free" /\ ~downloading_' /\ ~watching'
    BY DEF BaseInv, ClearedInv, CallbackSettles
  <2>1. child_pid_ = p
    BY DEF InstallerInv
  <2>2. Reap(p)
    BY <2>1 DEF ChildCallback
  <2> QED
    BY <2>2 DEF Reap, TypeOK
<1> QED
  BY <1>1, ClearedCorrect, PTL DEF Spec

-----------------------------------------------------------------------------
(***************************************************************************)
(* Firmware implements UpdateCycle.                                        *)
(***************************************************************************)

\* An installer is there that captived has not waited for, or a mender works.
Busy == \E p \in Pids : installer[p] # "free" \/ mender[p] \in Working

\* The steps that keep the pending image and the installers.
LEMMA SameDevice ==
  ASSUME UNCHANGED <<upgrade_available, booted>>, Busy' <=> Busy
  PROVE  DeviceState' = DeviceState
  BY DEF DeviceState, Busy

\* The steps that keep the pending image and start no installer: the end of the
\* last one gives up a download, and nothing else.
LEMMA FewerInstallers ==
  ASSUME UNCHANGED <<upgrade_available, booted>>, Busy' => Busy
  PROVE  UC!Next \/ DeviceState' = DeviceState
  BY DEF DeviceState, Busy, UC!Next, UC!Abandon, UC!Move

\* Losing every installer gives up a download, and nothing else.
LEMMA LostInstallers ==
  ASSUME LoseVolatile, UNCHANGED deviceVars
  PROVE  UC!Next \/ DeviceState' = DeviceState
<1>1. ~Busy'
  BY DEF LoseVolatile, Busy
<1> QED
  BY <1>1, FewerInstallers DEF deviceVars

LEMMA NextMaps ==
  ASSUME SettleClears, BaseInv, ClearedInv, [Next]_vars
  PROVE  UC!Next \/ EarlyCommit \/ DeviceState' = DeviceState
<1> USE DEF daemonVars, installerVars, deviceVars
<1>1. TypeOK /\ DownloadTracked /\ FetchInv /\ BootInv /\ InstallerInv /\ ThreadInv
  BY DEF BaseInv, ClearedInv
<1>2. CASE Start \/ GetFirmware \/ PutFirmware \/ PutCommit \/ ReadBootcount
             \/ ReadUpgradeAvailable \/ ForkFails \/ Watch
  <2>1. UNCHANGED <<upgrade_available, booted, installerVars>>
    BY <1>2 DEF Start, GetFirmware, PutFirmware, PutCommit, Request,
         ReadBootcount, ReadUpgradeAvailable, ForkFails, Watch
  <2> QED
    BY <2>1, SameDevice DEF Busy
<1>3. CASE Fork
  <2>1. UNCHANGED <<upgrade_available, booted>> /\ ~booted
    BY <1>1, <1>3 DEF Fork, ThreadInv
  <2>2. Busy'
    BY <1>1, <1>3 DEF Fork, TypeOK, Busy
  <2> QED
    BY <2>1, <2>2 DEF DeviceState, Busy, UC!Next, UC!Start, UC!Move
<1>4. CASE ChildCallback
  <2>1. UNCHANGED <<upgrade_available, booted, mender>>
    BY <1>4 DEF ChildCallback, Reap
  <2>2. CASE installer[child_pid_] \in Dead
    <3>1. child_pid_ \in Pids /\ \A p \in Pids : installer'[p] = "free"
      BY <1>1, <1>4, <2>2 DEF ChildCallback, Reap, DownloadTracked,
           InstallerInv, TypeOK
    <3> QED
      BY <2>1, <3>1, FewerInstallers DEF Busy
  <2>3. CASE installer[child_pid_] \notin Dead
    BY <1>4, <2>1, <2>3, SameDevice DEF ChildCallback, Busy
  <2> QED
    BY <2>2, <2>3
<1>5. CASE Commit
  <2>1. CASE Settle /\ ~orphaned
    <3>1. ~Busy /\ ~Busy'
      <4>1. \A p \in Pids : installer[p] = "free"
        BY <1>1, <1>5 DEF Commit, ThreadInv, Idle, InstallerInv
      <4>2. \A p \in Pids : mender[p] \notin Working
        BY <1>1, <2>1, <4>1 DEF InstallerInv, Orphan
      <4> QED
        BY <1>5, <4>1, <4>2 DEF Commit, Busy
    <3>2. DeviceState' = "normal"
      BY <2>1, <3>1 DEF Settle, DeviceState, Busy
    <3>3. DeviceState \in {"normal", "uncommitted"}
      BY <1>1, <1>5, <2>1, <3>1 DEF Commit, ThreadInv, DeviceState, Busy
    <3> QED
      BY <3>2, <3>3 DEF UC!Next, UC!Settle, UC!Move
  <2>2. CASE UNCHANGED deviceVars
    BY <1>5, <2>2, SameDevice DEF Commit, Busy
  <2> QED
    BY <1>5, <2>1, <2>2 DEF Commit, EarlyCommit
<1>6. ASSUME NEW p \in Pids, Installer(p)
      PROVE  UC!Next \/ DeviceState' = DeviceState
  <2>1. CASE SetUpgradeAvailable(p)
    <3>1. Busy /\ ~booted
      BY <1>1, <2>1 DEF SetUpgradeAvailable, InstallerInv, Busy
    <3>2. DeviceState \in {"downloading", "downloaded"}
      BY <3>1 DEF DeviceState, Busy
    <3>3. DeviceState' = "downloaded"
      BY <2>1 DEF SetUpgradeAvailable, DeviceState
    <3> QED
      BY <3>2, <3>3 DEF UC!Next, UC!Install, UC!Move
  <2>2. CASE MenderFails(p) \/ ClearBootcount(p)
    <3>1. UNCHANGED <<upgrade_available, booted>> /\ Busy
      BY <2>2 DEF MenderFails, ClearBootcount, Busy
    <3> QED
      BY <3>1, FewerInstallers
  <2>3. CASE InstallerKilled(p)
    <3>1. UNCHANGED <<upgrade_available, booted>> /\ Busy
      BY <2>3 DEF InstallerKilled, Busy
    <3> QED
      BY <3>1, FewerInstallers
  <2> QED
    BY <1>6, <2>1, <2>2, <2>3 DEF Installer
<1>7. CASE Crash
  BY <1>7, LostInstallers DEF Crash
<1>8. CASE Reboot
  <2>1. CASE UNCHANGED deviceVars
    BY <1>8, <2>1, LostInstallers DEF Reboot
  <2>2. ASSUME BootPending, bootcount + 1 > BootLimit
        PROVE  UC!Next
    <3>1. bootcount # 0 /\ upgrade_available
      BY <2>2, BootAssumption DEF BootPending
    <3>2. DeviceState = "uncommitted"
      BY <1>1, <3>1 DEF BootInv, DeviceState
    <3>3. ~upgrade_available' /\ \A p \in Pids : installer'[p] = "free"
      BY <1>8, <2>2 DEF Reboot, LoseVolatile, BootPending
    <3>4. DeviceState' = "normal"
      <4>1. ~Busy'
        BY <1>8, <3>3 DEF Reboot, LoseVolatile, Busy
      <4> QED
        BY <3>3, <4>1 DEF DeviceState, Busy
    <3> QED
      BY <3>2, <3>4 DEF UC!Next, UC!Settle, UC!Move
  <2>3. ASSUME BootPending, ~(bootcount + 1 > BootLimit)
        PROVE  UC!Next \/ DeviceState' = DeviceState
    <3>1. upgrade_available /\ upgrade_available' /\ booted'
      BY <2>3 DEF BootPending
    <3>2. DeviceState' = "uncommitted"
      BY <3>1 DEF DeviceState
    <3>3. DeviceState \in {"downloaded", "uncommitted"}
      BY <3>1 DEF DeviceState
    <3> QED
      BY <3>2, <3>3 DEF UC!Next, UC!Boot, UC!Move
  <2> QED
    BY <1>8, <2>1, <2>2, <2>3 DEF Reboot
<1>9. CASE UNCHANGED vars
  BY <1>9, SameDevice DEF vars, Busy
<1> QED
  BY <1>2, <1>3, <1>4, <1>5, <1>6, <1>7, <1>8, <1>9 DEF Next

\* Whatever the interleaving of requests, installers, crashes and reboots, the
\* device only moves along the life cycle of an update, or by the commit of an
\* image that a mender without an installer finished meanwhile.
THEOREM FollowsLifeCycle == SettleClears => (Spec => LifeCycle)
<1> SUFFICES ASSUME SettleClears PROVE Spec => LifeCycle
  OBVIOUS
<1>1. Init => UC!Init
  BY DEF Init, DeviceState, Working, UC!Init, UC!Stages
<1>2. BaseInv /\ ClearedInv /\ [Next]_vars =>
        [UC!Next \/ EarlyCommit]_DeviceState
  BY NextMaps
<1> QED
  BY <1>1, <1>2, ClearedCorrect, PTL DEF Spec, LifeCycle

=============================================================================
