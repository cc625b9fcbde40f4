# xaprc in TLA+

A model of the software of the Xaptum router card: `captived`, the REST daemon
through which a host configures the card and updates its firmware, `xbridge`,
which moves the host's traffic, and `xap-usb-gadget`, which makes the USB
interface to the host. The modules are translated from the
source. TLC checks them on small instances, and TLAPS proves the safety
properties for every value of the constants.

## The system

| Part | State it keeps | Operations | What is hard |
|---|---|---|---|
| Firmware update: `firmware_manager`, `rest/firmware*` | `downloading_`, `child_pid_`, `child_event_`, `debug_msg_`, the update URI; outside: the U-Boot variables `bootcount` and `upgrade_available`, the forked `mender -install` | GET and PUT `/firmware`, PUT `/firmware/commit`, the SIGCHLD callback | the state is read in two commands while mender works; SIGCHLD is lost or belongs to another child; a mender that outlives its killed installer; crash and reboot in every phase |
| WiFi configuration: `rest/wifi_config`, `system::read/write` | the configuration file and its temporary copy; outside: what connman has read | GET, PUT | atomic replacement, failures half-way, connman not told, crash, power cut |
| Mode and reboot: `rest/mode`, `rest/reboot`, `system::symlink_target` | the `default.target` link; outside: the running mode | GET and PUT `/mode`, POST `/reboot` | remove-then-link, a reboot that fails or has not happened when the next PUT comes |
| `xbridge` | capture buffers, the flags `quit`, `stats`, `na`, the time of the next advertisement | the `select()` loop, `callback()`, the signal handler | signals between any two steps, endless traffic, timeouts |
| Start-up and event loop: `main.cpp`, `http/server`, `tasks.hpp`, `create_symlink_to_config_dir()` | the socket, `continue_running`, the `secure-lan` link; outside: the control address file | initial task, bind and retry, dispatch, signal callbacks | cut short and started again, an address that changes, signals before and in the loop |
| USB gadget: `xap-usb-gadget` and its unit | the gadget in configfs | create, destroy | many calls that fail half-way, exit code 0 in every case |
| Read-only resources, JSON, HTTP dispatch: `rest/aggregate_resource`, `line_resource`, `model`, `uptime`, `wifi_status`, `firmware_image`, `firmware_version`, `json.hpp`, `http/server` | the members of `wifi_status`, left from its last answer; the calls of `get()` under way | GET, refused requests | answers put together from several reads that may fail, sources that change in between, texts that JSON cannot hold |
| Configuration packages (`etc-hosts`, `macset`, ...) | installed files | - | - |

`captived` is one thread: libevent calls one handler or signal callback at a
time, and a handler runs to its end. Every external command a handler executes
(`fw_printenv`, `mender`, `systemctl`, `reboot`) takes time in which the other
actors go on: an installer that was forked earlier, connman, U-Boot after a
power cut, systemd, which restarts `captived` (`Restart=always`). These, and not
other requests, are the concurrency of `captived`; the modules therefore have a
step per external command or system call, and one program counter, `pc`.
`xbridge` is also one thread, but is interrupted by signals anywhere.

## Modules

| Module | Models | Composes |
|---|---|---|
| `UpdateCycle` | abstract: the four update states a client sees and the ways between them | |
| `Firmware` | the firmware component, the installers, U-Boot, restarts | `UpdateCycle` through `DeviceState` |
| `FirmwareProofs` | theorems about `Firmware` | |
| `ConfigStore` | abstract: contents that a PUT replaces at one moment or not at all | |
| `WifiConfig`, `WifiConfigProofs` | one `/wifi/config/...` resource, the file system, connman | `ConfigStore` through `Promised` |
| `Mode`, `ModeProofs` | `/mode`, `/reboot`, the link, boots | |
| `Xbridge`, `XbridgeProofs` | the bridge's loop, its traffic, clock and signals | |
| `Neighbor`, `NeighborProofs` | what the bridge takes for a solicitation, what it answers, the checksum | |
| `Daemon`, `DaemonProofs` | the `captived` process from start to end | |
| `UsbGadget`, `UsbGadgetProofs` | `xap-usb-gadget`, its unit, configfs | |
| `Resources`, `ResourcesProofs` | GET through the tree of resources, refused requests, `wifi_status` | |
| `MC*` | the instances for TLC | |

### Firmware

`Request` is the arrival of a request; each of the three handlers first calls
`firmware_state()`, whose two commands are `ReadBootcount` and
`ReadUpgradeAvailable`. What the handler computes from the answer up to its next
command belongs to the second (`Continue...`). PUT `/firmware` then forks
(`Fork`, `ForkFails`) and registers the event (`Watch`); PUT `/firmware/commit`
executes `mender -commit` (`Commit`); both answer with GET `/firmware`, which is
`caller = "reply"`. `ChildCallback` is the callback of `child_event_`.

An installer is the forked `captived`: `"running"` while it waits for the mender
it has started with `popen()`, then dead until it is waited for. Its mender is a
process of its own: `"fetching"`, then `"flagged"` once it has set
`upgrade_available`; the order of the two writes is that of the `mender` of the
integration tests. The installer exits when its mender ends (`MenderEnds`). The
converse does not hold: a signal that ends the installer alone
(`InstallerKilled`) leaves the mender at work, an *orphan* (`Orphan`), while
`captived` reaps the child, clears `downloading_`, answers "normal", admits the
next PUT `/firmware` and forks a second mender beside it. What the orphan does
to the U-Boot variables, and its end, reach nobody. `orphaned` remembers that
there has been one since `captived` started. `ChildEnds` is the
SIGCHLD of any child, commands included, which activates the event if it is
registered. `Reap` is the part of the callback after a successful `waitid()`.

What is assumed of the environment, because the repository does not contain it:

* `SettleClears` says whether a commit and a rollback leave `bootcount` at
  zero. Both values are considered. TRUE is what U-Boot does when
  `upgrade_available` is not set on a boot; FALSE is the `mender` of the
  integration tests, whose `-commit` writes only `upgrade_available`.
* U-Boot counts the boots of a pending image and gives it up after `BootLimit`
  of them.
* systemd kills what is left of the service before it restarts `captived`, so
  no installer and no orphan survives (`LoseVolatile`).
* The pid of an installer is not given to another while its mender is an orphan.
* `event_add()`, `fork()` and every command may fail.
* A SIGCHLD that arrived before the new event is registered may or may not
  activate it (`Watch`): it is in libevent's signal pipe, or already dispatched.

### WifiConfig

The steps of a PUT are `Put`, `Check` (`contents(new)`, the comparison of
digests), `Open`, `Close`, `Rename` (`system::write`), `Reload` and `Get`.
Contents are values; `Torn` is a part of some contents. `Check` dereferences an
empty optional when the file is missing or empty: it may then take either branch
or end `captived`. Equal digests are taken for equal contents. Malformed bodies
are refused before anything happens and are not modelled.

What a client may rely on is `ConfigStore`: an accepted PUT has replaced the
contents, a refused one has not, and after a crash, or the answer "failed to
read config", they are the old or the new ones. `Promised` maps `file` to
`stored` and the steps of a PUT to the time in which it is `pending`; `Rename` is
the `Store` step, and everything before it a stutter.

### Mode

The steps of a PUT are `Put` (with the validation), `Remove`, `Symlink`,
`ReadTargets` (the running mode, or no answer), `ExecuteReboot` and `Answer`.
`Boot` is any boot of the card, after a reboot that was asked for or a power cut.
`lost` remembers that the link was removed and not made again.

### Xbridge

`Test`, `Enter`, `Select`, `Callback` (once per frame), `EndDispatch`,
`ShowStats`, `ClearStats`, `Advert` and `Reset` are the loop in the order of the
code; `Signal`, `Capture` and `Tick` may come between any two of them. `timer` is
`na_timeout - time(NULL)`, kept at -1 when it is negative. A frame is a kind
(a solicitation for the gateway, other IPv6, anything else, longer than its
capture). Traffic is endless; only `Tags` frames per interface carry a tag, by
which `fate` records what became of them, so that the history stays finite
without bounding the traffic. `strip` is the option `-2`.

`sendPacket()` does not look at what it is given. A packet is therefore modelled
by the Ethernet headers it begins with: 1 or 0 when it was captured, by the kind
of the interface (`LinkHeaders`), 0 when `sendNeighborAdvert()` made it; and
`Injected` says what comes out: one less where 14 bytes are taken off, one more
where 14 are put before it. A frame handed to the wrong interface, or an
advertisement on the tunnel, is then one with -1 or 2 headers, and `malformed`
becomes TRUE. `callback()` is given the interface to forward to; `Answered` looks
at its treatment of headers, as the code does, and the answer goes to its
`other`. Without `-2` the periodic advertisement is injected on Ethernet without a
header: `malformed` becomes TRUE in that case too, and `WellFormed` speaks of `-2`.

### Neighbor

The packet-level half of `xbridge`: `IsNeighborSolicitation`, `NeighborAdvert`
and `Checksum` are functions of the packet, `Callback` and `Advertise` the two
places that use them. `Xbridge` abstracts their result to the kind
`"solicitation"`. Words are added as a little-endian machine reads them, as on
the card. The reference in the properties (`OnesSum`, `Valid`, `Genuine`) is the
protocol's: words in network order, carries added end-around, pseudo header and
message in one sum, the length in the pseudo header a word of four bytes in
network order (`ProtocolHeader`), where the code puts what `htons()` makes of it
into the first two (`PseudoHeader`). `B` is the number of values of a byte, 256
on the card, and `SizeofAddress` the bytes of an address, 16 there; what is
reserved in an ICMPv6 header is left out.

`Sums` and `OnesSums` give the sum after each byte or word, as recursive
functions over the prefixes of the data, and `AddCarries` is the second loop of
`checksum()`. The proofs reason about these three.

### Daemon

`Lstat`, `Readlink`, `Remove`, `RemoveDir` and `Symlink` are the system calls of
`create_symlink_to_config_dir()`, each with its failure (`fault`). `main()`
ignores the result, so every end of the task leads to `"address"`. `ReadAddress`
and `Bind` are the loop of the server's constructor, whose sleeps are steps in
which nothing changes; `HandleInt` and `HandleTerm` install the handlers; `While`
and `EndDispatch` are the loop of `main()`. `Signal` kills where there is no
handler. `SignalCallback` is the lambda of `main.cpp`: it is given `base.get()`
instead of `&continue_running`, so that it overwrites the first byte of the event
base, and either nothing comes of it or `captived` crashes. Requests are the
other modules' subject: a step between `While` and `EndDispatch`.

### UsbGadget

One action per call of libusbg in `create_usb_gadget()` and
`destroy_usb_gadget()`; `CreateFunction` and `AddFunction` are the calls for each
function of the build, in their order. Assumed of libusbg, the kernel and
systemd: a directory may remain of a call that failed; disabling a gadget that
is not enabled is an error; a recursive removal stops at the first error;
taking a function out of its configuration disables the gadget; a gadget that
does not exist makes `destroy`'s calls return errors; of a killed `create` the
unit has failed and `ExecStop` does not run. `fault` remembers a failed call or a
kill, and a start forgets it only when no gadget is left.

### Resources

A request calls `get()` of its resource, and an aggregate that of each child:
`stack` holds the calls, each with the number of children it has begun, or, for
`wifi_status`, of its own steps. Other modules treat a GET as one answer; here it
takes a step for each source it reads, and `SourceChanges` and `WlanChanges` may
come between any two. `GetChild` begins a child, `Return` is the end of a call:
the response to the client, or the element that `add_resource()` puts into the
caller's object (`Entry`, at the path of the names that lead there). A call that
fails is null to its caller, a null is left out if the child was added with
`omit_null`.

The leaves differ in the file they read and the expression they look for, which
is data. A leaf is therefore a source that holds a value, or none (`Null`: the
file cannot be read, or nothing matches), and each of the four actions is one way
its `get()` ends: `GetLine`, `GetFails`, `GetMember` (`firmware_uri`, which reads
a member and never fails) and `SendFails`. GET of `/mode`, of a
`/wifi/config/...` and of the update state are leaves too; that the update state is
read in two commands is in `Firmware`. `NoText` is a line that is no UTF-8:
`json_string()` yields nothing for it, so that the element is missing without a
word, and a request for that resource alone ends `captived`, because `dumps()`
makes a string of a null pointer.

`wifi_status::get()` has three steps: `ResetConnection` (and the links that
`getifaddrs()` asks the kernel for first, with the flag IFF_RUNNING),
`RefreshConnectionStatus` (the addresses, asked for next; `getifaddrs()` may fail,
which the code does not look at) and `RefreshSsid` (the command `iw`). The two
lists of addresses are one set. `sources` and `wlans` record what there has been
during the request.

## Runs

| Run | Instance | Shows |
|---|---|---|
| `firmware` | `SettleClears`, 3 pids, 2 URIs, exit codes 0 and 1, SIGKILL, one trial boot | truth of the reported state, one mender but for orphans, the child is tracked and its URI shown, commit after trial, the life cycle as a refinement, and that the end of a download is noticed |
| `commit_race` | stale `bootcount` | **violated**: the two reads of `firmware_state()` straddle the end of an installation, and the image is committed unbooted |
| `wifi` | 2 contents and the empty one | nothing torn, refused PUTs have no effect, connman in sync or known not to be, the answer is what was sent, and PUT is atomic: the refinement of `ConfigStore` |
| `wifi_retry` | as `wifi` | **violated**: the same PUT again does not repeat a lost reload |
| `mode` | the two modes and one that is refused | a mode that was answered takes effect; the link is lost at one place only |
| `mode_reboot` | as `mode` | **violated**: the documented comparison with the configured mode is not made |
| `xbridge` | buffers of 2 and 1, batches of 1, period 2, endless traffic | once and in order, the right number of Ethernet headers with `-2`, SIGTERM ends the loop, advertisements recur, one follows every SIGUSR2 |
| `neighbor` | two-bit bytes, addresses of two bytes, all checksum fields, up to 3 bytes of options, headers with one wrong field | the checks are the protocol's, advertisements are valid |
| `daemon` | 2 addresses, any of them usable, anything at `secure-lan` | the link is made or a call failed, a right link is kept, a changing address is found |
| `daemon_signal` | as `daemon` | **violated**: SIGINT and SIGTERM do not end the loop |
| `gadget` | the build with all functions | enabled only when complete, stop and start recover from a failed creation |
| `resources` | the root with two aggregates below it, a line, the URI with `omit_null`, `wifi_status`; one value, address and network, each of which may be absent | an answer has one element for each child and no value that was not so during the request, "connected" comes with an address, every request ends |

The violated properties state what a comment of the source says; they are kept
to document where the code differs, with the traces TLC gives.

What an orphan changes is stated in the properties. `ReportIsTrue` is claimed
unless an orphan is at work; `SingleInstaller` says that of two menders at work
one is an orphan; a commit without a trial boot (`CommitNeedsTrial`), which is
also the one step of the device off the life cycle (`EarlyCommit` in
`LifeCycle`), happens only when there has been one: PUT `/firmware/commit` reads
"normal" and the orphan finishes before `mender -commit` does. Nothing in the code
prevents any of the three, and the model reaches them; no comment or test says
what should happen (the callback's message, "mender process was killed", takes
the child for mender), and so no run demands more. `DownloadTracked`, `UriNamesInstall`
and `DownloadSettles` are about the installer `captived` knows and need no
exception.

Why the bounds are enough. Three pids are what is needed for two orphans and an
installer beside them, or for an installer, the remains of another and an orphan.
One trial boot and a rollback are all that `BootLimit` decides, and `MaxBootcount` is above it. Two contents,
and an empty one, let the file, the temporary file and connman differ pairwise.
In `xbridge` a batch of one with two waiting frames is a batch that ends too
early, and a period of two is the least that differs from the least timeout. Two
addresses let the one that was read differ from the one in the file and from the
usable one. With two-bit bytes a sum of a few words carries, and its carry
carries again. Three functions are all there are.
In `resources` the tree of `main()` is cut down to one child of each kind: an
aggregate in an aggregate, a child that may be left out, one that may not, one
with members, and resources that are also asked for by themselves; the children
that are left out are further lines. One value is enough to tell present from
absent and now from before, because a source may lose and regain it between two
steps and between two requests.
The theorems hold for all values.

Eight runs pass and four show a violation. No run disables the deadlock check:
every system modelled can go on, because a
request, a frame or a restart can always come.

### Fairness

`Firmware`: weak fairness of the steps of `captived` (the thread is scheduled
and commands end), strong fairness of `ChildCallback` (libevent runs active
events in order, so requests do not overtake it for ever). Nothing is assumed of
installers: mender may hang. `DownloadSettles` holds although the SIGCHLD of the
installer may be lost before `event_add()`, because PUT ends with GET
`/firmware`, whose commands are children too and raise SIGCHLD again; the mutant
without that GET violates it.

`Xbridge`: weak fairness of the loop, of time, and of systemd's restart. None is
assumed of traffic or signals. `na` may be cleared with the advertisement before
the one that a SIGUSR2 asks for; `RequestFollowed` says that the request is
followed by an advertisement, at the latest by the periodic one.

`Daemon`: weak fairness of the process's steps and of systemd's restart, strong
fairness of the signal callbacks, which libevent runs before it goes back to
waiting. Nothing is assumed of the network: `Serves` speaks of the behaviours in
which an address stays known and usable.

`Resources`: weak fairness of the steps of a request. Nothing is assumed of
sources; one may be unreadable for ever.

## Proofs

About 5700 obligations in eight modules, all proved. Each proof follows one
pattern: the type invariant, an inductive invariant with one step per action,
then the property. Every invariant that a run checks, and every action property
and refinement, is a theorem.

* **Firmware.** Two invariants, because two environments are considered.
  `BaseInv` holds for both values of `SettleClears`. Its part `FetchInv` says, as
  long as no mender was orphaned, that what is being fetched is fetched for the
  one child `captived` follows: `Fork` must know that nothing is being fetched,
  which it gets from what `firmware_state()` answered
  (`pc = "fork" => ~downloading_ /\ ~upgrade_available`). `ClearedInv` assumes
  `SettleClears`, and holds with orphans: `InstallerInv` is about the installers,
  of which `captived` knows each, and `Idle` (no installer at all, when a fork or a
  commit was decided on "normal") survives whatever an orphan does, where "no
  upgrade is available" does not. Its core is `bootcount # 0 <=> booted` and, for the race between
  the two reads, `ThreadInv`: what was read of `bootcount` still tells whether the
  image was booted when `upgrade_available` is read, because an installation that
  finishes in between leaves both at zero. That is what fails with a stale
  `bootcount`, as `commit_race` shows. From it follow `OneInstaller` (an installer
  that runs is `child_pid_`, so that there is one), `UriIsInstalled`, `ReportTrue`,
  `CommitAfterTrial` and the refinement `FollowsLifeCycle`, with a lemma per kind
  of step that maps it to a step or a stutter of `UpdateCycle`, or to
  `EarlyCommit`.
  `EndOfChildIsDue` is the part of `DownloadSettles` that is safety, in every
  environment: a child that has ended while `child_event_` is added has its callback
  due, or `fw_printenv bootcount` is about to be executed, whose end raises SIGCHLD.
  `Watch` may lose the signal but is followed by that command, and whatever else
  ends raises it. That this is so of every installer, and that the callback then
  settles the download (`EveryEndOfChildIsDue`, `EndsAreSettled`), needs
  `ClearedInv`: otherwise `child_pid_` may have moved on to another child.
* **WifiConfig.** `PutInv` says what the files hold at each step of a PUT; from it
  `NeverTorn`, `RefusedWithoutEffect`, `PutAnswersItsContents`; `ConnmanInSync` has
  its own induction. `PutIsAtomic` is the refinement of `ConfigStore`: `NextMaps`
  maps each step to one of the abstract steps or a stutter, and needs `PutInv` to
  know that the file is still the old one at `Rename`, the new one at an accepting
  `Get`, and the old one at a refusal.
* **Mode.** `PutInv` carries the new mode from `Symlink` to `Answer`:
  `PutTakesEffect`. `LinkLostMidway` is inductive with the types.
* **Xbridge.** `InOrder` joins the tags that were treated and the ones in the
  buffer in one increasing sequence; `TreatedOnceInOrder` follows for every size
  of batch and buffer. `FramesWellFormed` follows from the pairing
  of the interfaces: `sendPacket()` is only given a frame of the one side for the
  other, and an advertisement for the host, because `callback()` answers on the
  `other` of an interface that strips.
  `LoopReturnsToTest` is the part of `QuitEnds` that is safety: `StepsToTest`
  bounds the steps of the loop until `while (!quit)`; each of them makes it
  smaller and no frame or signal makes it greater, because `pcap_dispatch()`
  handles at most a batch and `Select` leaves at most two interfaces to dispatch.
* **Neighbor.** The invariant, `NeighborInv`, is simple (what was sent is what
  `callback()` makes of the packet); the work is in the checksum. The code adds
  the words of the machine, without a carry, then the carries, for pseudo header
  and message apart, and then both results; the protocol adds the words of the
  network, with an end-around carry, in one sequence. The proof takes both to
  arithmetic modulo `AllOnes`, B * B - 1: `Reduced(a, s)` says that a fits in a
  word, differs from s by a multiple of `AllOnes`, and is 0 only if s is.
  `AddCarriesReduces`, `WordsReduce` and `ChecksumReduces` show it of what the
  definitions compute; exchanging the bytes of every word multiplies a sum by B,
  which is its own inverse modulo `AllOnes` (`BytesSwapped`), so that both are all
  ones for the same data (`ReducedAllOnes`); the zero that pads an odd length adds
  nothing (`PaddedSum`), and the pseudo headers have the same sum (`HeaderIsBytes`).
  From there `ChecksumIsProtocols`. `AdvertsAreValid` needs that the field of the
  checksum enters the sum once (`AdvertMessageSum`) and that the sum of an
  advertisement is not 0. `SolicitationsAnswered` needs that a length read in the
  wrong byte order is still long enough when its low byte is not 0
  (`PlenReadIsLong`).

  A recursive definition is first shown to have a value that satisfies its
  equation (`Recursion`: a first value and a step determine a function up to any
  bound), and then its properties by induction. The induction theorems of the
  library take an operator as a parameter, which the provers cannot instantiate;
  here an induction is stated about a set (`Induction`), which follows from
  `LeastElement`: a set of naturals that is not empty has a least one, from the
  library's theorem about well-founded relations. That a function satisfies the
  equation of `AddCarries`, whose recursion is not on a predecessor, is shown with
  the one that it computes: 0 for 0, and 1 + (sum - 1) % `AllOnes` otherwise.
* **Daemon.** `TaskInv` says what may be at `secure-lan` at each call of the
  initial task: a link that is right is only removed after a fault, and
  `symlink()` is reached without a fault only where there is room for the link.
  From it `ServesWithLink` and `RightLinkKept`, for any sequence of starts that
  were cut short. `StartComesToServe` is the part of `Serves` that is safety:
  `StepsToServe` is at most ten while the file names an address that can be bound
  to. An address read before is worth two steps more than the one in the file,
  because `bind` then fails once and the file is read again.
* **Resources.** `AnswerInv` joins what is needed about the calls (`StackInv`:
  every call but the last is of an aggregate that waits for one of its children,
  so the path of an entry is one of names), about the environment (`HistoryInv`:
  what is now is in the history) and about the members (`StatusInv`: nothing of an
  earlier answer is left after the first step, and what is there after the second
  was so during this request). `AnswersMomentary` and `ConnectedHasAddress` are
  about entries that are already made and do not follow by themselves: a leaf or
  `RefreshSsid` adds an entry that is in order because of the other three.
  `ReturnInv` is the one lemma for every call that returns. It holds for any tree
  of resources, of any height.

  `AnswersAreComplete` compares an answer with the whole tree. An induction over
  the tree is avoided: a leaf's place in the tree is its *route*, the calls that
  wait when it is asked (`Routes`), and the calls under way have *passed* a route
  when the route is that of some call up to one of the children it has finished
  with (`Passed`). `CompleteInv` says that there is the one element for each route that was
  passed, and no element of another. A call that begins, a child that begins and
  an aggregate that returns pass no route; a leaf that returns passes exactly one,
  the one its callers form (`ReturnPasses`, `CallersAreRoute`), and sets the
  element there. That this replaces no other takes names that differ
  (`NamesTell`: routes from the same resource with the same names are the same).
  When the stack is empty every route is passed.

  `RequestsGoForward` and `RequestsAreBounded` are the part of `Answered` that is
  safety. `Position` is the next child of each call; every step of a handler takes
  it forward in the order in which the first difference counts, and it has at most
  `Height` + 1 places, each bounded by the children of its resource. What is left
  to fairness is that the handler gets to run.
* **UsbGadget.** `CreationInv` says how much of the gadget exists at each call.
  `StartEnables` needs `StopRemoves` in the same induction: a start finds a gadget
  in its way only after a fault. `ExitInv` is the one lemma for every way out of
  the program.

The assumptions are those named in the modules (`PidsAssumption`,
`BootAssumption`, ...), which the runs evaluate. Those the proofs need beyond
types hold in the code: in `Resources`, the names under which `main()` adds
children to an aggregate differ (`NamesAssumption`), the tree of references that
`main()` makes has a height (`HeightAssumption`: no longer chain of children), and
what is no UTF-8 is no value (`ValuesAssumption`); in `Neighbor`, a solicitation
and an advertisement have different types, an address is whole words, a
solicitation's 24 bytes are at most 256 + 2 (`SizeofSolicit <= B + 2`, scaled to
`B`), and lengths are below B * B, as the 16 bits of `ip6_plen` are.

What is only model-checked: the liveness properties (`DownloadSettles`,
`QuitEnds`, `AdvertisesForever`, `RequestFollowed`, `Serves`, `Answered`). TLAPS
does not reason about fairness and ENABLED. For `DownloadSettles`, `QuitEnds`,
`Serves` and `Answered` what they need of each step is proved; what is left is that
the step is enabled and taken.

## Not modelled

* The wording and layout of answers, the encoding of JSON, headers and
  connections of HTTP. The regular expressions of `model`, `firmware_image` and
  `firmware_version`, and the number in `uptime`: a line is a value, and one that
  does not match is none.
* What a client is told when mender fails is modelled as the code does it, and
  nothing is demanded of it: the forked child hands a wait status to `exit()`, so
  the code reported is 0 (`ExitStatus`). Likewise an empty configuration file,
  which PUT accepts, cannot be read back (`Readable`); `captived` serves without
  the `secure-lan` link if the initial task failed; and the unit of the gadget is
  active after a creation that failed.
* That `ip6_plen` is compared without `ntohs()` is modelled (`PlenRead`) and nothing
  is demanded of the lengths it gets wrong, those with a low byte of 0 from 256 on:
  `GenuineAnswered` leaves them out.
* The composition of the components of `captived` in one module. They share the
  one thread, which serializes their handlers, and the boot of the card: a reboot
  that POST `/reboot` or PUT `/mode` causes in the middle of an update is
  `Reboot` in `Firmware` and `PowerCut` in `WifiConfig`, which may come at any
  step there.
* `line_resource::put()`: `main()` makes no such resource writable.
* `picosha2.hpp`, third-party.
* The packages that install files or one-shot units, and the kernel
  configuration.
* In `xbridge`: `getopt`, how MAC addresses are read, frames shorter than an
  Ethernet header; a clock that is set back.
* In `xap-usb-gadget`: the attributes, and the files below `/rom` they come from.
* The durability of `rename()` without `fsync()` on a given file system.

## Plan

Done, in this order: `Firmware` with `UpdateCycle`, `WifiConfig`, `Mode`,
`Xbridge`, `Daemon`, `UsbGadget`, their proofs, `Neighbor`; `Resources` with its
proofs, and `ConfigStore` with the refinement; then the proofs of `Neighbor`, of
complete answers, and of the steps that a request, a start, the loop and the end of
a download need. What would come next:

1. `Xbridge` as an implementation of a pair of queues, for the frames it forwards.
2. `usb0`'s attributes and the files of `/rom` in `UsbGadget`.
