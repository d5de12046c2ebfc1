# A TLA+ model of NDIMon-R

NDIMon-R turns a small computer into an NDI monitor.  A Rust control plane keeps
the desired state and hands it to a C++ decoder, to a finder and, through a
privileged daemon, to the host.  This directory models the parts that must
survive crashes, lost and late calls, failing steps and competing writers.  TLC
checks the models on small instances; TLAPS proves the main theorems for every
size.

## 1. Inventory

| part | state it keeps | operations | interacts with |
| --- | --- | --- | --- |
| state actor (`ndimon-state`: `lib.rs`, `persist.rs`) | `state.json`, `state.prev.json`, `state.pending`; the envelope in memory | start, submit, complete, follow, replay, query, finish | appliers, privd, decoder, finder; the lock is shared with privd |
| network authority (`network_authority.rs`) | `state.lock`, the network decision inside the envelope | load, compare_and_commit | called by the engine inside privd |
| appliers and domains (`apply.rs`, `domains/`) | what was observed, applied or looked at | check, apply, rollback, replay, guard | decoder, finder, privd |
| followers (`follower.rs`, `ipc.rs`; `FollowerProtocol.h`, `FollowerConfig.cpp`, `IPCServer.cpp`) | the revision and settings each follower holds, its snapshot file | apply_config, status, reset | one socket, one request per connection |
| network engine (`ndimon-netengine`: `engine.rs`, `store.rs`) | journal, last result, transient timers | stage, apply, confirm, accept, revert, recover, boot | authority, host tools, systemd |
| network handover and import (`handoff.rs`, `migration.rs`) | `quiesce`, `external`, the offered document; `upgrade.json` and the legacy store | prepare, cancel, commit, restore, complete; run, retry, clean | the engine of the other program; the boot job |
| network backends (`backend/`, `validation.rs`) | profiles, files and links of the host | adopt, plan, check, activate, verify, restore | NetworkManager, networkd, Netplan, ifupdown, an operator |
| plugins (`domains/plugins`) | `plugin_job`, `plugin_results`, the registry; sessions with running plugins | prepare, accept, observe, complete; enable, disable, activate | privd's units |
| privileged daemon (`ndimon-privd`) | job files, package trees, update slots, artifacts | start, cancel and query jobs; install; update; render | control over a socket, systemd, dpkg |
| control process (`ndimon-control`) | credential file, sessions, login limits, event hub, retries of lost sources | HTTP handlers, supervision | the state actor, the decoder's events, browsers |
| backups (`backup/`) | an inspected import, archives, snapshots | inspect, restore, undo | the state actor, the credential, the engine |
| web interface (`ui/src`) | a copy of the document, base revisions of open editors | follow events, fetch, save | the control process |
| decoder (`src/src`) | receivers, frame and delay queues, display mode, audio graph | connect, route, show, match, play | NDI, DRM, ALSA |
| finder (`finder/main.cpp`) | its settings and their cache, the SDK instance, the published list | apply_config, tick, trigger | NDI |

What is hard here: two processes write one envelope under an advisory lock; every
file operation may fail before or after its effect; the network engine may be
killed, and the machine rebooted, in the middle of a change that cuts off the
operator; a follower or privd still serves a request whose caller has timed out;
timers, operators and boot jobs race to resolve the same change; a job outlives
the process that started it; broadcasts overflow; an operator edits the files that
the engine writes; callbacks of the decoder run into commands and routes.
`PROJECT.json` lists each hazard at its line with the properties that would catch
it.

What makes each part correct:

* store: an acknowledged publication is never lost or replaced under its
  revision; a refused one never surfaces; a file that loads always exists; no
  marker stays for ever;
* authority: a kept network decision is never taken back by an ordinary write;
* engine: a change is kept whole or undone whole, never half; new addresses are
  guarded; nothing is touched without a timer that would undo it; every watched
  change resolves and the media units return;
* handover and import: one program at a time may write a network; a decision is
  neither lost nor doubled; sources stay until they are imported;
* backends: what is applied is ours and what was ours is put back; nothing of an
  operator's is overwritten or deleted;
* followers: what is committed is shown; a follower comes back to the durable
  document; revisions do not regress within one lineage;
* plugins: an operation runs only after its reservation is durable; its record
  stays until its unit has ended; clients are told what the unit found, once; what
  is started is one whole package that the operator was shown;
* control: an operator's command wins over a retry; only the password in force
  opens a session; limits hold where logins are decided; a cached value is used
  only while it is true;
* backup and web interface: what a restore replaces can be taken back; a save
  replaces only what its editor was shown;
* decoder and finder: no thread uses what another has destroyed; an output shows
  the source it reports; queues lose nothing but what they must.

## 2. How the project is built

Abstract specification: `DesiredLog`.  Components, one module each: `StateStore`,
`NetEngine`, `Follower`, `PluginJobs`, `Supervisor`, `Sessions`, `Applier`,
`UiStore`, `Backup`, `Handoff`, `Migration`, `NmProfiles`, `BackendFiles`,
`NetworkRules`, `PluginRuntime`, `PluginFiles`, `Updates`, `Receiver`, `Display`,
`OutputWorker`, `VideoDelay`, `AudioGraph`, `Finder`.  Proofs, each beside the modules
it is about: `StateStoreProofs`, `NetEngineProofs`, `FollowerProofs`,
`PluginJobsProofs` (also `PluginRuntime`), `HandoffProofs` (also `Migration`,
`NmProfiles`),
`ControlProofs` (`UiStore`, `Sessions`, `Applier`, `Supervisor`), `HostFilesProofs`
(`PluginFiles`, `Backup`, `NetworkRules`, `Updates`), `DecoderProofs` (`Receiver`,
`Display`, `VideoDelay`, `OutputWorker`, `AudioGraph`, `Finder`).

`MCNetEngine` adds a symmetry to its component.  `MCControl`, `MCHost`,
`MCOutputs` and `MCSafety` check several components in one run: a variable `part`,
chosen in the initial state, names the component that takes steps, and the others rest in one
initial state.  The components of such a run do not interact in the model; where
they do in the code, the neighbour is a step of the module itself (the actor's
commit in `UiStore`, the receiver's switch in `OutputWorker`, the engine's journal
in `BackendFiles`).

A component's promises are one definition at its end (`SupervisorPromises`), the
conjunction of properties that are stated and commented one by one above it.
Operators that are marked as a mutant or a defect are plausible errors of the code
that a property has been seen to catch.

Safety and liveness are kept apart where the safety is proved: what such parts get
done is one property of their MC module (`ControlGetsDone`, `HostGetsDone`,
`OutputsGetDone`).

## 3. The modules

### DesiredLog

What the store promises, seen by a reader: one document that moves forward by
exactly one revision per change, by the actor (`document`) or by the network
engine (`decision`), or changes plugin metadata under the same revision.

### StateStore

`json`, `prev` and `marker` are the three files of `persist.rs`, `lock` the
`flock` of `network_authority.rs`.  `cpc` is where the control process is inside
`start`, `refresh`, a transaction, its rollback, a job's completion or `finish`;
`jpc` is the network job inside privd.  An envelope is numbered by revision,
document, network decision and the revisions at which both last changed, with
the state of its plugin job: what `StateFile::check`, the compare-and-swap and
the properties tell apart.  Each file operation is an action with the outcomes
`ok`, `lost` (an error before the rename) and `late` (an error after it).  Each
process may die at every control point; the kernel then drops its lock.

`acked` and `refused` record what clients were told.  `UnlockedOverlap` says
whether a network job may run while `StateHandle::start` writes without the lock:
the systemd units order the two so that it normally does not, and the run
`store_overlap` shows what happens when it does.

### NetEngine

`saved` is the authority's commit, `journal` is `pending.json`, `last` is
`last.json`; `host` maps each part of the host's configuration (nft table, profile
files, live addressing, public bindings) to the network document it is of.  `op`,
`pc` and `step` are the operation that holds the engine's lock and its position;
`j` is its copy of the journal.  Stage, apply, confirm, accept, revert, recover
and the boot job are broken into the steps between which a failure or a kill can
fall, in the order of `engine.rs`.  `timers` are the transient systemd timers:
they survive the operation and do not survive a reboot.  Preflight and validation
are a step that may fail; which command a backend runs is not modelled.

### Follower

One follower and the actor that delivers to it.  `saved` is the durable envelope;
`turn`, `doc`, `cand`, `left`, `call` and `tries` follow `submit`, `restore` and
`replay` of `lib.rs`, `deliver` of `follower.rs` and the retry loop of `ipc.rs`.
`queue` holds the connections the follower has not served, also those whose
caller left; `fol` is what the follower applied, `cache` its snapshot.  A delivery
to an older follower, the question about its revision and the second delivery
are the stages of a request.  A purge of the state directory starts the revisions
over while the follower's snapshot stays: another lineage.

Left out of it: imperative commands, which carry no setting; `reload_config`; the
decoder's own restart on `restart_required`, which is a crash of the model; the
reasons for which hardware refuses a setting, which are the set `Bad`.

### PluginJobs

One install, update or remove after another.  `job`, `results` and `reg` are
`plugin_job`, `plugin_results` and the plugin registry of the envelope; `actor` is
where `submit` is between `reserve`, privd's answer and the commit.  `unit`, `stop`
and `file` are the root unit of each operation as systemd sees it and its result
under `/run`; `host` is the plugin's directory with the package set aside and the
`.broken` mark.  `pc`, `snap`, `first`, `lost`, `asked` and `out` are the locals of
`observe_with`.  An operation is numbered, and its number is also its unit's name
and the version it installs.  Each commit of the envelope is one step here, because
`StateStore` has shown what a commit does; a call to privd may fail before or after
its effect.

Left out of it: the eviction of old entries from `plugin_results`, and the older
update journal, which does nothing on a native installation.

### The control process

`Supervisor`: `supDoc` is the document that the actor answers with, the two bounded
channels are the command activity and the decoder's events, and the turn of the
loop is kept at the awaits between which an operator's command, a route or an
overflow can fall.  `ManualCommandWins` and `PassiveNeverReconnects` are action
properties over those gaps; `LostSourceRetried` is the liveness behind them, which
`ControlGetsDone` states with that of the other two loops and of the audio engine.

`Sessions`: the credential file is a record with its stamp; a login is arrival,
gate, hashing off the loop, an upgrade of the hash that compares the stamp, the
session.  A restore replaces the file beside it, and privd may write after the
caller gave up.  The limiter counts failures by address and is asked before the
gate and again inside it.

`Applier`: the turn of the actor through its domains: render, network, device,
followers, the replay of all domains, and the restore after a failure.  `memory` is
the network observation with its generation, the device settings remembered as
applied, and the last look at the files of the Tessera daemon and at its process,
of which a daemon that is down shows none; a request that was given up lands later.

`UiStore`: a document is a function from fields to the revision that last set them.
Commits pass the actor's bus, the hub of `sse.rs` and the stream, each of which
drops when full; the store works its jobs off one by one, and editors remember the
revision they began with.

`Backup`: one restore at a time as the chain of its awaited steps, each of which may
fail or be the last of the process; other sessions commit between them.

### The host

`Handoff`: one transfer between two programs, the releasing and the receiving side
both from `handoff.rs`; `quiesce`, `external` and the offered document are files,
each job a position with a held lock, and a death, a failure or a reboot may fall on
every step.  `Migration`: `upgrade.json`, the legacy sources and the authority's
decision; the boot job, its retry timer and the late cleaning run the same steps.

`NmProfiles` and `BackendFiles` refine what `NetEngine` sees as parts: the first has
NetworkManager's profiles with their UUIDs, autoconnection and active connection
(an operator who gives a failed change up has what it created discarded one
connection at a time, up to the first command that fails, and nothing remembers the
rest; a reload brings back what was deleted while its file was left),
the second the files of three other backends as sequences of settings, what a
daemon makes of them, and an operator who edits them between plan and recovery.
`NetworkRules` has the arithmetic of `validation.rs` over addresses of 4 bits, where
prefixes, first and last addresses meet; the code's are 32 bits wide, and nothing
in the rules depends on the width.

`PluginRuntime`: one plugin with its document entry, the loop that reconciles from a
snapshot, the activation that runs in a task, and privd's unit.  A command's caller may
give up at any time, also while the call waits in the queue: the process then answers
nobody (`own = "stray"`), where a refused proposal of a caller who waits is taken back.
`PluginFiles`: the live tree, the tree set aside, the staged upload and the feed; an
install is inspect, confirm, copy, exchange, hook.  A tree is removed as a whole or cut
off inside, with or without its manifest and its marker (`cut`).  `Updates`: a job that
checks, downloads, verifies and installs, the package scripts that copy originals and
probe the directories, and the first start; a copy is begun and ended by two steps
(`copies`, `copied`), between which it may fail or power may.

`Finder`: the loop between its blocking calls, with the trigger file, the cache and
the SDK's configuration file.  Each write of a file may fail, as the code goes on when
one does; settings are accepted, cached and acknowledged in three steps.

### The decoder

`Receiver`: the control thread's command, the receive thread and the advertiser
thread, each at its position between locks; instances and FrameSyncs are numbered,
so that a use after destruction is visible.  `Display`: the painter, the main loop,
the policy's match and a request with a deadline over three buffers and a CRTC whose
flip may be lost.  `OutputWorker`: one output's source as the socket's thread, the
main loop, the receive thread's callbacks and the control process see it.
`VideoDelay`: the delay queues and the budget they share, up to a fixed number of
frames (`VdMost`, 598 in the code).  `AudioGraph`: graphs as numbered heap cells,
adopted by a real-time thread, and PCM devices that are opened once; settings are of
version 1, whose sources are enabled, or of version 2, whose sources are routed.  Only
in version 2 is a source that nothing plays deselected, so that what it still holds is
thrown away when it is selected again: in version 1 a source that is disabled and
enabled plays the rest of its queue, which no property denies.  HX decoding and DMA
buffers are left out.

## 4. What the runs show

| run | component: bounds | shows |
| --- | --- | --- |
| `store` | 2 transactions, 1 decision, 1 failing file operation per turn, deaths anywhere | nothing acknowledged is lost, nothing refused is published, a marker is cleared, and the store implements `DesiredLog` |
| `net` | 2 changes, 2 failing steps, 1 kill, 1 reboot, 1 unrelated write | each change is kept whole or undone whole; guarded; watched |
| `net_live` | 1 change, 2 failing steps, 1 kill, 1 reboot | a watched change resolves, the boot job leaves nothing pending and media units return |
| `follower` | 2 domains, 3 settings (one refused), 2 tries, 2 waiting connections, 3 revisions, 1 fault, 1 crash, 1 purge | lineage, agreement, no regress, convergence |
| `plugin_jobs` | 2 operations, 2 lost polls, any 2 of: failing call, failing apply, death of control or of a unit, reboot | records outlive units, results are truthful and final, the intent matches the host, named jobs end, cancelled ones are settled |
| `control` | `Supervisor`: 1 output, 2 sources, a bus of 1 and a hub of 2 messages, 3 spent steps; `Sessions`: 2 clients of 1 address, 2 passwords, 1 session, 3 writes, 2 logins; `Applier`: 1 command, 2 faults, 1 event; `AudioGraph`: 2 PCMs, 2 events | commands beat retries; sessions need the password in force; caches tell the truth and replays converge; audio calls end and devices that are back are played |
| `host` | `Handoff`: 2 offers, 1 change, 2 faults, 2 deaths; `Migration`: 2 faults, 2 deaths, 1 saved setting; `PluginRuntime`: 2 changes, 1 fault; `Updates`: 3 versions, 2 jobs, 2 faults; `NmProfiles`: 3 changes, 1 edit, 2 faults; `Finder`: 2 changes of the world, 1 request, 1 fault | the promises of five parts; transfers and imports end, processes of plugins follow the document, a configured release starts the stack unless an essential step failed, changes of NetworkManager's connections end, the published list becomes the network's |
| `outputs` | `Receiver`: 1 source, 1 server, 1 command, setting, change and refusal each; `Display`: 2 modes, 1 change, fault and lost flip each; `OutputWorker`: 2 sources, 1 choice, 2 routes, 1 unplugging | commands end, registration arrives, a source's format is matched, no old picture stays, a route that is alone is kept and not answered |
| `safety` | `UiStore`: 2 commits, 1 fault; `Backup`: 1 change, 2 restores, 1 fault; `PluginFiles`: 2 contents, 3 requests, 2 faults; `BackendFiles`: 2 changes, 1 edit, 1 fault; `Receiver`: 2 commands; `Display`: 1 request; `VideoDelay`: 2 queues, 3 changes; `NetworkRules`: 2 rows, 6 addresses; `Finder`: 1 change of the world, 2 requests, 2 faults | what no step may do |
| `store_overlap` (violation) | start without the lock beside a Keep | an acknowledged decision is overwritten |
| `plugin_forgotten` (violation) | 1 thing goes wrong | a second operation is accepted while the first unit runs |
| `migration_boot` (violation) | 1 failing step, 1 death, 1 saved setting | no later boot takes a repaired store over |

The bounds are the smallest at which the cases meet.  Two transactions let a
second one start from the result of a failed first; one decision suffices for the
compare-and-swap to race each of its steps; one fault per turn is what the
rollback is designed for.  Two changes let a journal follow one that was kept or
undone.  Two domains let one be refused after the other was applied; two waiting
connections let a late request and an undo overtake one another.  Two operations let
the second meet what the first left; two lost polls in place of three keep the
difference between one and enough of them.  Channels of one or two messages overflow
within three steps.  Two restores let the second one's snapshot hold what the first
left; three requests let a plugin be installed, replaced and removed; three versions
let an update go up and be offered a lower one.  Two faults of the finder let a write
fail in the undo of a refused request; two of NetworkManager's commands let a recovery
fail and then the discarding of what it left.  Two rows suffice for every relation
of two networks.  The proofs remove these bounds for the properties they cover.

### Fairness

* `StateStore`: `ndimon-control.service` has `Restart=always`, its observers read
  the state every 250 ms, so Start and Refresh recur although the lock is
  contended (strong fairness); a turn, once begun, runs on (weak fairness); a file
  operation that is tried for ever does not fail for ever.
* `NetEngine`, `Handoff`, `Migration`: the operation that runs goes on; recovery
  timers repeat every ten seconds; `ndimon-net-boot.service` has
  `Restart=on-failure`; time passes.
* `Follower`, `Applier`: the replay task is a loop that backs off from 100 ms to
  10 s after a failure and runs every 30 s otherwise; both services are restarted;
  the actor, with its timeouts, and the follower run on.
* `PluginJobs`, `PluginRuntime`: the observers and the runtime's loop tick, control
  is restarted, an accepted command runs to its end, and every unit has
  `RuntimeMaxSec`, so it reports or is stopped.
* `Supervisor`: the loop polls every second and its deadline fires; the decoder
  answers or its request times out.  `Sessions`: hashing ends and privd's answer has
  a timeout, so whoever holds the gate leaves it.
* `Updates`, `NmProfiles`: the root job runs on under its own time limit, and the
  boot job or the recovery timer runs again.
* `Receiver`, `Display`, `OutputWorker`, `AudioGraph`, `Finder`: each thread of the
  decoder and the finder is a loop that is scheduled; the SDK discovers and the
  kernel completes a flip that was not lost; both services are restarted.

Only steps of the program, of the kernel's scheduler and of systemd are fair; no
operator, network or fault is.  Faults, crashes, reboots and changes of the world
are bounded in every run, so each liveness property says what happens once they
stop.

### Findings

1. `store_overlap`: `StateHandle::start` reads and rewrites `state.json` without the
   decision lock (`lib.rs:101`), against the rule in `network_authority.rs:2`.
2. `plugin_forgotten`: a failure after a plugin's unit was started releases the
   reservation (`domains/plugins.rs:126`), so two lifecycle operations can run at
   once, against `docs/plugins.md:361`.  The same property fails along a second path
   when two things go wrong: a job whose acknowledgement was lost is settled by the
   first look after a restart without asking any unit
   (`domains/plugins/jobs.rs:335`), where `docs/plugins.md:368` has it wait for an
   operator.
3. `migration_boot`: an import that is refused after `upgrade.json` was written, and
   a setting saved before the next boot, leave a base revision that no later boot
   can match (`migration.rs:826`): the boot job fails from then on, against
   `README.md:232` and the comment at `engine.rs:1354`.

Statements of the documentation that the model refutes in states beyond the runs'
bounds, or that no run asks.  Each is a definition; checking it as the only property
of its module, with the constants given, shows the trace.

| module, definition | what the documentation says | what happens | constants |
| --- | --- | --- | --- |
| `StateStore`, `RefusedNotPublished` | `lib.rs:517`: only a failed rollback leaves its marker | the unlink of the marker took effect, its directory sync and then the rollback's write fail: the refused candidate is what the next start loads | `FaultsPerTurn = 2`, 1 transaction |
| `NetEngine`, `FailedRecoveryRetries` | `docs/network-vlans.md:98`: an unfinished recovery retries every ten seconds | `systemd-run` fails in a recovery at boot and nothing retries it | 1 failing step, 1 reboot, no crash, no write |
| `PluginJobs`, `CancelRollsBack` | `docs/plugins.md:378`: files of a cancelled job are rolled back | an update cancelled inside its hook leaves the previous package set aside | 2 operations, no trouble |
| `PluginFiles`, `FilesRolledBack` | the same, for a job that is killed | nothing recovers the tree before the next job does | those of `safety` |
| `PluginFiles`, `CutOffIsMarked` | `docs/plugins.md:350`: when a removal fails, the files stay with a `.broken` marker | an uninstall removes the live tree recursively and unmarked (`privd/src/plugins.rs:599`); cut off inside, it leaves a half plugin that `start` takes for the installed one | 1 content, 3 requests, 1 fault, `PfSpec` |
| `PluginRuntime`, `ProcessSeesCommitted` | `docs/plugins.md:204`, `:214`: a plugin sees the committed configuration | it is launched with one that is committed over meanwhile | no fault |
| `PluginRuntime`, `StraysAreForgotten` | `docs/plugins.md:230`: the host drops the session when a request times out | the limit of a command that waits behind others ends the request, not the session (`runtime.rs:61`); the process answers it later and keeps what it proposed, as it does for a client that left, until the next event | those of `host` |
| `Backup`, `UndoTakesBackImport` | `README.md:893`: a restore can be undone | newer snapshots prune the one of a restore that was refused after it had committed | 3 restores |
| `UiStore`, `ConflictRefused`, `NoChangeLost` | `native-page.ts:137`: a save against an older revision is refused | after an accepted save whose reload failed, other editors of the page move on without having seen what was committed | `UiSpec` |
| `Updates`, `OriginalsWhole` | `ndimon-package/src/lib.rs:412`: the originals are kept for a rollback | `preserve` copies with `cp -a` straight to the final name and takes whatever has that name for the copy (`lib.rs:148`): when power fails inside, the next configuration gives the originals up with a part of them copied and nothing reported | 2 versions, 2 jobs, 1 fault, `UpSpec` |
| `Updates`, `FailedProbeStopsNothing` | `ndimon-package/src/lib.rs:198`: a probe fails before anything stops | a write that fails after the probe succeeded stops the stack | those of `host` |
| `Finder`, `ListFollowsNetwork` | `README.md:495`: the list follows the network | what was published is forgotten with the instance, so a list that became empty meanwhile is not published; nor is one whose write failed written again | 1 change, 1 request, no fault |
| `OutputWorker`, `LastWriterWins` | `supervisor.rs:238`: a route is recorded as the source | a choice and a route cross, and the output ends with the older one | 1 choice, 1 route |
| `Display`, `FreezeEnds` | `DRMDisplay.h`: the health monitor resets a stuck flip | the time of the last commit moves on although commits are dropped, so the monitor sees no freeze | no request, 1 change, 1 lost flip |

Read beside the code while it was modelled, and not stated as properties: `accept_current`
(`engine.rs:830`) starts the media units once and ignores the outcome, which
`MediaReturn` excepts; a failed write of the journal's last phase leaves `reverting`
for the next boot, which `RecoveryEnds` excepts; `runtime_observation` (`runtime.rs:743`) is read, changed and written
without comparison; `connected_` is cleared after the receive thread was restarted
(`main.cpp:563`); a plugin removed while an exchange was interrupted comes back
(`privd/src/plugins.rs:567`); an operator's file that the manager had not loaded
before the first change makes `verify_addresses` fail in recovery as well.

## 5. What is proved

Every theorem below holds for all values of the constants that the module's `ASSUME`
admits; those assumptions say that bounds are numbers, that capacities are not zero,
that there are finitely many VLAN tags and that a distinguished value ("no name",
"none") is not among the others, and nothing about the code.  Theorems are about the safety specification, without
fairness.  Each argument is an inductive invariant, checked by TLC on the bounds of
section 4 before it was proved, in parts that every action is shown to keep.

**`StateStoreProofs`** (assuming `~UnlockedOverlap`): `InvHolds`, and from it
`PublishedStaysHolds` with its parts `AckedSurvivesHolds`, `AlwaysLoadableHolds` and
`RevisionHolds`, for any number of transactions, decisions, faults and deaths;
`TypeCorrect` needs no assumption.  `store_overlap` shows that the assumption cannot
be dropped.  None of the properties is inductive alone.  That an acknowledged
envelope is on disk needs to know, at each control point, which file holds which
envelope (`DiskInv`: while the marker is present the previous file equals the
actor's envelope; at the commit the current file is the candidate); that the
envelope a process holds is the current one (`HeldInv`), which in turn needs the
lock to be held by the process that believes it holds it (`LockInv`).
`OutcomesAreTrueHolds` has two more parts: a refused document is in no file that a
load reads (`RefusalInv`), and a turn that goes on to a privileged effect holds the
reservation (`ReservationInv`).  Its first half also assumes `FaultsPerTurn <= 1`:
section 4 names the trace with two faults that breaks it.
Last, the refinement: every step of the store is a step of `DesiredLog` or leaves
its view unchanged, where the view is the previous file while the marker is present
and the current one otherwise (`RefinesLogHolds`); so no step takes a kept decision
back (`KeptDecisionHolds`).

**`NetEngineProofs`**: `InvHolds`, and from it `TypeCorrect`,
`HostFollowsDecisionHolds`, `ChangeIsGuardedHolds` and `KeepsOnlyAppliedHolds`, for
any documents, changes, failing steps, deaths and reboots.  That the host follows the
decision is a statement about rest, and what keeps it is what holds in between:
`LinkInv` says that the journal on disk, the operation's copy and the authority's
decision are of one transaction, decided or not; `PhaseInv` which phase the journal
has at each point; `HostInv` which document each part of the host is of, given both;
`MediaInv` and `WatchInv` when the media are stopped and which timers stand; `StepInv`
and `OpInv` who runs where.

**`FollowerProofs`**: `InvHolds`, `TypeCorrect`, `OneAheadHolds`,
`ResetMeansPurgedHolds` and with them `LineageIsKnownHolds`, for any number of domains,
settings, tries, waiting connections and faults.  The invariant says which envelope a
turn delivers (`TurnInv`), that at most one connection is awaited (`WireInv`), and that
nothing on its way, awaited or abandoned, is more than one revision ahead of the
envelope the turn began with (`LineageInv`): the last is what makes the follower's "one
ahead" mean a lost undo and anything more another lineage.  A second invariant
(`DeliveryHolds`) is about what a completed delivery means, `SettledAgreesHolds`, and
about single steps, `DeliveryIsSafeHolds`: an answer leaves no request behind it
(`OrderInv`), an acceptance shows what was asked (`AskInv`), and what the replay has
delivered is shown and contradicted by nothing on its way (`ShownInv`).

**`PluginJobsProofs`**: `InvHolds`, and from it `TypeCorrect`, `TruthfulResultHolds`,
`IntentMatchesHostHolds`, `ResultsAreRealHolds`, `RecordOutlivesUnitHolds`,
`SettledOnceHolds` and `SettledForGoodHolds`, for any number of operations, polls and
troubles.  Not even the types are inductive: that what is cancelled is an operation
needs `RecordInv`.  `UnitInv` ties the result file to how the work ended;
`ObserverInv` carries that over the gap between privd's two lookups and the
completion, during which the unit, the record and the process may change; `HostInv`
says that the recorded operation alone can change the host while nothing was dropped,
stopped or ended early.  `PrInvHolds` and `HooksRunOnce`, for any queue, requests and
faults: counting the hooks that were granted and those that ran, a granted one is
pending in the document, or used up there and about to run, or has run, never two of
these (`HookInv`); the revisions are bounded because each is paid for by a change or a
command (`BudgetInv`).

**`HandoffProofs`**: `HandInvHolds` and `HandoffIsSafeHolds`, for any offers, changes,
failing steps, deaths and reboots on both sides.  A decision is made once, under the
reservation, and its document stays (`DecidedInv`); a host that may have been changed
is reserved and fenced for the transfer in the journal (`ReservedInv`); from the two
follows whose network the host runs (`HostInv`).  `RunInv` and `PointInv` say what an
operation has done when it has come to a point.  `MigInvHolds` and `ImportIsSafe`, for
any faults, deaths and saved settings: the decision names a live network because what
will be decided for was recovered first and is what the host runs (`ReplacementInv`),
which needs that an undo under way is in the journal (`UndoInv`), and a job works from
the journal on disk (`JournalInv`); after the import the journal only cleans up
(`ImportedInv`), so no undo is replayed and the sources go last.  The revision is the
number of decisions and settings (`CountInv`).  `NmInvHolds` and `NmKeepsItsWord`, for
any VLANs, changes, edits, failing commands and deaths, with a plugin that moves,
re-saves and brings back files as it likes.  Until a plan is committed it names what
the document owns and what it creates itself (`PlanInv`): identities carry the number
of their change, so one that is new was never the document's.  What is there, or
would come back at a reload because it has a file, is the port, the document's, once
was, was left by a change that was given up, or is created by the plan at hand
(`HereInv`).  The images say what their files say
(`ImageInv`), so a file that is put back and reloaded does not undo the properties that
were put back before it; with that, recovery leaves each connection behind it as it
was, up to the lines NetworkManager writes itself (`RecoverInv`, on which
`same_profile` depends).

**`ControlProofs`**: `UiInvHolds` and `UiPromisesHold`, for any commits, lost events,
failed fetches, capacity of the bus and fields the others write.  An event on the bus,
in the hub or in the queue names the domains that its revision changed (`PathInv`), so
what a job assembles from single domains is a revision of the device (`SnapInv`); what
was announced is shown, or a lag, a message or a job on the way will show it
(`ToldInv`); a save names a revision whose foreign value the form showed (`SaveInv`,
`FormInv`).  The last is proved for the discovery form, as the property says; the
decoder's does not have it (section 4).  `SesInvHolds` and `SessionsAreCurrent`, for any
clients, addresses, passwords and limits: a session holds the stamp of the record it
was opened under and no password, so the argument is that one password was ever
written with each stamp, whatever a restore or a late write puts in place of the
record (`HistoryInv`, with the history as a bound function), and that a login past
the hash had presented the password it read (`RequestInv`).  `AplInvHolds` and
`ApplierKeepsItsWord`, for any writes, faults and events: what the daemon has read,
next to the reload that is remembered for it (`LoadedInv`), where each step of a
transaction, a rollback or a replay has brought the files, the daemon and the setting
(`PhaseInv`), both as long as nothing that was given up took effect.  `SupInvHolds` and
`SupervisorObeys`, for any outputs, sources and sizes of the two channels: of a source
that somebody chose, the last activity in the channel is such a choice
(`TouchedLast`), or the channel overflowed, or the choice was read and holds its
output with a grace period and no retry (`HeldInv`); and from the last reading of the
sequence to the command that is fenced by it, nobody has chosen the source of the
retry at hand (`SubmitInv`) or changed the mode that a retry of the watchdog was kept
under (`StalledInv`).

**`HostFilesProofs`**: `PfInvHolds` and `PackagePromisesHold`, for any archives, requests
and faults: what was shown to the operator (`ShownInv`), which of the two trees is the
good one at each step of an install (`KeptInv`), that a tree without the mark has had
its hook, or is what a cut off removal left (`WholeInv`).  `BkInvHolds` and
`BackupPromisesHold`, for any values, kept snapshots, restores and faults: what a restore read is what the device has while the
revision is the one it read (`SeenInv`), goes into what is saved (`PrevInv`), and stays
the newest snapshot (`SavedInv`), which pruning keeps (`PrunedKeepsNewest`).
`NrInvHolds` and `RulesPromisesHold`, for any addresses, prefixes and rows: a subnet is
the block of addresses with one quotient (`SubnetIsBlock`), so two blocks that differ
have no address in common (`BlocksDisjoint`).  `NrAssumption` has the sizes of networks
as numbers, because that powers of two are is an induction.  `UpInvHolds` and
`UpdatesKeepTheirWord`, for any versions, jobs and faults: what dpkg unpacked is the
job's (`DpkgInv`), a package that it is past is unpacked or the exit code is a failure
(`UnpackInv`), and every package that a job has got was compared with the one that is
there (`DowngradeInv`); so a success means the version that is written (`VersionInv`).
That the recovery copy comes before the data goes is a fact about the migration's
order (`CopyInv`): past its step there is a whole copy, a report, or a part that a loss
of power had left, which is the exception that the property names; `OriginalsWhole`,
without it, is refuted (section 4).

**`DecoderProofs`**: `RcvInvHolds` and `ReceiverPromisesHold`, for any sources, servers,
commands and refusals of the SDK: while a command destroys or creates an instance the
receive thread is over (`HandleInv`), and the thread's memory is of the connection it
serves (`FrameInv`, `RouteInv`).  `DispInvHolds` and `DisplayPromisesHold`, for any modes,
requests, refusals and lost flips: the kernel is one or two buffers behind the one to be
painted (`RingInv`), a turned plane has an atomic commit coming (`TurnInv`), and what was
decided under the policy's mutex still holds (`MutexInv`).  `VdInvHolds` and
`DelayPromisesHold`, for any queues, delays and memory: no queue is fuller than its room
(`RoomInv`), a limit computed since the last change is today's share (`ShareInv`), and
the frames before one are older (`AgeInv`).  `WkInvHolds` and `WorkerKeepsItsWord`, for
any sources, routes, senders and subscribers: until the operator chooses, the places that
name a source (status, saved and wanted configuration, events, both callers, the
receiver) know nothing of the first route (`Unheard`) or all name it (`Heard`), so that
the configuration made of it finds it in place.  `AuInvHolds` and
`AudioKeepsItsWord`, for any PCM names, faults and failed calls: at each point of the
handover it is known which graphs exist and which of them the thread has or will take
(`AtRestInv`, `WaitingInv`), so the one that is destroyed is in nobody's hands; a source
that is revoked is in none the thread will take, or the thread is over (`RevokedInv`);
and an endpoint that works shares its handle with the next graph or gets one that could
be opened (`AcceptedStays`, `DevInv`), the master that is opened again on purpose apart.
That old samples are not heard is said of version 2 settings.  `FinInvHolds` and
`FinderIsOnAccepted`, for any requests, refusals, rescans, crashes and writes that fail:
while the process runs, the settings in memory and the instance are one, with the SDK
and its file unless the write of that file failed (`SettingInv`), also where a request
is half applied, and the cache is what was acknowledged last, could not be written, or
is of a request whose answer was cut off (`CacheInv`).

Only model-checked: all liveness (the prover has no fairness or ENABLED), and
`BackendFiles`, whose steps fold over files of any content: what such a fold computes is
an induction over data, which the prover cannot do.
No module declares a recursive operator.

## 6. What is not modelled

Types, serialisation, validation of fields other than the network's, rendering of
legacy files, the legacy HTTP interface, release building and developer tools have
no behaviour over time.  The Tessera client encodes requests.  The processor
governor, the display probe and the network test harness are one-shot commands.
Resampling, mixing, colour conversion, HX decoding and DMA buffers are arithmetic or
device I/O.  The backends' syntax (INI, YAML, `interfaces`) is abstracted to the
settings it carries.  Coarser than the code: a failed recovery of `NetEngine` always
restarts the media units, where `engine.rs:1196` leaves them alone if a transfer had
restored the network before (transfers are in `Handoff`, not in `NetEngine`); and
`Supervisor` adopts a routed source in one step, because `remote_source`
(`supervisor.rs:240`) does not await: the reading before it and the submission after it
are the awaits.  In a modelled part, what is left out is named under its module
and in `PROJECT.json`.
