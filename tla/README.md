# TLA+ models of sumo-machine-manager

sumo-machine-manager decides which bank of which component a node boots, relaunches
the guests that run those banks, and hands guests their certificates and keys. It
has to keep doing so through failed writes, lost power, dead processes, lost
answers and requests that overlap. This directory models that machinery in TLA+,
checks it with TLC on small instances, and proves most of its safety properties with
TLAPS for every instance. Paths below are relative to `src/`.

## 1. Inventory

| Component | State it keeps | Operations | Talks to | Hard about it |
|---|---|---|---|---|
| NV record regions (`crates/nv-store/src/store.rs`) | rotating sectors: magic, sequence number, CRC | `read_record`, `write_record` | block device | torn writes, choice of the sector to overwrite, sequence wrap |
| Boot vector store (`boot_record.rs`, `selector.rs` there) | primary and secondary copy, side files `rows`, `committed`, `header`, generation counter | `activate`, `commit`, `rollback`, `record_boot`, `read_*` | boot stage (shares the record), SystemBankManager | several files per verb, Err after an effect, generations issued again |
| SystemBankManager (`machine-mgr/src/system_bank_state.rs`) | current, committed and pending selection, generation, transaction header | `load`, `stage`, `seal`, `commit`, `rollback`, `observe_node_boot` | store, providers, registry | memory against storage, counting boots once, bail-out |
| Node boot observation (`machine-mgr/src/machine.rs`) | none of its own | `observe_node_boot`, `seed_selector` | manager, components | vector first, then each component's NV |
| Node update coordinator (`machine-mgr/src/node_update.rs`) | staging set | `gate_new_session`, `reports` | every component | probes read before the lock is taken |
| Component backend (`component-mgr/src/backend.rs`) | flash session, transfer, running bank, cached administrative state | `start_flash`, uploads, `finalize_flash`, `validate`, `activate`, `ecu_reset`, `get_activation_state`, `commit_flash`, `rollback_flash`, `abort_flash`, disable manifests | provider, NV, coordinator, vm-service | two authorities written one after the other; a witness taken before a call and used after it |
| Bank provider (`bank_provider.rs`, `partition_bank_provider.rs`) | bank directories, seals | `activate`, `commit`, `rollback`, `prepare_target`, reports | NV, manager | global vector verbs for per-component calls |
| OTA bank switch (`ota.rs`) | NV boot state, fw_meta per bank | `install`, `commit`, `rollback` | NV | two records per operation, anti-rollback floor, generation ratchet |
| Node verdict (`component-mgr/src/sovd/routes.rs`) | none | `run_verdict` | every component | fan-out with partial failure |
| Boot stage, vm-boot (`crates/boot`) | NV boot count | `process_boot`, `verify_image`, `handle_hash_failure` | NV, vector | automatic rollback |
| Guest manager (`crates/vm-mgr`, tool `vm-service`) | one `ManagedVm` per guest: handle, bank, expectation, launch identity | start, stop, restart, sweep, health | runner, guest, backend | the manager lock is given up while a guest shuts down |
| Guest devices (`crates/vm-devices`, `vm-wire`) | heartbeat region, power command | heartbeat, shutdown | guest, manager | regions that outlive the process that wrote them |
| vHSM daemon (`crates/vhsm-server`, `services/vhsm-ssd`) | copy of bootstrap.yaml, connections, handle table | HELLO, AUTH, ENROLL, ENROLL_ASSISTED, requests | guests, keystore, secstore | a file with two writers, a lock taken three times per request, restart |
| HSM backend and supervisor (`tools/crates/hsm-sim-backend`, `hsm-supervisor`) | bootstrap.yaml | `arm_enrollment`, respawn | vHSM daemon's file | whole-file replacement by two processes |
| vHSM client (`crates/vhsm-client`) | key, certificate and token on the guest's disk | enrolment, authentication | vHSM daemon | dying between two of the three writes |
| secstore (`crates/secstore`) | key metadata by handle | `store`, `load_all`, `delete` | vHSM daemon | handles allocated anew at start |
| `app-mgr`, `puller`, `log-rotate`, `platform-log`, `policy-eval`, `host-clock`, `host-reboot` | see PROJECT.json | | | retries, rotation at a limit, time floor, deadman |

PROJECT.json lists every component, also the ones that are left out, with the
reason. What makes each modelled part correct:

- **NV regions**: a reader always gets the last acknowledged record, or one an
  interrupted write may have left whole.
- **Boot vector store and manager**: whatever file write fails, what boots and
  what is fallen back to is a whole vector that somebody activated or committed;
  an `Err` leaves the primary alone; the header that `load` interprets is not
  mistaken; a trial nobody judges ends.
- **Node update**: NV and boot vector agree between handlers; nothing that boots
  is overwritten; no component gets stuck; only a bank that has run becomes the
  floor; a finalize that succeeds arms what was uploaded.
- **OTA bank switch and boot stage**: security floor, committed version and
  generation only rise; what boots passes the launch-time checks; trials end.
- **Guest update**: the launch identity names the process that runs; what was
  asked for last is what is; a disabled guest is down; an update is confirmed only
  by a boot of the image just armed; a relaunch comes up.
- **vHSM**: no certificate is out without its record on disk; a token and an arm
  are good for one certificate each; an armed guest ends up enrolled; a handle
  stays with one key; ephemeral keys go with their guest, persistent ones are
  stored when the answer is out.

## 2. Modules

| Module | Models | State and actions against the code |
|---|---|---|
| `NvRegion` | `read_record`, `write_record` | `sector` is a region; `WriteRecord` and `TornWrite` are one call that finishes or loses power; `acked` and `inDoubt` remember what the caller was told |
| `NvRegionProofs` | | proofs about `NvRegion` |
| `BootVector` | what the store promises | two whole vectors, changed by one activation, commit or restore at a time |
| `BootSelector` | `RecordSelectorStore` / `FileSelectorStore` under `SystemBankManager` and the registry's `observe_node_boot` | `primary`, `secondary`, `rows`, `committed`, `header`, `counter` are the durable files; `mgr` is memory; `op.pc` is where a verb stands, one action per durable write, each with its failing form |
| `BootSelectorProofs` | | proofs about `BootSelector` and its refinement of `BootVector` |
| `NodeUpdate` | backend, provider, coordinator gate, verdict fan-out | `nv`, `bank`, `primary`, `secondary` are durable; `flash`, `running`, `pending` are memory; `pc[c]` cuts each handler at the locks it gives up |
| `NodeUpdateProofs` | | proofs about `NodeUpdate` |
| `OtaBank` | `ota.rs`, the seal's generation, the disable that seals the serving bank a generation on, `crates/boot` | `boot`, `meta` are the two NV records, `manifest` the sealed generation; install and commit are two actions each; `disabling` is a disable that awaits its deactivator, then has written its sentinel, then raises NV |
| `OtaBankProofs` | | proofs about `OtaBank` |
| `VmManager` | one guest under vm-service | `vm` is the `ManagedVm`, `guest` the process, `region` the heartbeat left in the shared region; a task in `task` is an HTTP handler that waits without the lock |
| `GuestUpdate` | extends `VmManager` with the backend's `ecu_reset`, `get_activation_state`, disable manifests and the cached administrative state | `reset`, `poll`, `disabling`, `reader` are handlers, cut at each call to vm-service and each lock; a disable's stop, its record and its NV write may each fail, the stop also with only its answer lost |
| `GuestUpdateProofs` | | proofs about `VmManager` and `GuestUpdate` |
| `VhsmEnroll` | enrolment: handshakes, bootstrap.yaml, `arm_enrollment`, the client's files | `file`, `tmp` are on disk, `mem` is the daemon's copy, `conn` the connections, `guest` the client's disk; a save is two steps |
| `VhsmServer` | extends `VhsmEnroll` with the handle table, the secstore and `dispatch_request` | `table`, `next` are memory, `material`, `store` are on disk; a request is three steps, one for each time it takes the table's lock; a restart loads the store or fails to and serves an empty table |
| `VhsmEnrollProofs`, `VhsmServerProofs` | | proofs about enrolment, and about the whole daemon |
| `MC*` | | instances for TLC: symmetry, named sets of nodes, deployments, traffic and faults |

`BootSelector` refines `BootVector` (`VectorSpec`). `NodeUpdate` uses the boot
vector as `BootVector` promises it, with atomic verbs that succeed or change
nothing, and NV records as `NvRegion` promises them; what the lower layers do
beyond that promise is their own module's subject. `OtaBank` gives `NodeUpdate`'s
boot state its floors and generations. `GuestUpdate` takes flash and verdict from
`NodeUpdate`, cut down to what they do to the banks, with NV and vector together.

Kinds of behaviour. `NodeUpdate`'s `node`, `GuestUpdate`'s `traffic` and `deploy`
and the vHSM's `traffic` are chosen in the initial state and never change: which
components are updated and how their new bank comes to run, which requests
clients send, what fails. One run thus covers several kinds, each with its full
interleaving, without the product of all of them. The kinds are named and listed
in the `MC` modules.

Abstractions. Signatures are files that verify or do not; images, keys and
certificates are numbers; vectors map components to a model value. Boot ids are
small numbers. Wording, JSON and logging are gone. The order of writes, every
guard and every early return are kept. `set_reboot_owed`'s NV bit is not modelled.
Its comment says that only the armed boot id is read back (by `nv_rebooted_probe`, the
fallback for nodes without a vector), but the admission of a disable reads the bit as
well and answers Busy while it is set (backend.rs:2403-2408): the models admit a
disable in more states than the code does. In `NodeUpdate` one request per
component is in progress at a time (`pc[c]`); requests of different components
interleave. A wait for a guest ends when it exits or times out, hence at any time.

Faults. `faults` records how many writes failed and, where it matters, which
kinds. Properties that the code keeps only in spite of some faults name the others
in a guard (`Saw`, `Contained`, `RowsKept`, `Parting`, `overlapped`, `spoiled`,
`raced`), so one run covers all faults and the definition itself says where the
promise ends. Section 5 lists those places.

## 3. Runs

| Run | Instance | Checks |
|---|---|---|
| `nv_region` | 2 sectors (boot, factory, app, vehicle and session regions), 3 records, 7 writes | `RotationInv`, `PowerLossSafe` |
| `file_vector` | file store, 2 components, 2 seals, 2 faults that leave no trace | `MemoryMatchesStore`, `TrialIsActivated`, refinement `VectorSpec` |
| `record_store` | record with side files and a counter, one component in each part, 2 seals, any 2 faults | `HeaderAboveMeansBootStage`, `EachBootCountsOnce` without any guard; six more with theirs |
| `trial_settles` | the same, 1 seal, fair | `TrialSettles` |
| `node_update` | campaigns over a node-reset component and a guest; one component of either kind with every request in any order; a flash within a node verdict over two; 3 uploads, any 2 faults | `VectorBootable`, `NvFollowsVector`, `NoneStuck`, `FloorHasRun`, `FinalizeArms` |
| `component_rollback` | two guests, verdicts on a component's own route | `VectorBootable` violated |
| `guest_update` | 2 requests at vm-service, shared memory and HTTP, 3 launches, 2 images, 2 resets, 2 disables, nine kinds of traffic, fair | `IdentityNamesGuest`, `IntentEnactedUnlessOverlapped`, `DisabledIsDown`, `CacheFresh`, `ActivationIsFreshUnlessLeft`, `RelaunchComesUp` |
| `stale_heartbeat` | the same with a stop before the reset | `ActivationIsFresh` violated |
| `ota_bank` | a banked set that can be disabled and one in place, 2 security versions, 3 generations, trial limit 2, fair | two ratchets, `LaunchVerifies`, `TrialEnds` |
| `vhsm` | 2 guests, 2 connections, 1 arm each, 2 certificates each, 1 fault, 1 restart, 2 handles, 2 keys, seven kinds of traffic, fair | `SpentOnDisk`, `ArmUsedOnce`, `NewEntryNamesItsKey`, `EphemeralHasConnection`, `PersistentStoredUnlessRaced`, `ArmedEnrolsUnlessSpoiled` |
| `arm_lost` | one guest with a token, both armed | `ArmedEnrols` violated |
| `handle_restart` | keys and a restart | `EntryNamesItsKey` violated |

Each module's `TypeOK` is checked by one of its runs.

Bounds. Two faults are enough for a failure and the failure of its undo, or for
a lost write and a power loss after it; every counterexample met needed at most
two. Two seals let a trial be given up and a new one armed over its leftovers,
which is what generations are for. A trial limit of 2 with 4 boot ids has boots
below, at and above the limit; the count saturates at `MaxTrialBoots` in place of
`u8::MAX`. In `node_update` `MaxImages` 3 lets both components be updated and one
of them again. Two versions and three generations let a floor rise, a version be
refused, and a disable fall before, between and after two installs. Sequence numbers stay below the modulus, as in the code (2^32
writes). In `guest_update` three launches are a first guest, its relaunch and one
more that overlaps; a second disable finds what a failed one left, and a cached
answer to the first; two requests in progress are what the lock given up in between
is about, and the backend's own handlers come on top. In `vhsm` two guests and two
connections give one guest two sessions or two guests one each; two certificates
are one for the token and one for the arm; two handles with two keys and a failed
generation reach the table's limit, and a restart finds both kinds of entry, or
fails to load them.

Deadlock is checked except in `nv_region`, where the writes run out, and in
`guest_update`, `stale_heartbeat`, `vhsm`, `arm_lost` and `handle_restart`: a
guest that is down, or a daemon that nobody asks anything, may stay so.

Fairness. `BootSelector`: weak fairness of the start-up sequence and of a verb's
next write (straight-line code of one process), strong fairness of `Reset` (the
trial boot limit is for nodes that keep being restarted). `OtaBank`: weak
fairness of `Reset` and of `ProcessBoot`, which runs first in every boot.
`GuestUpdate`: weak fairness of a request vm-service has accepted (a spawned task
that nothing cancels) and of a launched guest's boot, which it may also die before;
`RelaunchComesUp` counts that as an outcome. vHSM: weak fairness of a save,
of the client's own writes and of the end of a session; strong fairness of a
guest's connecting and asking again (auth.rs:363: "so the guest will retry"), as
connections come and go between its tries. No fairness is assumed of clients,
verdicts, polls, arms or the boot stage's rollback. In `trial_settles` the faults
after which a trial is no longer counted are left out: a lost header (documented as
such in ARCHITECTURE.md) and a cut rollback.

## 4. Proofs

`NvRegionProofs`, for any number of sectors of at least two and any records,
assuming (`Bounded`) that sequence numbers do not wrap and fewer writes in a row
are torn than there are sectors:

- `RotationCorrect`: `RotationInv` is invariant. It says that headers are
  distinct, that the acknowledged record sits in a valid sector, and that only
  torn sectors lie above it, one per torn write of the current run. The last part
  is what makes it inductive: a torn sector counts as newest for the next write,
  so the oldest header is the acknowledged sector only when every other one is
  torn, and the bound excludes that. The step uses a pigeonhole argument over the
  sectors above the acknowledged one.
- `PowerLossSafety`: hence a read answers the acknowledged record or one in doubt.

`OtaBankProofs`, for any bank sets, versions, trial limit and generation bound:

- `Invariance`: the inductive invariant `IInv`. The ratchets are not inductive: a
  bank that is not committed yet may become so. `IInv` says of every set that a
  trial bank's version and floor are at or above the committed floor and that the
  committed floor covers the committed image (`Secure`), and of every set that was
  never flashed during its own disable (`Numbered`): a trial bank's record and
  manifest are one generation on (`TrialAhead`), a staged package is already sealed
  for the generation install will write (`SealedAhead`), the committed bank's
  manifest is of its record's generation unless a disable was cut short
  (`CommittedOwn`), and a disable under way is about the committed bank at the
  generation it read (`DisableSound`). Between install's two writes the target
  already is so (`InstallInv`); between commit's the floor covers the image
  (`CommitInv`).
- `SecurityNeverFalls`, `GenerationRises` (action properties) and
  `LaunchVerified` follow from one step lemma, `InvStep`, with a lemma for each
  thing that can happen to a set: framed, sealed, installing, installed, raised,
  committed, rolled back, and a disable admitted, its sentinel written, NV raised
  to it.
- `TypeCorrect`: so is `TypeOK`.

`BootSelectorProofs`, for both kinds of record, any components and any split of
them between record and manager rows, any bounds and every set of faults unless a
hypothesis says otherwise. The invariants build on each other:

- `OrderInv` (with `TypeOK`): the order of generations in record, side files,
  header and counter (`RecordOrder`); what a verb between two writes knows of the
  record (`VerbKnows`); a header above the primary is of an ended trial
  (`HeaderPlaced`). It gives `TypeCorrect` and `HeaderAboveIsEnded`.
- `MemoryInv`: what memory and the verb in progress have of the record while no
  fault has parted them (`Contained`). It gives `ErrKeepsPrimary`.
- `FloorInv` (`FloorHeld`, `RowsHeld`, `CurrentRead`): where the floor's rows are
  in the middle of each verb, while `RowsKept`. It gives `FloorKept`,
  `FloorBoots` and `MemoryIsStore`.
- `JoinInv`: on top of it, which components differ from the floor in memory, in
  the pending selection and on disk. It gives `TrialActivated`, under the
  hypothesis `SealsSucceed`, which the faults of the `file_vector` run satisfy: a
  failed seal's staging is taken along by the next one (section 5, item 11).
- `SealInv`: with a counter record, any two of primary, secondary, header and side
  files that carry the same generation carry the same seal, and none is above the
  counter, which makes this inductive. It gives `RowsTied` and `HeaderTied`.
- `CountInv` and, on it, `DueInv`: which header and which memory may hold a count
  of the standing trial, how it compares with the boots since it was armed, and
  that a trial at its limit is found so by every load. They give `BootsCountOnce`
  and `BailOutIsRetried`.
- `VectorRefined`: a file store (`RoutesEverything`) whose faults leave no trace
  (`Traceless`) implements `BootVector`. Every step of `BootSelector` is an
  activation, a commit or a restore of `BootVector` or leaves both reads as they
  are, by `FloorInv`.

`NodeUpdateProofs`, for any components, kinds of node, images and faults:

- `TypeCorrect`.
- `VectorStaysBootable`: `VectorBootable`, where every kind of node updates one
  component at most, by any requests, or several by campaigns (`OnlyOrScripted`).
  The nodes of the `node_update` run are such; on others the property fails
  (`component_rollback`). The inductive invariant `HeldInv` says of each
  component: a transfer without a package implies that both copies name NV's bank
  (so the upload's target is named by neither, `OpenOf`); in an NV trial the floor
  is the other bank (`TrialOf`), and an install cannot begin a trial of the
  floor's bank (`PackageOf`); a handler about to wipe has both copies on NV's bank
  (`HandlerOf`); a component whose rollback is still to come in a fan-out, which
  has already restored the vector, keeps its floor in the other bank (`TurnOf`).
  The last and the disjuncts with `~Only` are there because a vector verb of one
  component moves all the others.
- `NothingStuck`: `NoneStuck`, where every kind of node updates one component at
  most, by any requests, or several by campaigns, a flash within a verdict included
  (`OnlyOrCampaign`, which the nodes of the run satisfy). While the property's guard
  holds (`Firm`), `SoundInv` says of each component (`SoundOf`): committed in NV, the
  primary names NV's bank and so does the floor, unless its commit is between the
  two writes; and an NV trial that finalize is about to undo is one that both copies
  are out of (`Back`). The floor is part of it because the boot stage, a bail-out or
  a sibling's rollback may make it the primary at any time. One component needs no
  more than `HeldInv` and that a transfer not yet finalized is of a component out of
  trial (`FreshInv`). With several, a sibling's verdict must not end a trial between
  install and activation. `OrderlyInv` says of campaigns that a trial keeps its
  transfer until the reset, that there is no transfer while a verdict is fanned out
  or a rebooted trial stands, and that what a commit finds in trial runs; it holds
  whatever dies in a verdict. `CampaignOf` adds, for fan-outs that are not cut, that
  a commit has everything in trial on its list.
- `NvFollows`: `NvFollowsVector` on the same nodes. On top of `SoundInv`, `RestInv`:
  while nothing has parted them (`Clean`), a component at rest whose NV is in trial
  is in trial in the vector, or its turn in a fan-out that has already moved the
  vector is still to come. `HeldInv` is used for what differs between the copies
  (two different banks), and `Components` is finite for what `Cardinality` counts.
- `FinalizeArmsUpload` (action property): `FinalizeArms` on the same nodes. `ArmInv`:
  a package is in the bank that an upload goes to, which install and its undo keep
  (`Landing`), and a finalize past its install has NV in trial. The upload goes to
  that bank because an open transfer is of a component committed in NV
  (`UploadLands`, from `HeldInv` and, with several components, `CampaignOf`).
- `FloorRuns` (action property): `FloorHasRun`, where every kind of node updates one
  component at most, by any requests, or several by campaigns over a boot vector
  whose writes do not fail (`OnlyOrSealed`). A component between the two writes of
  its commit runs what boots, as the NV lock is kept (`RunsOf`); one that is not
  updated is never in trial nor staged to be (`Untouched`); of the others in trial
  `OrderlyInv` says it. With several components and failed seals or vector commits,
  which `HeldInv` leaves out, the property is TLC's (the first node of the run); there
  it sets aside a seal that fails together with the undo of its install.

`GuestUpdateProofs`, for any finite set of tasks, any deployments, traffic and
bounds:

- `TypeCorrect`, whose invariant `Types` refines `TypeOK` by the types of tasks,
  handlers and processes, and `IdentityKept`, which is inductive with it.
- `CacheKeptFresh`: a reader whose epoch is still current holds what the record
  has (`ReaderFresh`), unless the record is one that NV does not name: between a
  disable's two writes, or after the second failed.
- `IntentKept` and `DisabledKeptDown`: while no two requests overlapped, at most
  one task is at work, a stop keeps the guest expected down, and a restart past its
  stop finds it down (`Serial`); a disable past its stop has the guest down
  (`Down`).
- `ActivationFresh` (action property): `AttemptInv` follows the witness from the
  query before the relaunch (`ResetBankHeld`, `Witnessed`), over the relaunch
  (`RelaunchHeld`) and the heartbeat region (`RegionHeld`), to the poll that
  confirms (`PollHeld`).

`VhsmEnrollProofs` and `VhsmServerProofs`, for any guests, connections, handles,
keys and bounds. The first proves the steps of enrolment, the second the whole
daemon's specification, whose other steps leave enrolment alone:

- `TypeCorrect`; `CertificateRecorded` by `SpentInv` (a saver holds the record of
  what it will send; memory agrees with the file about all guests but those whose
  save is under way or failed); `ArmsUsedOnce` by `ArmInv`, which counts the
  certificates sent plus the credit left in file, memory and savers.
- `NewEntryKeepsItsKey`, `EphemeralReleased` and `PersistentStored` by `TableInv`:
  handles in the table rise and are below the next one (`HandlesAscend`), no two
  new entries have the same key (`KeysDistinct`), and a request that nothing came
  into finds the table as it left it, its own entry last (`RequestAlone`). A restart
  makes every entry a loaded one or leaves none.

All these invariants were first checked by TLC as invariants of the instances in
section 3 or wider ones: `BootSelector`'s with every fault on three instances of
up to 4.4 million states, `HeldInv` on 5.2 million (two components with single
resets and overlapping flashes, one with everything), `SoundInv` and `RestInv` on
1.8 million of two components and 8 million of one (for that one without reaching
the end), `OrderlyInv`, `ArmInv` and `RunsInv` to the end on 0.5 million of two, 1.7
million of three components and 2.8 million of one, those of `GuestUpdate` on the run's instance and, for `AttemptInv`, on
further kinds of traffic.

Only model-checked: all liveness (`TrialSettles`, `TrialEnds`, `RelaunchComesUp`,
`ArmedEnrolsUnlessSpoiled`), as the prover does not do fairness. The four violated
properties are TLC's as well.

## 5. What the guards leave out

The places where the code does less than a comment or document says, found while
modelling.

With a run that shows them:

1. A verdict on one component's route acts on the whole vector; the sibling's own
   rollback then wipes what boots (`component_rollback`). backend.rs:6247-6252.
2. A guest that was force-stopped leaves its heartbeat in a region that persists.
   The next reset finds the guest down, keeps no boot id, and takes the old
   heartbeat for the new image's first boot (`stale_heartbeat`).
   backend.rs:6717-6733: "not stale shmem from the previous one".
3. The daemon saves the whole of its copy of bootstrap.yaml, and reads the file
   again on a miss only: another guest's enrolment erases an arm written since
   (`arm_lost`). hsm-sim-backend/src/sim.rs:754-757: "no daemon restart needed".
4. After a restart stored entries are numbered anew from the first dynamic
   handle, while key files stay named for the old one: an entry is used with
   another key (`handle_restart`). secstore/src/lib.rs:12-14.

Boot vector and NV, where a definition names the case:

5. Two torn writes in a row lose a two-sector record (`MaxTornRun`, `Bounded` in
   the proofs). `write_record` chooses by magic and sequence number and does not
   look at the CRC. specs/nv-store-format.md:58: "a failed write leaves the
   previous sector intact".
6. A bail-out whose record write fails is not retried: `rollback` has already
   replaced the trial's header (`BailOutRetriedUnlessCut`). machine.rs:281-283: "a
   failed boot-vector rollback logs and is retried on the next boot".
7. NV committed, vector not, then bail-out: the component is refused by every
   verb ("commit_vector" in `NoneStuck`). ARCHITECTURE.md:488-492: "the gap closes
   on its own".
8. A failed `rows` write with a trial standing returns `Err` with the record
   moved (`Contained`). selector.rs:411: "an `Err` means the primary is
   unchanged".
9. A commit whose `committed` write fails or loses power has moved the record;
   after a power loss nothing retries, and the next seal replaces the only copy
   of the rows (`Contained`, `RowsKept`). boot_record.rs:207-209: "the retry is
   idempotent"; system_bank_state.rs:281-282: "`Err` with the floor untouched".
10. A record without a counter issues a generation again, and side files or the
    header of the ended trial pass for the new one's (`CounterRecord` in
    `RowsOfTheirSeal`, `HeaderOfItsTrial`). boot_record.rs:184: "tied to the
    record by generation".
11. The staging of a failed seal survives and is sealed by a sibling's next
    activation (`TrialIsActivated` without failed activations, "seal" in
    `VectorBootable`). bank_provider.rs:1085-1088.

Node update:

12. Committing a component promotes the sibling's row as well, also one that never
    ran, when a single component was reset (bank_provider.rs:1106-1110 admits it
    for more than one component in trial). Campaigns reset the node, so
    `FloorHasRun` is checked there and for one component. A process that dies
    before the reset forgets the transfers, and the same follows for a guest and
    a node-reset component ("die_finalize" in `FloorHasRun` and `FinalizeArms`,
    where it takes three components); the latter's NV stays in trial, and when the activator
    of its next finalize fails, the undo leaves it stuck (the last case that
    `NoneStuck` leaves out; it takes three components).
13. A flash admitted while a node verdict is fanned out: the first component's
    verb has ended the vector's trial, so the gate finds none, and the next
    component's commit promotes the bank just armed, which has not run
    (`WithinVerdict`).
14. A failed NV install is only logged; finalize activates the running bank and
    reports success ("install" in `FinalizeArms`).
    backend.rs:5498-5501. Called again over an armed bank, also by way of
    `validate`, a finalize whose activator fails undoes the standing install
    (`Refinalized`).
15. `flash_is_finalized` does not know `Verifying`, so an abort after a single
    component's reset drops an armed transfer. backend.rs:6313-6317.
16. The boot stage restores the vector's floor and NV is not told
    ("boot_stage" in `Parting`). bank_provider.rs:780-782: "until the reboot
    reconverges the two".
17. In a fan-out, the first success commits the whole vector; a component whose
    NV commit failed is no candidate of the retry ("commit_nv" in `Parting`).
    ARCHITECTURE.md:486-487: "A commit is safe to retry".
18. ARCHITECTURE.md:487-488 has a rollback write NV first; the code writes the
    vector first (bank_provider.rs:1192), which is what is modelled.
19. The legacy branch of `start_flash` that looks for a verified package
    (backend.rs:5015 on) is unreachable: the packages were cleared before. Its
    CRL path, which raises the floor of the running bank, is not modelled.
20. After a failed seal finalize undoes the install and drops the undo's own error
    (backend.rs:5559). NV is then in a trial that nothing armed; with several
    components the staging left behind is sealed by a sibling and committed before
    it has run ("undo_install" in `Parting` and `FloorHasRun`).
21. A disable reads the serving bank and its generation, and awaits its deactivator
    before it writes them back raised; nothing refuses a flash of the same component
    meanwhile. The committed generation can then fall, and a bank sealed during the
    await fails its launch check (`overlapped` in `OtaBank`).
22. Power lost, or an error, after a disable's sentinel and before NV is raised to
    it: the launch gate refuses the bank while the component reads as enabled. A
    complete disable, or a flash, repairs it (`unpinned` in `LaunchVerifies`).

Guests and vHSM:

23. Two requests at once: `finalize_stop` kills whatever process the handle names
    by then, also one a restart has just launched; and a relaunch between a
    disable's stop and its record leaves a disabled guest running (`overlapped`).
24. After a failed save the enrolment stays in memory, and another guest's save
    writes it out without its certificate (`unsaved`). auth.rs:361-365: "the
    (still-fresh) on-disk record lets the guest enroll cleanly next time".
25. Both writers of bootstrap.yaml use the same temporary name: one may publish
    the other's content or find its own gone ("tmp" in `Spoils`).
26. A client that dies, or loses the answer, after the record is written and
    before key and certificate are both on its disk has spent its token or arm
    ("cut"); only another arm helps.
27. `dispatch_request` persists the last entry of the table if the table grew. A
    request of another connection in between makes that another entry, or hides
    the growth: a persistent key is answered and not stored (`raced`,
    serve.rs:50-62).
28. A key generation that fails leaves its entry in the table, at the cost of a
    handle (`NoKey` entries).
29. The end of one connection drops the ephemeral handles of the guest's other
    connections too (`Kept`). vhsm-ssd/src/main.rs:941: "owned by this
    connection".
30. handle_table.rs:142-143 says persistent means "survives reconnect", not
    "survives reboot"; vhsm-ssd does reload persistent entries at start (item 4).
31. A second disable whose record is written and whose NV write fails, or whose
    record is torn, leaves a record that does not verify; an answer cached before
    still says disabled until NV is written next ("unpinned" in `CacheFresh`).
32. One entry of the store that cannot be read makes `load_all` fail; the daemon
    warns, serves an empty table and numbers new keys from the first handle, over
    the files and entries of the keys it did not load (`LoadFails`).
    vhsm-ssd/src/main.rs:516-518.

## 6. Plan

Modelled, checked and, but for the properties that section 4 lists as only
model-checked, proved: NV regions, boot vector store and manager, node boot
observation, flash lifecycle, verdicts, OTA bank switch and boot stage, guests and
their relaunch, disable and enable, vHSM enrolment and handles.

Proofs to come: `FloorHasRun` for campaigns whose seals or vector commits fail, which
needs `HeldInv` without its guard `Trusted`: what a staging left behind may name.

Models that would come after it: `FlashSession`, the upload session of the
backend (manifest, payloads, reconcile of what is already there), composed with
`OtaBank`; `Coordinator`, the gate as two steps with the probes read outside the
lock; seeding and the partition provider; `puller`, `log-rotate`, `platform-log`;
`policy-eval` as a pure operator against a reference definition; the safe time
floor of `host-clock` and the deadman of `host-reboot`. New questions are asked by
widening the kinds of an existing run where that is possible, so that the runs
stay few enough to be read.

## 7. Not modelled

- Cryptography and signatures (files verify or not), the wire formats and HTTP
  routes other than verdicts and vm-service's, DIDs and identity, logging bridges,
  metrics, build tools, and the start-up wiring of the processes.
- NV: the wrap of the sequence number after 2^32 writes, and a sector that cannot
  be read during the scan of `write_record`.
- Coordinator: `gate_new_session` reads its probes before it takes the staging
  lock. The model takes the two as one step, so a session admitted on facts that
  changed in between is not covered.
- vHSM: the expiry of arms (`commit_flash` arms without a TTL), `clear_enrolled`,
  a re-provisioned ECU signing key against its cached public half, the evaluation
  of the IAM policy (a request is allowed or not), the well-known handles (which
  never change), and the cross-node listener, which serves the same dispatch. A
  save's create, write and sync of the temporary file are one step: that one writer
  publishes the other's empty or half-written file, or goes on writing to a file the
  other has renamed into place, would need the files' inodes, and belongs to the
  "tmp" case that every passing property sets aside.
- Guests: runners and their devices beyond heartbeat and power command, several
  guests (they share the lock and nothing else that is modelled), and logs. A stop
  that vm-service gives up because its client went away: the deactivator waits longer
  than the stop may take.
- Disable: the reboot-owed bit (section 2) and the provider's `pending_reboot` in its
  admission, which only refuse more, and deactivators that owe a node reset (the RT
  one), which set that bit. One disable of a component is under way at a time.
- Behaviour of host repositories that call into these crates is out of reach.
