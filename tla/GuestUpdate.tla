---------------------------- MODULE GuestUpdate ----------------------------
(***************************************************************************)
(* How a guest comes to run a new bank, and how it is kept from running:   *)
(* ComponentBackend (crates/component-mgr/src/backend.rs) over the         *)
(* vm-service of module VmManager.  ecu_reset takes a witness of the guest *)
(* as it is, asks for a relaunch on NV's bank and waits for another boot;  *)
(* get_activation_state polls for it.  A disable manifest stops the guest, *)
(* then makes its bank's signed record a sentinel that every start reads.  *)
(* Every call to vm-service is a message, so each handler is cut there.    *)
(*                                                                         *)
(* Here NV and the boot vector move together (module NodeUpdate has what   *)
(* parts them), so the serving bank is NV's.                               *)
(***************************************************************************)
EXTENDS VmManager

CONSTANTS MaxImages,  \* bound: images flashed
          MaxResets,  \* bound: calls of ecu_reset
          MaxDisables \* bound: disable manifests

\* Of the backend's clients: update (flash, reset, poll, verdict), disable and
\* read (of the administrative state).  Of its faults: lost (a call to
\* vm-service that fails, before or after it took effect) and record_fault (a
\* write of a disable that fails).
ASSUME TrafficsAssumption ==
    Traffics \subseteq
        SUBSET (VmTraffic \cup {"update", "disable", "read", "lost", "record_fault"})
ASSUME UpdateBoundsAssumption == 
    MaxImages \in Nat /\ MaxResets \in Nat /\ MaxDisables \in Nat

VARIABLES transfer,   \* the flash transfer
          running,    \* the bank the backend believes the guest runs
          reset,      \* ecu_reset in progress
          poll,       \* get_activation_state in progress
          disabling,  \* enact_disable_manifest, or the stop after a rollback
          cache,      \* admin_disabled_cache
          reader,     \* admin_disabled in progress, past a miss
          images,     \* images flashed so far
          disables,   \* disable manifests so far
          overlapped  \* requests overlapped (history, see Overlap)

updateVars == <<transfer, running, reset, poll, images>>
disableVars == <<disabling, disables>>
cacheVars == <<cache, reader>>
vars == <<traffic, deploy, vmVars, disk, updateVars, disableVars, cacheVars, overlapped>>

NotRunning == 0     \* PreResetHealth::NotRunning; Running is a boot id
NoTransfer == [id |-> 0, state |-> "none", baseline |-> NotRunning]
NoReset == [pc |-> "idle", baseline |-> NotRunning, bank |-> NoBank, n |-> 0]
ResetEnds == [NoReset EXCEPT !.n = reset.n]
NoPoll == [id |-> 0, baseline |-> NotRunning, boot |-> 0]
NoDisabling == [pc |-> "idle", kind |-> "none", task |-> {}]
NoReader == [pc |-> "idle", epoch |-> 0, bank |-> NoBank, value |-> FALSE]
NoValue == [bank |-> NoBank, disabled |-> FALSE]

\* admin_disabled, as it is derived.
Disabled(b) == disk.record[b] = "sentinel"

\* Dropping an nv_write guard clears the derived caches.
NvWritten == cache' = [epoch |-> cache.epoch + 1, value |-> NoValue]

InProgress == {t \in Tasks : task[t] # NoTask}

\* What lets a request take another's guest for its own: two at once; a boot
\* between a reset's witness and the end of the guest witnessed; a flash
\* within a reset; a relaunch during a disable.
Overlap ==
    \/ Cardinality(InProgress') > 1
    \/ /\ boots' # boots
       /\ reset.pc \in {"read", "notify"} \/ \E t \in Tasks : task[t].pc = "finalize"
    \/ reset.pc # "idle" /\ images' # images
    \/ disabling'.pc # "idle" /\ (guest'.pid # guest.pid
                                   \/ \E t \in InProgress' : task'[t].kind = "restart")

\* The conjunct of every step that keeps the history.
Track == overlapped' = (overlapped \/ Overlap) /\ UNCHANGED <<traffic, deploy>>

----------------------------------------------------------------------------
(* Flash and verdict, cut down to what they do to the banks.               *)

\* finalize_flash: the image in the other bank is armed.
Arm ==
    /\ "update" \in traffic
    /\ disk.committed /\ images <= MaxImages
    /\ disabling = NoDisabling
    /\ LET b == Other(disk.active)
       IN  disk' = [disk EXCEPT !.image[b] = images + 1, !.record[b] = "firmware",
                                !.active = b, !.committed = FALSE]
    /\ images' = images + 1
    /\ transfer' = [id |-> images + 1, state |-> "awaiting_reboot", baseline |-> NotRunning]
    /\ NvWritten
    /\ UNCHANGED <<vmVars, running, reset, poll, disableVars, reader>>
    /\ Track

\* commit_flash, past preflight_commit.
Commit ==
    /\ "update" \in traffic
    /\ ~disk.committed
    /\ transfer.state # "awaiting_reboot" /\ running = disk.active
    /\ disk' = [disk EXCEPT !.committed = TRUE]
    /\ transfer' = NoTransfer
    /\ NvWritten
    /\ UNCHANGED <<vmVars, running, reset, poll, images, disableVars, reader>>
    /\ Track

\* rollback_flash: the trial bank is wiped; landing on a disabled bank stops
\* the guest.
Rollback ==
    /\ "update" \in traffic
    /\ ~disk.committed /\ disabling = NoDisabling
    /\ disk' = [disk EXCEPT !.image[disk.active] = NoImage, !.record[disk.active] = "none",
                            !.active = Other(disk.active), !.committed = TRUE]
    /\ IF Disabled(Other(disk.active))
       THEN /\ disabling' = [NoDisabling EXCEPT !.pc = "stop", !.kind = "rollback"]
            /\ UNCHANGED transfer
       ELSE transfer' = NoTransfer /\ UNCHANGED disabling
    /\ NvWritten
    /\ UNCHANGED <<vmVars, running, reset, poll, images, disables, reader>>
    /\ Track

----------------------------------------------------------------------------
(* ecu_reset and get_activation_state.                                     *)

\* query_vm_health_state has an answer: down, or the heartbeat's boot id.
Answers == ~IsRunning \/ region # NoBeat
BootId == IF IsRunning THEN region.boot ELSE NotRunning

\* A disabled component is not relaunched; a guest without a heartbeat yet
\* leaves nothing to compare with, and the reset fails.  (Without a transfer
\* this is a restart like any other.)
ResetQuery ==
    /\ "update" \in traffic
    /\ reset.pc = "idle" /\ reset.n < MaxResets /\ transfer # NoTransfer
    /\ ~Disabled(disk.active)
    /\ Answers
    /\ reset' = [pc |-> "read", baseline |-> BootId, bank |-> NoBank, n |-> reset.n + 1]
    /\ vm' = Observed(vm)
    /\ UNCHANGED <<guest, region, boots, task, disk, transfer, running, poll, images,
                   disableVars, cacheVars>>
    /\ Track

ResetRead ==
    /\ reset.pc = "read"
    /\ reset' = [reset EXCEPT !.pc = "notify", !.bank = disk.active]
    /\ UNCHANGED <<vmVars, disk, transfer, running, poll, images, disableVars, cacheVars>>
    /\ Track

\* notify_vm_service: 200 once the recycle is queued.  The request may be
\* refused by the gate, or take effect and its answer be lost.
ResetNotify(t) ==
    /\ reset.pc = "notify"
    /\ EnsureVmRunning(t, reset.bank)
    /\ \/ reset' = [reset EXCEPT !.pc = "verify"]
       \/ "lost" \in traffic /\ reset' = ResetEnds
    /\ UNCHANGED <<disk, transfer, running, poll, images, disableVars, cacheVars>>
    /\ Track

ResetRefused ==
    /\ reset.pc = "notify" /\ ~Gate
    /\ reset' = ResetEnds
    /\ UNCHANGED <<vmVars, disk, transfer, running, poll, images, disableVars, cacheVars>>
    /\ Track

\* Whatever transfer there is by now awaits another boot than the baseline's.
ResetVerify ==
    /\ reset.pc = "verify"
    /\ transfer' = IF transfer = NoTransfer THEN transfer
                   ELSE [transfer EXCEPT !.state = "verifying", !.baseline = reset.baseline]
    /\ reset' = ResetEnds
    /\ UNCHANGED <<vmVars, disk, running, poll, images, disableVars, cacheVars>>
    /\ Track

\* Mutant of IsFresh: any running guest will do.
IsFreshAny == IsRunning /\ region.state = "running"

\* The guest reports itself running, from another boot than the baseline's.
IsFresh ==
    /\ IsRunning /\ region.state = "running"
    /\ transfer.baseline = NotRunning \/ region.boot # transfer.baseline

PollQuery ==
    /\ "update" \in traffic
    /\ poll = NoPoll /\ transfer.state = "verifying"
    /\ IsFresh
    /\ poll' = [id |-> transfer.id, baseline |-> transfer.baseline, boot |-> region.boot]
    /\ UNCHANGED <<vmVars, disk, transfer, running, reset, images, disableVars, cacheVars>>
    /\ Track

\* The transfer is still the one polled for, in the same state.
Unmoved ==
    /\ transfer.id = poll.id /\ transfer.state = "verifying"
    /\ transfer.baseline = poll.baseline

PollRecord ==
    /\ poll # NoPoll
    /\ poll' = NoPoll
    /\ IF Unmoved
       THEN /\ running' = disk.active
            /\ transfer' = [transfer EXCEPT !.state = "activated", !.baseline = NotRunning]
       ELSE UNCHANGED <<running, transfer>>
    /\ UNCHANGED <<vmVars, disk, reset, images, disableVars, cacheVars>>
    /\ Track

----------------------------------------------------------------------------
(* enact_disable_manifest.                                                 *)

\* Idle only.
DisableAdmit ==
    /\ "disable" \in traffic
    /\ disabling = NoDisabling /\ disables < MaxDisables
    /\ disk.committed
    /\ disables' = disables + 1
    /\ disabling' = [NoDisabling EXCEPT !.pc = "stop", !.kind = "disable"]
    /\ UNCHANGED <<vmVars, disk, updateVars, cacheVars>>
    /\ Track

\* VmDeactivator: POST stop, whose answer comes when the guest is down...
DisableStop(t) ==
    /\ disabling.pc = "stop"
    /\ StopVm(t)
    /\ disabling' = [disabling EXCEPT !.pc = "wait", !.task = {t}]
    /\ UNCHANGED <<disk, disables, updateVars, cacheVars>>
    /\ Track

\* The answer to that stop, and after a rollback the last of it.
Stopped ==
    IF disabling.kind = "rollback"
    THEN disabling' = NoDisabling /\ transfer' = NoTransfer
    ELSE disabling' = [disabling EXCEPT !.pc = "record", !.task = {}] /\ UNCHANGED transfer

DisableStopped ==
    /\ disabling.pc = "wait"
    /\ \A t \in disabling.task : task[t] = NoTask
    /\ Stopped
    /\ UNCHANGED <<vmVars, disk, disables, running, reset, poll, images, cacheVars>>
    /\ Track

\* Mutant of DisableNotRunning: any answer of vm-service will do.
DisableNotRunningAny ==
    /\ disabling.pc = "stop"
    /\ Stopped
    /\ UNCHANGED <<vmVars, disk, disables, running, reset, poll, images, cacheVars>>
    /\ Track

\* ...or 409 at once: nothing runs, which is as good.
DisableNotRunning ==
    /\ disabling.pc = "stop" /\ ~vm.handle
    /\ Stopped
    /\ UNCHANGED <<vmVars, disk, disables, running, reset, poll, images, cacheVars>>
    /\ Track

\* The stop failed, or its answer was lost and it goes on: nothing is
\* persisted, a rollback only logs it.
DisableFails ==
    /\ disabling.pc \in {"stop", "wait"} /\ "lost" \in traffic
    /\ disabling' = NoDisabling
    /\ transfer' = IF disabling.kind = "rollback" THEN NoTransfer ELSE transfer
    /\ UNCHANGED <<vmVars, disk, disables, running, reset, poll, images, cacheVars>>
    /\ Track

\* write_disabled_record, at the generation NV does not name yet...
DisableRecord ==
    /\ disabling.pc = "record"
    /\ disk' = [disk EXCEPT !.record[disk.active] = "unpinned"]
    /\ disabling' = [disabling EXCEPT !.pc = "ratchet"]
    /\ UNCHANGED <<vmVars, disables, updateVars, cacheVars>>
    /\ Track

\* ...which fails before it wrote anything, or between its two files...
DisableRecordFails ==
    /\ disabling.pc = "record" /\ "record_fault" \in traffic
    /\ disk' \in {disk, [disk EXCEPT !.record[disk.active] = "unpinned"]}
    /\ disabling' = NoDisabling
    /\ UNCHANGED <<vmVars, disables, updateVars, cacheVars>>
    /\ Track

\* ...and NV's generation after it.
DisableRatchet ==
    /\ disabling.pc = "ratchet"
    /\ disk' = [disk EXCEPT !.record[disk.active] = "sentinel"]
    /\ disabling' = NoDisabling
    /\ NvWritten
    /\ UNCHANGED <<vmVars, disables, updateVars, reader>>
    /\ Track

\* NV refuses: the guard is dropped all the same, and the record stays ahead.
DisableRatchetFails ==
    /\ disabling.pc = "ratchet" /\ "record_fault" \in traffic
    /\ disabling' = NoDisabling
    /\ NvWritten
    /\ UNCHANGED <<vmVars, disk, disables, updateVars, reader>>
    /\ Track

----------------------------------------------------------------------------
(* admin_disabled: cached per serving bank.                                *)

ReaderMiss ==
    /\ "read" \in traffic /\ reader = NoReader
    /\ cache.value.bank # disk.active
    /\ reader' = [pc |-> "derive", epoch |-> cache.epoch, bank |-> disk.active,
                  value |-> FALSE]
    /\ UNCHANGED <<vmVars, disk, updateVars, disableVars, cache>>
    /\ Track

ReaderDerive ==
    /\ reader.pc = "derive"
    /\ reader' = [reader EXCEPT !.pc = "store", !.value = Disabled(reader.bank)]
    /\ UNCHANGED <<vmVars, disk, updateVars, disableVars, cache>>
    /\ Track

\* Mutant of StoreIfEpoch: the answer is stored though the cache was cleared.
StoreAlways == [cache EXCEPT !.value = [bank |-> reader.bank, disabled |-> reader.value]]

StoreIfEpoch ==
    IF cache.epoch = reader.epoch
    THEN [cache EXCEPT !.value = [bank |-> reader.bank, disabled |-> reader.value]]
    ELSE cache

ReaderStore ==
    /\ reader.pc = "store"
    /\ cache' = StoreIfEpoch
    /\ reader' = NoReader
    /\ UNCHANGED <<vmVars, disk, updateVars, disableVars>>
    /\ Track

----------------------------------------------------------------------------
Init ==
    /\ VmInit
    /\ transfer = NoTransfer /\ running = "A"
    /\ reset = NoReset /\ poll = NoPoll
    /\ disabling = NoDisabling
    /\ cache = [epoch |-> 0, value |-> NoValue] /\ reader = NoReader
    /\ images = 1 /\ disables = 0
    /\ overlapped = FALSE

Update ==
    \/ Arm \/ Commit \/ Rollback
    \/ ResetQuery \/ ResetRead \/ (\E t \in Tasks : ResetNotify(t)) \/ ResetRefused
    \/ ResetVerify
    \/ PollQuery \/ PollRecord

Disable ==
    \/ DisableAdmit \/ (\E t \in Tasks : DisableStop(t)) \/ DisableStopped
    \/ DisableNotRunning \/ DisableFails
    \/ DisableRecord \/ DisableRecordFails \/ DisableRatchet \/ DisableRatchetFails
    \/ ReaderMiss \/ ReaderDerive \/ ReaderStore

Rest == UNCHANGED <<disk, updateVars, disableVars, cacheVars>> /\ Track

VmService ==
    \/ AutoStart /\ Rest
    \/ Sweep /\ Rest
    \/ ReadHealth /\ Rest
    \/ \E t \in Tasks : \/ "stop" \in traffic /\ StopVm(t) /\ Rest
                        \/ "restart" \in traffic /\ EnsureVmRunning(t, NoBank) /\ Rest
                        \/ FinalizeStop(t) /\ Rest
                        \/ StartAfterStop(t) /\ Rest

Guest ==
    \/ GuestBoots /\ Rest
    \/ GuestShutsDown /\ Rest
    \/ GuestCrashes /\ Rest
    \/ GuestReboots /\ Rest

Next == VmService \/ Guest \/ Update \/ Disable

Spec == Init /\ [][Next]_vars

\* A request vm-service took goes on (a tokio task), and a guest boots; nobody
\* has to send one, or poll.
Fairness ==
    /\ \A t \in Tasks : WF_vars(FinalizeStop(t) /\ Rest) /\ WF_vars(StartAfterStop(t) /\ Rest)
    /\ WF_vars(GuestBoots /\ Rest)

FairSpec == Spec /\ Fairness

----------------------------------------------------------------------------
(* Properties.                                                             *)

\* Every variable keeps its type.
TypeOK ==
    /\ vm \in [handle : BOOLEAN, bank : Banks \cup {NoBank}, stop : BOOLEAN,
               expected : {"unset", "running", "stopped"}, failed : BOOLEAN,
               identity : [bank : Banks \cup {NoBank}, generation : 0 .. MaxBoots]]
    /\ guest.pid \in 0 .. MaxBoots /\ (guest.alive => vm.handle)
    /\ guest.boot \in 0 .. Len(boots) /\ region.boot \in 0 .. Len(boots)
    /\ disk \in [image : [Banks -> 0 .. MaxImages + 1], record : [Banks -> Records],
                 active : Banks, committed : BOOLEAN]
    /\ transfer.state \in {"none", "awaiting_reboot", "verifying", "activated"}
    /\ running \in Banks
    /\ disabling.pc \in {"idle", "stop", "wait", "record", "ratchet"}

\* runtime_identity is the launch identity post-launch observers act on: it
\* names the process that runs, and never one whose shutdown has begun, though
\* stops, restarts and sweeps give the lock up in between.
IdentityNamesGuest ==
    vm.identity # NoIdentity =>
        /\ vm.handle /\ vm.identity.generation = guest.pid
        /\ guest.alive => ~guest.told /\ vm.identity.bank = guest.bank

Settled == InProgress = {} /\ disabling = NoDisabling

\* With no request in progress, what was last asked for is what is: a guest
\* that should run has a process or a reason (a failed launch, no bank), and
\* only a guest that should run has one.
IntentEnacted ==
    Settled =>
        /\ vm.expected = "running" /\ ~vm.failed /\ vm.bank # NoBank => vm.handle
        /\ vm.handle => vm.expected = "running"

\* IntentEnacted, unless requests overlapped: finalize_stop kills the process
\* the handle names by then, which a restart may have launched meanwhile.
IntentEnactedUnlessOverlapped == overlapped \/ IntentEnacted

\* A disabled component's guest is down: no start gets past the gate or the
\* verify of its bank, and the stop comes first.  Unless a relaunch slips in
\* between that stop and the record, or the stop a rollback owes fails.
DisabledIsDown ==
    /\ Settled /\ ~overlapped /\ ~({"update", "lost"} \subseteq traffic)
    /\ Disabled(disk.active)
    => ~vm.handle /\ ~guest.alive

\* A cached administrative state is the one the record has, although the
\* record is read and verified with no lock held; while NV does not name the
\* record, or its replacement failed, it may be what NV named before.
CacheFresh ==
    cache.value.bank = disk.active /\ disk.record[disk.active] # "unpinned"
        => cache.value.disabled = Disabled(disk.active)

Activated ==
    /\ transfer'.state = "activated" /\ transfer.state # "activated"
    /\ ~overlapped /\ disabling = NoDisabling

\* What get_activation_state takes for the update's first boot is a boot of
\* the image just armed - not of a guest still shutting down, nor of an earlier
\* transfer - unless requests overlapped or a rollback is under way.
ActivationIsFresh ==
    [][Activated => boots[poll.boot] = disk.image[disk.active]]_vars

\* The same unless a guest that was down left its heartbeat in a region that
\* persists: with no boot id to compare with, the relaunch is judged by it.
ActivationIsFreshUnlessLeft ==
    [][Activated /\ (transfer.baseline = NotRunning => ~deploy.persistent)
         => boots[poll.boot] = disk.image[disk.active]]_vars

\* A process that exited with nobody having asked it to.
Exited == vm.handle /\ ~guest.alive /\ ~vm.stop

\* A relaunch vm-service has answered 200 for ends in a guest that comes up or
\* dies on the way, a reason why not, or another request; at the bound on
\* launches nothing is launched.
RelaunchComesUp ==
    (\E t \in Tasks : task[t].kind = "restart")
        ~> \/ guest.boot # 0 \/ Exited \/ vm.failed \/ vm.bank = NoBank
           \/ vm.expected = "stopped" \/ overlapped \/ guest.pid = MaxBoots
=============================================================================
