------------------------- MODULE GuestUpdateProofs -------------------------
(***************************************************************************)
(* What vm-service and the component backend guarantee of one guest, for   *)
(* any requests in progress, any kinds of transport and runner, any        *)
(* traffic and any bounds.                                                 *)
(***************************************************************************)
EXTENDS GuestUpdate, FiniteSetTheorems, TLAPS

----------------------------------------------------------------------------
(* Types.                                                                  *)

BankOrNone == Banks \cup {NoBank}
Images == 0 .. MaxImages + 1
VmType == [handle : BOOLEAN, bank : BankOrNone, stop : BOOLEAN,
           expected : {"unset", "running", "stopped"}, failed : BOOLEAN,
           identity : [bank : BankOrNone, generation : 0 .. MaxBoots]]
GuestType == [alive : BOOLEAN, told : BOOLEAN, pid : 0 .. MaxBoots, boot : Nat,
              bank : BankOrNone, img : Images]
RegionType == [boot : Nat, state : {"none", "running", "shutting_down"}]
TaskType == [pc : {"none", "finalize", "start"}, kind : {"none", "stop", "restart"},
             bank : BankOrNone]
DiskType == [image : [Banks -> Images], record : [Banks -> Records],
             active : Banks, committed : BOOLEAN]

\* Of the guest and its manager.
ProcessTypes ==
    /\ vm \in VmType /\ guest \in GuestType /\ region \in RegionType
    /\ boots \in Seq(Images)
    /\ guest.boot \in 0 .. Len(boots) /\ region.boot \in 0 .. Len(boots)
    /\ guest.alive => vm.handle

\* Of the handlers: a stop only waits.
TaskTypes ==
    /\ task \in [Tasks -> TaskType]
    /\ \A t \in Tasks : task[t] = NoTask \/ (task[t].pc # "none" /\ task[t].kind # "none")
    /\ \A t \in Tasks : task[t].kind = "stop" => task[t].pc = "finalize"

VmTypes ==
    /\ deploy \in [persistent : BOOLEAN, reaps : BOOLEAN]
    /\ ProcessTypes /\ TaskTypes

TransferType == [id : Nat, state : {"none", "awaiting_reboot", "verifying", "activated"},
                 baseline : Nat]
ResetType == [pc : {"idle", "read", "notify", "verify"}, baseline : Nat, bank : BankOrNone,
              n : Nat]
DisablingType == [pc : {"idle", "stop", "wait", "record", "ratchet"},
                  kind : {"none", "disable", "rollback"}, task : SUBSET Tasks]
CacheType == [epoch : Nat, value : [bank : BankOrNone, disabled : BOOLEAN]]
ReaderType == [pc : {"idle", "derive", "store"}, epoch : Nat, bank : BankOrNone,
               value : BOOLEAN]

\* Of the backend.
BackendTypes ==
    /\ disk \in DiskType /\ images \in 1 .. MaxImages + 1
    /\ transfer \in TransferType /\ running \in Banks /\ reset \in ResetType
    /\ disabling \in DisablingType
    /\ cache \in CacheType /\ reader \in ReaderType
    /\ overlapped \in BOOLEAN

Types == VmTypes /\ BackendTypes

\* The steps of vm-service and of the guest, whoever asked for them.
VmAction ==
    \/ AutoStart \/ Sweep \/ ReadHealth
    \/ \E t \in Tasks : \/ StopVm(t) \/ FinalizeStop(t) \/ StartAfterStop(t)
                        \/ \E b \in BankOrNone : EnsureVmRunning(t, b)
    \/ GuestBoots \/ GuestShutsDown \/ GuestCrashes \/ GuestReboots

\* A write of a disable fails.
WriteFails == DisableRecordFails \/ DisableRatchetFails

\* Every other step leaves the guest and its manager alone.
LEMMA VmSteps ==
    ASSUME BackendTypes, [Next]_vars
    PROVE  VmAction \/ UNCHANGED vmVars
<1>1. ASSUME VmService PROVE VmAction
  BY <1>1 DEF VmService, VmAction, BankOrNone
<1>2. ASSUME Guest PROVE VmAction
  BY <1>2 DEF Guest, VmAction
<1>3. ASSUME Update PROVE VmAction \/ UNCHANGED vmVars
  <2>1. reset.bank \in BankOrNone
    BY DEF BackendTypes, ResetType
  <2>2. ASSUME NEW t \in Tasks, ResetNotify(t) PROVE VmAction
    BY <2>1, <2>2 DEF ResetNotify, VmAction
  <2>3. ResetQuery => ReadHealth
    BY DEF ResetQuery, ReadHealth
  <2>4. Arm \/ Commit \/ Rollback => UNCHANGED vmVars
    BY DEF Arm, Commit, Rollback
  <2>5. ResetRead \/ ResetRefused \/ ResetVerify \/ PollQuery \/ PollRecord => UNCHANGED vmVars
    BY DEF ResetRead, ResetRefused, ResetVerify, PollQuery, PollRecord
  <2> QED
    BY <1>3, <2>2, <2>3, <2>4, <2>5 DEF Update, VmAction
<1>4. ASSUME Disable PROVE VmAction \/ UNCHANGED vmVars
  <2>1. ASSUME NEW t \in Tasks, DisableStop(t) PROVE VmAction
    BY <2>1 DEF DisableStop, VmAction
  <2>2. DisableAdmit \/ DisableRecord \/ DisableRatchet => UNCHANGED vmVars
    BY DEF DisableAdmit, DisableRecord, DisableRatchet
  <2>3. DisableStopped \/ DisableNotRunning \/ DisableFails \/ WriteFails => UNCHANGED vmVars
    BY DEF DisableStopped, DisableNotRunning, DisableFails, WriteFails, DisableRecordFails,
       DisableRatchetFails
  <2>4. ReaderMiss \/ ReaderDerive \/ ReaderStore => UNCHANGED vmVars
    BY DEF ReaderMiss, ReaderDerive, ReaderStore
  <2> QED
    BY <1>4, <2>1, <2>2, <2>3, <2>4 DEF Disable, WriteFails
<1>5. ASSUME UNCHANGED vars PROVE UNCHANGED vmVars
  BY <1>5 DEF vars
<1> QED
  BY <1>1, <1>2, <1>3, <1>4, <1>5 DEF Next

\* What comes together and the deployment are constant, and the history is kept.
LEMMA Tracked ==
    ASSUME [Next]_vars
    PROVE  Track \/ UNCHANGED vars
<1>1. VmService \/ Guest => Track
  BY DEF VmService, Guest, Rest
<1>2. Update => Track
  BY DEF Update, Arm, Commit, Rollback, ResetQuery, ResetRead, ResetNotify, ResetRefused,
     ResetVerify, PollQuery, PollRecord
<1>3. Disable => Track
  BY DEF Disable, DisableAdmit, DisableStop, DisableStopped, DisableNotRunning,
     DisableFails, DisableRecord, DisableRecordFails, DisableRatchet, DisableRatchetFails,
     ReaderMiss, ReaderDerive, ReaderStore
<1> QED
  BY <1>1, <1>2, <1>3 DEF Next

\* The notes keep the type of the ManagedVm.
LEMMA NotesType ==
    ASSUME VmTypes, BackendTypes
    PROVE  /\ StopNoted(vm) \in VmType /\ StopInitiated \in VmType
           /\ Dead \in GuestType /\ Told \in GuestType /\ Released \in RegionType
           /\ \A v \in VmType : /\ Finalized(v) \in VmType /\ Observed(v) \in VmType
                                /\ ExpectRunning(v) \in VmType
           /\ \A b \in BankOrNone : Cleared(vm, b) \in VmType /\ Unlaunched(b) \in VmType
<1>0. /\ NoIdentity \in [bank : BankOrNone, generation : 0 .. MaxBoots]
      /\ NoImage \in Images /\ NoBank \in BankOrNone
  BY MaxBootsAssumption, UpdateBoundsAssumption DEF NoIdentity, BankOrNone, Images, NoImage
<1>1. StopNoted(vm) \in VmType /\ StopInitiated \in VmType
  BY <1>0 DEF VmTypes, ProcessTypes, VmType, StopNoted, StopInitiated
<1>2. Dead \in GuestType /\ Told \in GuestType
  BY <1>0 DEF VmTypes, ProcessTypes, GuestType, Dead, NoGuest, Told
<1>3. Released \in RegionType
  BY DEF VmTypes, ProcessTypes, RegionType, Released, NoBeat
<1>4. ASSUME NEW v \in VmType
      PROVE  Finalized(v) \in VmType /\ ExpectRunning(v) \in VmType
  BY <1>0, <1>4 DEF VmType, Finalized, ExpectRunning
<1>5. ASSUME NEW v \in VmType PROVE Observed(v) \in VmType
  BY <1>5 DEF VmType, Observed, VmTypes, ProcessTypes, IsRunning
<1>6. ASSUME NEW b \in BankOrNone PROVE Cleared(vm, b) \in VmType
  BY <1>0, <1>6 DEF VmType, VmTypes, ProcessTypes, Cleared
<1>7. ASSUME NEW b \in BankOrNone PROVE Unlaunched(b) \in VmType
  <2>1. ASSUME NEW v \in VmType, NEW f \in BOOLEAN
        PROVE  [v EXCEPT !.expected = "stopped"] \in VmType /\ [v EXCEPT !.failed = f] \in VmType
    BY <2>1 DEF VmType
  <2>2. Cleared(vm, b) \in VmType /\ (b # NoBank) \in BOOLEAN
    BY <1>6, <1>7
  <2> QED
    BY <2>1, <2>2 DEF Unlaunched
<1> QED
  BY <1>1, <1>2, <1>3, <1>4, <1>5, <1>6, <1>7

\* A start keeps the types, launched or not.
LEMMA StartType ==
    ASSUME VmTypes, BackendTypes, NEW b \in BankOrNone, StartVm(b)
    PROVE  ProcessTypes'
<1>1. CASE StartRefused(b) \/ AlreadyRunning(b)
  BY <1>1 DEF StartRefused, AlreadyRunning, VmTypes, ProcessTypes, VmType
<1>2. CASE NotLaunched(b)
  <2>1. vm' \in VmType /\ guest' \in GuestType /\ region' \in RegionType /\ boots' = boots
    BY <1>2, NotesType DEF NotLaunched
  <2>2. guest'.boot = 0 /\ ~guest'.alive
    BY <1>2 DEF NotLaunched, Dead, NoGuest
  <2>3. region'.boot \in 0 .. Len(boots)
    BY <1>2 DEF NotLaunched, Released, NoBeat, VmTypes, ProcessTypes
  <2> QED
    BY <2>1, <2>2, <2>3 DEF ProcessTypes, VmTypes
<1>3. CASE Launch(b)
  <2>1. guest.pid + 1 \in 0 .. MaxBoots
    BY <1>3, MaxBootsAssumption DEF Launch, VmTypes, ProcessTypes, GuestType
  <2>2. vm' \in VmType /\ vm'.handle
    <3>1. Cleared(vm, b) \in VmType
      BY NotesType
    <3>2. ASSUME NEW v \in VmType PROVE Launched(v) \in VmType /\ Launched(v).handle
      BY <2>1, <3>2 DEF Launched, VmType
    <3> QED
      BY <1>3, <3>1, <3>2 DEF Launch
  <2>3. guest' \in GuestType /\ guest'.boot = 0
    <3>1. b \in Banks /\ disk.image[b] \in Images
      BY <1>3 DEF Launch, Launchable, BankOrNone, BackendTypes, DiskType
    <3> QED
      BY <1>3, <2>1, <3>1 DEF Launch, GuestType
  <2>4. region' \in RegionType /\ boots' = boots
    BY <1>3, NotesType DEF Launch
  <2>5. region'.boot \in 0 .. Len(boots)
    BY <1>3 DEF Launch, Released, NoBeat, VmTypes, ProcessTypes
  <2> QED
    BY <2>2, <2>3, <2>4, <2>5 DEF ProcessTypes, VmTypes
<1> QED
  BY <1>1, <1>2, <1>3 DEF StartVm

\* Every step of vm-service and of the guest keeps the types.
LEMMA VmTypesStep ==
    ASSUME VmTypes, BackendTypes, VmAction
    PROVE  ProcessTypes' /\ TaskTypes'
<1> USE DEF VmTypes
<1>n. NoTask \in TaskType /\ NoTask.kind # "stop"
  BY DEF NoTask, TaskType, BankOrNone
<1>d. /\ Dead \in GuestType /\ Dead.boot = 0 /\ ~Dead.alive
      /\ Released \in RegionType /\ Released.boot \in 0 .. Len(boots)
  BY NotesType DEF Dead, NoGuest, Released, NoBeat, ProcessTypes
<1>b. ASSUME NEW t \in Tasks, NEW k \in {"stop", "restart"}, NEW b \in BankOrNone,
             NEW pc \in {"finalize", "start"}, Begin(t, k, b, pc), k = "stop" => pc = "finalize"
      PROVE  TaskTypes'
  BY <1>b DEF Begin, TaskTypes, TaskType, NoTask
<1>e. ASSUME NEW t \in Tasks, task' = [task EXCEPT ![t] = NoTask] PROVE TaskTypes'
  BY <1>e, <1>n DEF TaskTypes, TaskType
<1>u. UNCHANGED task => TaskTypes'
  BY DEF TaskTypes
<1>1. CASE AutoStart
  <2>1. vm.bank \in BankOrNone
    BY DEF ProcessTypes, VmType
  <2> QED
    BY <1>1, <1>u, <2>1, StartType DEF AutoStart
<1>2. CASE Sweep
  <2>1. vm' \in VmType
    BY <1>2, NotesType DEF Sweep, ProcessTypes
  <2> QED
    BY <1>2, <1>d, <1>u, <2>1 DEF Sweep, ProcessTypes
<1>3. CASE ReadHealth
  <2>1. vm' \in VmType /\ vm'.handle = vm.handle
    BY <1>3, NotesType DEF ReadHealth, ProcessTypes, Observed, VmType
  <2> QED
    BY <1>3, <1>u, <2>1 DEF ReadHealth, ProcessTypes
<1>4. ASSUME IsRunning => vm'.handle
      PROVE  guest' = Told => /\ guest' \in GuestType /\ guest'.boot \in 0 .. Len(boots)
                              /\ guest'.alive => vm'.handle
  BY <1>4, <1>d, NotesType DEF Told, ProcessTypes, GuestType
<1>5. ASSUME NEW t \in Tasks, StopVm(t) PROVE ProcessTypes' /\ TaskTypes'
  <2>1. vm' \in VmType /\ (IsRunning => vm'.handle)
    BY <1>5, NotesType DEF StopVm, StopInitiated, StopNoted, ProcessTypes, VmType
  <2>2. TaskTypes'
    BY <1>5, <1>b DEF StopVm, BankOrNone
  <2> QED
    BY <1>4, <1>5, <2>1, <2>2 DEF StopVm, ProcessTypes
<1>6. ASSUME NEW t \in Tasks, FinalizeStop(t) PROVE ProcessTypes' /\ TaskTypes'
  <2>1. vm' \in VmType
    BY <1>6, NotesType DEF FinalizeStop, ProcessTypes
  <2>2. TaskTypes'
    <3>1. CASE task[t].kind = "stop"
      BY <1>6, <1>e, <3>1 DEF FinalizeStop
    <3>2. CASE task[t].kind # "stop"
      <4>1. task' = [task EXCEPT ![t] = [@ EXCEPT !.pc = "start"]]
        BY <1>6, <3>2 DEF FinalizeStop
      <4>2. task[t] \in TaskType /\ task[t].kind # "none" /\ task[t] # NoTask
        BY <1>6 DEF FinalizeStop, TaskTypes, NoTask
      <4>3. /\ [task[t] EXCEPT !.pc = "start"] \in TaskType
            /\ [task[t] EXCEPT !.pc = "start"].pc = "start"
            /\ [task[t] EXCEPT !.pc = "start"].kind = task[t].kind
        BY <4>2 DEF TaskType
      <4> QED
        BY <3>2, <4>1, <4>2, <4>3 DEF TaskTypes
    <3> QED
      BY <3>1, <3>2
  <2> QED
    BY <1>6, <1>d, <2>1, <2>2 DEF FinalizeStop, ProcessTypes
<1>7. ASSUME NEW t \in Tasks, StartAfterStop(t) PROVE ProcessTypes' /\ TaskTypes'
  <2>1. (IF task[t].bank = NoBank THEN vm.bank ELSE task[t].bank) \in BankOrNone
    BY DEF ProcessTypes, VmType, TaskTypes, TaskType
  <2> QED
    BY <1>7, <1>e, <2>1, StartType DEF StartAfterStop
<1>8. ASSUME NEW t \in Tasks, NEW b \in BankOrNone, EnsureVmRunning(t, b)
      PROVE  ProcessTypes' /\ TaskTypes'
  <2>1. vm' \in VmType
    BY <1>8, NotesType DEF EnsureVmRunning, ProcessTypes
  <2>2. TaskTypes'
    BY <1>8, <1>b DEF EnsureVmRunning
  <2>3. CASE vm.handle
    <3>1. IsRunning => vm'.handle
      BY <1>8, <2>3 DEF EnsureVmRunning, ExpectRunning, StopInitiated, StopNoted, ProcessTypes,
         VmType
    <3> QED
      BY <1>4, <1>8, <2>1, <2>2, <2>3, <3>1 DEF EnsureVmRunning, ProcessTypes
  <2>4. CASE ~vm.handle
    <3>1. vm'.handle = vm.handle
      BY <1>8, <2>4 DEF EnsureVmRunning, ExpectRunning, ProcessTypes, VmType
    <3> QED
      BY <1>8, <2>1, <2>2, <2>4, <3>1 DEF EnsureVmRunning, ProcessTypes
  <2> QED
    BY <2>3, <2>4
<1>9. CASE GuestBoots
  <2>1. guest.img \in Images
    BY DEF ProcessTypes, GuestType
  <2>2. boots' \in Seq(Images) /\ Len(boots') = Len(boots) + 1 /\ Len(boots) \in Nat
    BY <1>9, <2>1 DEF GuestBoots, ProcessTypes
  <2>3. guest' \in GuestType /\ guest'.boot = Len(boots) + 1
    BY <1>9, <2>2 DEF GuestBoots, ProcessTypes, GuestType
  <2>4. region' \in RegionType /\ region'.boot = Len(boots) + 1
    BY <1>9, <2>2 DEF GuestBoots, RegionType
  <2>5. guest'.alive => vm'.handle
    BY <1>9 DEF GuestBoots, ProcessTypes, GuestType
  <2> QED
    BY <1>9, <1>u, <2>2, <2>3, <2>4, <2>5 DEF GuestBoots, ProcessTypes
<1>10. CASE GuestShutsDown
  <2>1. region' \in RegionType /\ region'.boot = region.boot
    BY <1>10 DEF GuestShutsDown, ProcessTypes, RegionType
  <2> QED
    BY <1>10, <1>d, <1>u, <2>1 DEF GuestShutsDown, ProcessTypes
<1>11. CASE GuestCrashes
  BY <1>11, <1>d, <1>u DEF GuestCrashes, ProcessTypes
<1>12. CASE GuestReboots
  <2>1. guest' \in GuestType /\ guest'.boot = 0 /\ guest'.alive = guest.alive
    BY <1>12 DEF GuestReboots, ProcessTypes, GuestType
  <2> QED
    BY <1>12, <1>u, <2>1 DEF GuestReboots, ProcessTypes
<1> QED
  BY <1>1, <1>2, <1>3, <1>5, <1>6, <1>7, <1>8, <1>9, <1>10, <1>11, <1>12 DEF VmAction

\* A step of vm-service or of the guest alone leaves the backend as it is.
LEMMA BackendSteps ==
    ASSUME [Next]_vars
    PROVE  Update \/ Disable \/ UNCHANGED <<disk, updateVars, disableVars, cacheVars>>
<1>1. VmService \/ Guest => UNCHANGED <<disk, updateVars, disableVars, cacheVars>>
  BY DEF VmService, Guest, Rest
<1>2. UNCHANGED vars => UNCHANGED <<disk, updateVars, disableVars, cacheVars>>
  BY DEF vars
<1> QED
  BY <1>1, <1>2 DEF Next

\* The signed records, the image counts and the banks stay in their ranges.
LEMMA DiskTypeStep ==
    ASSUME BackendTypes, [Next]_vars
    PROVE  disk' \in DiskType /\ images' \in 1 .. MaxImages + 1
<1>1. disk \in DiskType /\ images \in 1 .. MaxImages + 1 /\ Other(disk.active) \in Banks
  BY DEF BackendTypes, DiskType, Other, Banks
<1>f. ASSUME NEW d \in DiskType, NEW b \in Banks, NEW i \in Images, NEW r \in Records,
             NEW a \in Banks, NEW c \in BOOLEAN
      PROVE  [d EXCEPT !.image[b] = i, !.record[b] = r, !.active = a, !.committed = c]
                 \in DiskType
  <2>1. [d EXCEPT !.image[b] = i, !.record[b] = r, !.active = a, !.committed = c]
          = [d EXCEPT !.image = [d.image EXCEPT ![b] = i],
                      !.record = [d.record EXCEPT ![b] = r], !.active = a, !.committed = c]
    OBVIOUS
  <2>2. /\ [d.image EXCEPT ![b] = i] \in [Banks -> Images]
        /\ [d.record EXCEPT ![b] = r] \in [Banks -> Records]
    BY DEF DiskType
  <2>3. ASSUME NEW im \in [Banks -> Images], NEW re \in [Banks -> Records]
        PROVE  [d EXCEPT !.image = im, !.record = re, !.active = a, !.committed = c] \in DiskType
    BY DEF DiskType
  <2> QED
    BY <2>1, <2>2, <2>3
<1>2. CASE Arm
  <2>1. images + 1 \in Images /\ images + 1 \in 1 .. MaxImages + 1 /\ "firmware" \in Records
    BY <1>1, <1>2, UpdateBoundsAssumption DEF Arm, Images, Records
  <2> QED
    BY <1>1, <1>2, <1>f, <2>1 DEF Arm
<1>3. CASE Rollback
  <2>1. NoImage \in Images /\ "none" \in Records /\ disk.active \in Banks
    BY <1>1, UpdateBoundsAssumption DEF Images, NoImage, Records, DiskType
  <2> QED
    BY <1>1, <1>3, <1>f, <2>1 DEF Rollback
<1>4. CASE Commit \/ DisableRecord \/ DisableRatchet \/ WriteFails
  <2>1. ASSUME NEW r \in Records
        PROVE  [disk EXCEPT !.record[disk.active] = r] \in DiskType
    <3>1. [disk.record EXCEPT ![disk.active] = r] \in [Banks -> Records]
      BY <1>1 DEF DiskType
    <3>2. ASSUME NEW re \in [Banks -> Records]
          PROVE  [disk EXCEPT !.record = re] \in DiskType
      BY <1>1 DEF DiskType
    <3> QED
      BY <3>1, <3>2
  <2>2. "unpinned" \in Records /\ "sentinel" \in Records
    BY DEF Records
  <2>3. CASE Commit
    BY <1>1, <2>3 DEF Commit, DiskType
  <2>4. CASE DisableRecord
    BY <1>1, <2>1, <2>2, <2>4 DEF DisableRecord, updateVars
  <2>5. CASE DisableRatchet
    BY <1>1, <2>1, <2>2, <2>5 DEF DisableRatchet, updateVars
  <2>6. CASE DisableRecordFails
    BY <1>1, <2>1, <2>2, <2>6 DEF DisableRecordFails, updateVars
  <2>7. CASE DisableRatchetFails
    BY <1>1, <2>7 DEF DisableRatchetFails, updateVars
  <2> QED
    BY <1>4, <2>3, <2>4, <2>5, <2>6, <2>7 DEF WriteFails
<1>5. CASE UNCHANGED <<disk, images>>
  BY <1>1, <1>5
<1>6. CASE Update
  BY <1>2, <1>3, <1>4, <1>5, <1>6 DEF Update, ResetQuery, ResetRead, ResetNotify,
     ResetRefused, ResetVerify, PollQuery, PollRecord
<1>7. CASE Disable
  BY <1>4, <1>5, <1>7 DEF Disable, WriteFails, DisableAdmit, DisableStop, DisableStopped,
     DisableNotRunning, DisableFails, ReaderMiss, ReaderDerive, ReaderStore, updateVars
<1> QED
  BY <1>5, <1>6, <1>7, BackendSteps DEF updateVars

\* So do the transfer and the calls in progress.
LEMMA UpdateTypeStep ==
    ASSUME VmTypes, BackendTypes, Update
    PROVE  /\ transfer' \in TransferType /\ running' \in Banks /\ reset' \in ResetType
<1>1. transfer \in TransferType /\ running \in Banks /\ reset \in ResetType /\ images \in Nat
  BY UpdateBoundsAssumption DEF BackendTypes
<1>2. /\ NoTransfer \in TransferType /\ ResetEnds \in ResetType /\ NoReset \in ResetType
      /\ BootId \in Nat /\ disk.active \in Banks
  BY <1>1 DEF NoTransfer, TransferType, NotRunning, ResetEnds, NoReset, ResetType, BankOrNone,
     BootId, VmTypes, ProcessTypes, RegionType, BackendTypes, DiskType
<1>3. CASE Arm \/ Commit \/ Rollback
  BY <1>1, <1>2, <1>3 DEF Arm, Commit, Rollback, TransferType, NotRunning
<1>4. CASE ResetQuery
  BY <1>1, <1>2, <1>4 DEF ResetQuery, ResetType, BankOrNone
<1>5. CASE ResetRead
  BY <1>1, <1>2, <1>5 DEF ResetRead, ResetType, BankOrNone
<1>6. ASSUME NEW t \in Tasks, ResetNotify(t)
      PROVE  transfer' \in TransferType /\ running' \in Banks /\ reset' \in ResetType
  BY <1>1, <1>2, <1>6 DEF ResetNotify, ResetType
<1>7. CASE ResetRefused
  BY <1>1, <1>2, <1>7 DEF ResetRefused
<1>8. CASE ResetVerify
  BY <1>1, <1>2, <1>8 DEF ResetVerify, TransferType, ResetType
<1>9. CASE PollQuery
  BY <1>1, <1>9 DEF PollQuery
<1>10. CASE PollRecord
  <2>1. [transfer EXCEPT !.state = "activated", !.baseline = NotRunning] \in TransferType
    BY <1>1 DEF TransferType, NotRunning
  <2> QED
    BY <1>1, <1>2, <1>10, <2>1 DEF PollRecord
<1> QED
  BY <1>3, <1>4, <1>5, <1>6, <1>7, <1>8, <1>9, <1>10 DEF Update

\* And the disable and the cache of the administrative state.
LEMMA DisableTypeStep ==
    ASSUME BackendTypes, Disable
    PROVE  /\ transfer' \in TransferType
           /\ UNCHANGED <<running, reset>>
           /\ disabling' \in DisablingType /\ cache' \in CacheType /\ reader' \in ReaderType
<1>1. /\ disabling \in DisablingType /\ cache \in CacheType /\ reader \in ReaderType
      /\ transfer \in TransferType
  BY DEF BackendTypes
<1>2. /\ NoDisabling \in DisablingType /\ NoTransfer \in TransferType /\ NoReader \in ReaderType
      /\ disk.active \in BankOrNone
  BY DEF NoDisabling, DisablingType, NoTransfer, TransferType, NotRunning, NoReader,
     ReaderType, BankOrNone, BackendTypes, DiskType
<1>3. CASE DisableAdmit
  BY <1>1, <1>2, <1>3 DEF DisableAdmit, DisablingType, updateVars, cacheVars
<1>4. ASSUME NEW t \in Tasks, DisableStop(t)
      PROVE  /\ transfer' \in TransferType
             /\ UNCHANGED <<running, reset>>
             /\ disabling' \in DisablingType /\ cache' \in CacheType /\ reader' \in ReaderType
  BY <1>1, <1>4 DEF DisableStop, DisablingType, updateVars, cacheVars
<1>5. CASE DisableStopped \/ DisableNotRunning
  BY <1>1, <1>2, <1>5 DEF DisableStopped, DisableNotRunning, Stopped, DisablingType, cacheVars
<1>6. CASE DisableFails
  BY <1>1, <1>2, <1>6 DEF DisableFails, cacheVars
<1>7. CASE DisableRecord
  BY <1>1, <1>7 DEF DisableRecord, DisablingType, updateVars, cacheVars
<1>8. CASE DisableRatchet
  BY <1>1, <1>2, <1>8 DEF DisableRatchet, NvWritten, NoValue, CacheType, BankOrNone, updateVars
<1>9. CASE ReaderMiss
  BY <1>1, <1>2, <1>9 DEF ReaderMiss, ReaderType, CacheType, updateVars, disableVars
<1>10. CASE ReaderDerive
  BY <1>1, <1>10 DEF ReaderDerive, ReaderType, Disabled, updateVars, disableVars
<1>11. CASE ReaderStore
  BY <1>1, <1>2, <1>11 DEF ReaderStore, StoreIfEpoch, ReaderType, CacheType, updateVars,
     disableVars
<1>12. CASE DisableRecordFails
  BY <1>1, <1>2, <1>12 DEF DisableRecordFails, updateVars, cacheVars
<1>13. CASE DisableRatchetFails
  BY <1>1, <1>2, <1>13 DEF DisableRatchetFails, NvWritten, NoValue, CacheType, BankOrNone,
     updateVars
<1> QED
  BY <1>3, <1>4, <1>5, <1>6, <1>7, <1>8, <1>9, <1>10, <1>11, <1>12, <1>13 DEF Disable

\* The rest of what an update step leaves: the cache is at most cleared.
LEMMA UpdateCacheStep ==
    ASSUME BackendTypes, Update
    PROVE  /\ UNCHANGED cache \/ NvWritten
           /\ UNCHANGED reader
           /\ disabling' = disabling
              \/ (Rollback /\ disabling' = [NoDisabling EXCEPT !.pc = "stop", !.kind = "rollback"])
<1>1. CASE Arm \/ Commit
  BY <1>1 DEF Arm, Commit, disableVars
<1>2. CASE Rollback
  BY <1>2 DEF Rollback
<1>3. CASE ResetQuery \/ ResetRead \/ (\E t \in Tasks : ResetNotify(t)) \/ ResetRefused
  BY <1>3 DEF ResetQuery, ResetRead, ResetNotify, ResetRefused, disableVars, cacheVars
<1>4. CASE ResetVerify \/ PollQuery \/ PollRecord
  BY <1>4 DEF ResetVerify, PollQuery, PollRecord, disableVars, cacheVars
<1> QED
  BY <1>1, <1>2, <1>3, <1>4 DEF Update

\* The types are inductive.
LEMMA TypesStep == Types /\ [Next]_vars => Types'
<1> SUFFICES ASSUME Types, [Next]_vars PROVE Types'
  OBVIOUS
<1> USE DEF Types
<1>1. VmTypes'
  <2>1. deploy' = deploy
    BY Tracked DEF Track, vars
  <2>2. VmAction => ProcessTypes' /\ TaskTypes'
    BY VmTypesStep
  <2>3. UNCHANGED vmVars => ProcessTypes' /\ TaskTypes'
    BY DEF VmTypes, ProcessTypes, TaskTypes, vmVars
  <2> QED
    BY <2>1, <2>2, <2>3, VmSteps DEF VmTypes
<1>2. overlapped' \in BOOLEAN
  BY Tracked DEF Track, vars, BackendTypes
<1>3. disk' \in DiskType /\ images' \in 1 .. MaxImages + 1
  BY DiskTypeStep
<1>4. CASE Update
  <2>0. NvWritten => cache' \in CacheType
    BY DEF BackendTypes, NvWritten, NoValue, CacheType, BankOrNone
  <2>1. cache' \in CacheType /\ reader' \in ReaderType
    BY <1>4, <2>0, UpdateCacheStep DEF BackendTypes
  <2>2. disabling' \in DisablingType
    BY <1>4, UpdateCacheStep DEF BackendTypes, NoDisabling, DisablingType
  <2> QED
    BY <1>1, <1>2, <1>3, <1>4, <2>1, <2>2, UpdateTypeStep DEF BackendTypes
<1>5. CASE Disable
  BY <1>1, <1>2, <1>3, <1>5, DisableTypeStep DEF BackendTypes
<1>6. CASE UNCHANGED <<disk, updateVars, disableVars, cacheVars>>
  BY <1>1, <1>2, <1>3, <1>6 DEF BackendTypes, updateVars, disableVars, cacheVars
<1> QED
  BY <1>4, <1>5, <1>6, BackendSteps

\* The guest as vm-service finds it, and a backend at rest, are well typed.
LEMMA InitTypes == Init => Types
<1> SUFFICES ASSUME Init PROVE Types
  OBVIOUS
<1>0. NoIdentity \in [bank : BankOrNone, generation : 0 .. MaxBoots] /\ "A" \in BankOrNone
  BY MaxBootsAssumption DEF NoIdentity, BankOrNone, Banks
<1>v. vm \in VmType
  <2>1. PICK b \in {"A", NoBank} :
              vm = [handle |-> FALSE, bank |-> b, expected |-> "unset", stop |-> FALSE,
                    failed |-> FALSE, identity |-> NoIdentity]
    BY DEF Init, VmInit
  <2> QED
    BY <1>0, <2>1 DEF VmType, BankOrNone
<1>1. vm \in VmType /\ guest \in GuestType /\ region \in RegionType
  BY <1>v, MaxBootsAssumption, UpdateBoundsAssumption
     DEF Init, VmInit, GuestType, RegionType, NoGuest, NoBeat, BankOrNone, Images, NoImage
<1>2. ProcessTypes
  BY <1>1 DEF Init, VmInit, ProcessTypes, NoGuest, NoBeat
<1>3. TaskTypes
  BY DEF Init, VmInit, TaskTypes, TaskType, NoTask, BankOrNone
<1>4. deploy \in [persistent : BOOLEAN, reaps : BOOLEAN]
  BY DeploysAssumption DEF Init, VmInit
<1>5. disk \in DiskType /\ images \in 1 .. MaxImages + 1
  BY UpdateBoundsAssumption DEF Init, VmInit, DiskType, Images, NoImage, Banks, Records
<1>6. /\ transfer \in TransferType /\ running \in Banks /\ reset \in ResetType
      /\ disabling \in DisablingType /\ overlapped \in BOOLEAN
  BY DEF Init, NoTransfer, NotRunning, TransferType, Banks, NoReset, ResetType, BankOrNone,
     NoDisabling, DisablingType
<1>7. cache \in CacheType /\ reader \in ReaderType
  BY DEF Init, NoValue, CacheType, NoReader, ReaderType, BankOrNone
<1> QED
  BY <1>2, <1>3, <1>4, <1>5, <1>6, <1>7 DEF Types, VmTypes, BackendTypes

\* Whatever the requests in progress, every variable keeps its type: a live
\* guest always has its handle, and no heartbeat names a boot yet to come.
THEOREM TypeCorrect == Spec => []TypeOK
<1>1. Types => TypeOK
  BY DEF Types, VmTypes, ProcessTypes, BackendTypes, TypeOK, VmType, GuestType, RegionType,
     DiskType, TransferType, DisablingType, BankOrNone, Images
<1> QED
  BY <1>1, InitTypes, TypesStep, PTL DEF Spec

----------------------------------------------------------------------------
(* The launch identity.                                                    *)

\* No step of vm-service or of the guest makes the identity name a process
\* that is gone, or one that was told to shut down.
LEMMA IdentityStep ==
    ASSUME VmTypes, IdentityNamesGuest, VmAction
    PROVE  IdentityNamesGuest'
<1> USE DEF VmTypes, ProcessTypes
<1>d. Dead.pid = guest.pid /\ ~Dead.alive
  BY DEF Dead, NoGuest
<1>s. ASSUME NEW b, StartVm(b) PROVE IdentityNamesGuest'
  <2>1. CASE StartRefused(b) \/ AlreadyRunning(b)
    BY <2>1 DEF StartRefused, AlreadyRunning, IdentityNamesGuest, VmType
  <2>2. CASE NotLaunched(b)
    BY <2>2 DEF NotLaunched, Unlaunched, Cleared, IdentityNamesGuest, VmType
  <2>3. CASE Launch(b)
    BY <2>3 DEF Launch, Launched, Cleared, IdentityNamesGuest, VmType
  <2> QED
    BY <1>s, <2>1, <2>2, <2>3 DEF StartVm
<1>1. CASE AutoStart
  BY <1>1, <1>s DEF AutoStart
<1>2. CASE Sweep
  BY <1>2 DEF Sweep, Finalized, StopNoted, IdentityNamesGuest, VmType
<1>3. CASE ReadHealth
  BY <1>3 DEF ReadHealth, Observed, IdentityNamesGuest, VmType
<1>4. ASSUME NEW t \in Tasks, StopVm(t) PROVE IdentityNamesGuest'
  BY <1>4 DEF StopVm, StopInitiated, StopNoted, IdentityNamesGuest, VmType
<1>5. ASSUME NEW t \in Tasks, FinalizeStop(t) PROVE IdentityNamesGuest'
  BY <1>5 DEF FinalizeStop, Finalized, IdentityNamesGuest, VmType
<1>6. ASSUME NEW t \in Tasks, StartAfterStop(t) PROVE IdentityNamesGuest'
  BY <1>6, <1>s DEF StartAfterStop
<1>7. ASSUME NEW t \in Tasks, NEW b \in BankOrNone, EnsureVmRunning(t, b)
      PROVE  IdentityNamesGuest'
  <2>1. CASE vm.handle
    BY <1>7, <2>1 DEF EnsureVmRunning, ExpectRunning, StopInitiated, StopNoted,
       IdentityNamesGuest, VmType
  <2>2. CASE ~vm.handle
    BY <1>7, <2>2 DEF EnsureVmRunning, ExpectRunning, IdentityNamesGuest, VmType
  <2> QED
    BY <2>1, <2>2
<1>8. CASE GuestBoots
  BY <1>8 DEF GuestBoots, IdentityNamesGuest, GuestType
<1>9. CASE GuestShutsDown \/ GuestCrashes
  BY <1>9, <1>d DEF GuestShutsDown, GuestCrashes, IdentityNamesGuest
<1>10. CASE GuestReboots
  BY <1>10 DEF GuestReboots, IdentityNamesGuest, GuestType
<1> QED
  BY <1>1, <1>2, <1>3, <1>4, <1>5, <1>6, <1>7, <1>8, <1>9, <1>10 DEF VmAction

\* Whatever stops, restarts, sweeps and crashes interleave, runtime_identity
\* names the process that runs, never one whose shutdown has begun.
THEOREM IdentityKept == Spec => []IdentityNamesGuest
<1>1. Init => IdentityNamesGuest
  BY DEF Init, VmInit, IdentityNamesGuest
<1>2. Types /\ IdentityNamesGuest /\ [Next]_vars => IdentityNamesGuest'
  <2> SUFFICES ASSUME Types, IdentityNamesGuest, [Next]_vars PROVE IdentityNamesGuest'
    OBVIOUS
  <2>1. UNCHANGED vmVars => IdentityNamesGuest'
    BY DEF vmVars, IdentityNamesGuest
  <2> QED
    BY <2>1, VmSteps, IdentityStep DEF Types
<1> QED
  BY <1>1, <1>2, InitTypes, TypesStep, PTL DEF Spec

----------------------------------------------------------------------------
(* The cache of the administrative state.                                  *)

\* A reader that may still store what it derived derived what is so: every
\* change of a record but into one NV does not name comes with a new epoch.
ReaderFresh ==
    /\ reader.pc # "idle" => reader.epoch <= cache.epoch
    /\ /\ reader.pc = "store" /\ reader.epoch = cache.epoch
       /\ reader.bank = disk.active /\ disk.record[disk.active] # "unpinned"
       => reader.value = Disabled(disk.active)

FreshInv == Types /\ ReaderFresh /\ CacheFresh

\* Clearing the cache takes the word of every reader.
LEMMA ClearedFresh ==
    ASSUME BackendTypes, ReaderFresh, NvWritten, reader' = reader, disk' \in DiskType
    PROVE  ReaderFresh' /\ CacheFresh'
<1>1. cache'.epoch = cache.epoch + 1 /\ cache'.value.bank = NoBank
  BY DEF NvWritten, NoValue
<1>2. cache.epoch \in Nat /\ reader.epoch \in Nat /\ disk'.active # NoBank
  BY DEF BackendTypes, CacheType, ReaderType, DiskType, Banks, NoBank
<1> QED
  BY <1>1, <1>2 DEF ReaderFresh, CacheFresh

\* No step leaves a stale state in the cache, or with a reader that may store it.
LEMMA FreshStep == FreshInv /\ [Next]_vars => FreshInv'
<1> SUFFICES ASSUME FreshInv, [Next]_vars PROVE FreshInv'
  OBVIOUS
<1> USE DEF FreshInv
<1>1. Types' /\ BackendTypes /\ disk' \in DiskType
  BY TypesStep DEF Types, BackendTypes
<1>2. ASSUME UNCHANGED <<disk, cache, reader>>
      PROVE  ReaderFresh' /\ CacheFresh'
  BY <1>2 DEF ReaderFresh, CacheFresh, Disabled
<1>3. CASE UNCHANGED <<disk, updateVars, disableVars, cacheVars>>
  BY <1>1, <1>2, <1>3 DEF disableVars, cacheVars
<1>4. CASE Update
  <2>1. reader' = reader
    BY <1>1, <1>4, UpdateCacheStep
  <2>2. CASE Arm \/ Commit \/ Rollback
    BY <1>1, <2>1, <2>2, ClearedFresh DEF Arm, Commit, Rollback
  <2>3. CASE ResetQuery \/ ResetRead \/ (\E t \in Tasks : ResetNotify(t)) \/ ResetRefused
    BY <1>1, <1>2, <2>3 DEF ResetQuery, ResetRead, ResetNotify, ResetRefused, disableVars,
       cacheVars
  <2>4. CASE ResetVerify \/ PollQuery \/ PollRecord
    BY <1>1, <1>2, <2>4 DEF ResetVerify, PollQuery, PollRecord, disableVars, cacheVars
  <2> QED
    BY <1>4, <2>2, <2>3, <2>4 DEF Update
<1>5. CASE Disable
  <2>0. CASE DisableAdmit
    BY <1>1, <1>2, <2>0 DEF DisableAdmit, NoDisabling, cacheVars
  <2>1. CASE (\E t \in Tasks : DisableStop(t)) \/ DisableFails
    <3>1. UNCHANGED <<disk, cache, reader>>
      BY <2>1 DEF DisableStop, DisableFails, cacheVars
    <3> QED
      BY <1>1, <1>2, <3>1
  <2>2. CASE DisableStopped \/ DisableNotRunning
    BY <1>1, <1>2, <2>2 DEF DisableStopped, DisableNotRunning, cacheVars
  <2>3. CASE DisableRecord \/ DisableRecordFails
    <3>1. UNCHANGED <<cache, reader>>
      BY <2>3 DEF DisableRecord, DisableRecordFails, cacheVars
    <3>2. disk' = disk \/ disk'.record[disk'.active] = "unpinned"
      BY <1>1, <2>3 DEF DisableRecord, DisableRecordFails, BackendTypes, DiskType
    <3> QED
      BY <1>1, <1>2, <3>1, <3>2 DEF ReaderFresh, CacheFresh
  <2>4. CASE DisableRatchet \/ DisableRatchetFails
    BY <1>1, <2>4, ClearedFresh DEF DisableRatchet, DisableRatchetFails, BackendTypes
  <2>5. CASE ReaderMiss
    BY <1>1, <2>5 DEF ReaderMiss, ReaderFresh, CacheFresh, Disabled, disableVars, BackendTypes,
       CacheType
  <2>6. CASE ReaderDerive
    BY <1>1, <2>6 DEF ReaderDerive, ReaderFresh, CacheFresh, Disabled, disableVars,
       BackendTypes, ReaderType
  <2>7. CASE ReaderStore
    <3>1. ReaderFresh'
      BY <2>7 DEF ReaderStore, NoReader, ReaderFresh
    <3>2. CacheFresh'
      BY <1>1, <2>7 DEF ReaderStore, StoreIfEpoch, ReaderFresh, CacheFresh, Disabled,
         disableVars, BackendTypes, CacheType
    <3> QED
      BY <1>1, <3>1, <3>2
  <2> QED
    BY <1>5, <2>0, <2>1, <2>2, <2>3, <2>4, <2>5, <2>6, <2>7 DEF Disable
<1> QED
  BY <1>3, <1>4, <1>5, BackendSteps

\* However updates, verdicts, disables and reads interleave, a cached
\* administrative state is the one the signed record has.
THEOREM CacheKeptFresh == Spec => []CacheFresh
<1>1. Init => ReaderFresh /\ CacheFresh
  BY DEF Init, VmInit, NoReader, NoValue, NoBank, ReaderFresh, CacheFresh
<1> QED
  BY <1>1, InitTypes, FreshStep, PTL DEF Spec, FreshInv

----------------------------------------------------------------------------
(* One request at a time.                                                  *)

\* What holds while no two requests were in progress at once: before the
\* autostart there is neither a process nor a request; a stop keeps the guest
\* expected down, and a restart past its stop finds it down; between requests
\* the expectation is enacted.
Serial ==
    /\ \A t, u \in Tasks : task[t] # NoTask /\ task[u] # NoTask => t = u
    /\ vm.expected = "unset" => ~vm.handle /\ \A t \in Tasks : task[t] = NoTask
    /\ \A t \in Tasks : task[t].kind = "stop" => vm.expected = "stopped"
    /\ \A t \in Tasks : task[t].pc = "start" => ~vm.handle
    /\ (\A t \in Tasks : task[t] = NoTask) =>
          /\ vm.handle => vm.expected = "running"
          /\ vm.expected = "running" /\ ~vm.failed /\ vm.bank # NoBank => vm.handle

SerialInv == Types /\ (overlapped \/ Serial)

\* A set with no two elements by number has no two.
LEMMA AtMostOne ==
    ASSUME NEW S, IsFiniteSet(S), ~(Cardinality(S) > 1), NEW x \in S, NEW y \in S
    PROVE  x = y
<1> SUFFICES ASSUME x # y PROVE FALSE
  OBVIOUS
<1>1. IsFiniteSet({x}) /\ Cardinality({x}) = 1
  BY FS_Singleton
<1>2. IsFiniteSet({x} \cup {y}) /\ Cardinality({x} \cup {y}) = 2
  <2>1. y \notin {x}
    OBVIOUS
  <2>2. /\ IsFiniteSet({x} \cup {y})
        /\ Cardinality({x} \cup {y}) =
             IF y \in {x} THEN Cardinality({x}) ELSE Cardinality({x}) + 1
    BY <1>1, FS_AddElement, Zenon
  <2> QED
    BY <1>1, <2>1, <2>2
<1>3. Cardinality({x} \cup {y}) <= Cardinality(S)
  BY FS_Subset
<1>4. Cardinality(S) \in Nat
  BY FS_CardinalityType
<1> QED
  BY <1>2, <1>3, <1>4

\* So where nothing overlaps, there is at most one request in progress.
LEMMA OneRequest ==
    ASSUME Types', [Next]_vars, ~overlapped'
    PROVE  /\ ~overlapped /\ (~Overlap \/ UNCHANGED vars)
           /\ (~Overlap => \A t, u \in Tasks : task'[t] # NoTask /\ task'[u] # NoTask => t = u)
<1>1. ~overlapped /\ (~Overlap \/ UNCHANGED vars)
  <2>1. CASE Track
    BY <2>1 DEF Track
  <2>2. CASE UNCHANGED vars
    BY <2>2 DEF vars
  <2> QED
    BY <2>1, <2>2, Tracked
<1>2. IsFiniteSet(InProgress')
  <2>1. InProgress' \subseteq Tasks
    BY DEF InProgress
  <2> QED
    BY <2>1, TasksAssumption, FS_Subset
<1>3. ASSUME ~Overlap, NEW t \in Tasks, NEW u \in Tasks, task'[t] # NoTask, task'[u] # NoTask
      PROVE  t = u
  <2>1. ~(Cardinality(InProgress') > 1)
    BY <1>3 DEF Overlap
  <2>2. t \in InProgress' /\ u \in InProgress'
    BY <1>3 DEF InProgress
  <2> QED
    BY <1>2, <2>1, <2>2, AtMostOne
<1> QED
  BY <1>1, <1>3

\* A start of a guest that is down leaves it expected up or with a reason,
\* or down and not expected.
LEMMA StartEnacts ==
    ASSUME VmTypes, NEW b \in BankOrNone, StartVm(b), ~vm.handle
    PROVE  /\ vm'.expected # "unset"
           /\ vm'.handle => vm'.expected = "running"
           /\ vm'.expected = "running" /\ ~vm'.failed /\ vm'.bank # NoBank => vm'.handle
<1> USE DEF VmTypes, ProcessTypes, VmType
<1>1. CASE StartRefused(b)
  BY <1>1 DEF StartRefused
<1>2. CASE AlreadyRunning(b)
  BY <1>2 DEF AlreadyRunning, IsRunning
<1>3. CASE NotLaunched(b)
  BY <1>3 DEF NotLaunched, Unlaunched, Cleared
<1>4. CASE Launch(b)
  BY <1>4 DEF Launch, Launched, Cleared
<1> QED
  BY <1>1, <1>2, <1>3, <1>4 DEF StartVm

\* With no request beside it, every step of vm-service or of the guest keeps
\* the expectation and the handle together.
LEMMA SerialStep ==
    ASSUME VmTypes, Serial, VmAction,
           \A t, u \in Tasks : task'[t] # NoTask /\ task'[u] # NoTask => t = u
    PROVE  Serial'
<1> USE DEF VmTypes
<1>n. NoTask.pc = "none" /\ NoTask.kind = "none"
  BY DEF NoTask
<1>k. ASSUME NEW t \in Tasks, task[t] # NoTask
      PROVE  task[t].kind = "restart" \/ (task[t].kind = "stop" /\ task[t].pc = "finalize")
  BY <1>k DEF TaskTypes, TaskType
<1>b. ASSUME NEW t \in Tasks, NEW k, NEW b, NEW pc, Begin(t, k, b, pc), k # "none"
      PROVE  /\ \A u \in Tasks : task[u] = NoTask
             /\ \A u \in Tasks \ {t} : task'[u] = NoTask
             /\ task'[t] # NoTask /\ task'[t].kind = k /\ task'[t].pc = pc
  <2>1. /\ task[t] = NoTask
        /\ task'[t] = [pc |-> pc, kind |-> k, bank |-> b]
        /\ \A u \in Tasks \ {t} : task'[u] = task[u]
    BY <1>b DEF Begin, TaskTypes
  <2>2. task'[t] # NoTask
    BY <1>b, <1>n, <2>1
  <2> QED
    BY <2>1, <2>2
<1>u. ASSUME UNCHANGED <<vm, task>> PROVE Serial'
  BY <1>u DEF Serial
<1>1. CASE AutoStart
  <2>1. ~vm.handle /\ vm.bank \in BankOrNone /\ \A t \in Tasks : task'[t] = NoTask
    BY <1>1 DEF AutoStart, Serial, ProcessTypes, VmType
  <2> QED
    BY <1>1, <1>n, <2>1, StartEnacts DEF AutoStart, Serial
<1>2. CASE Sweep
  <2>1. /\ ~vm'.handle /\ task' = task /\ vm'.bank = vm.bank
        /\ vm.handle => vm'.expected = "stopped"
        /\ ~vm.handle => vm'.expected = vm.expected /\ vm'.failed = vm.failed
    BY <1>2 DEF Sweep, Finalized, StopNoted, ProcessTypes, VmType
  <2> QED
    BY <2>1 DEF Serial
<1>3. CASE ReadHealth
  <2>1. /\ vm'.handle = vm.handle /\ vm'.expected = vm.expected /\ vm'.bank = vm.bank
        /\ task' = task /\ (vm.failed => vm'.failed)
    BY <1>3 DEF ReadHealth, Observed, ProcessTypes, VmType
  <2> QED
    BY <2>1 DEF Serial
<1>4. ASSUME NEW t \in Tasks, StopVm(t) PROVE Serial'
  <2>1. vm'.expected = "stopped"
    BY <1>4 DEF StopVm, StopInitiated, StopNoted, ProcessTypes, VmType
  <2>2. /\ \A u \in Tasks \ {t} : task'[u] = NoTask
        /\ task'[t] # NoTask /\ task'[t].kind = "stop" /\ task'[t].pc = "finalize"
    BY <1>4, <1>b DEF StopVm
  <2> QED
    BY <1>n, <2>1, <2>2 DEF Serial
<1>5. ASSUME NEW t \in Tasks, FinalizeStop(t) PROVE Serial'
  <2>1. ~vm'.handle /\ vm'.expected = vm.expected
    BY <1>5 DEF FinalizeStop, Finalized, ProcessTypes, VmType
  <2>2. task[t] # NoTask /\ \A u \in Tasks \ {t} : task[u] = NoTask /\ task'[u] = NoTask
    BY <1>5, <1>n DEF FinalizeStop, Serial, TaskTypes
  <2>3. CASE task[t].kind = "stop"
    <3>1. task'[t] = NoTask /\ vm'.expected = "stopped"
      BY <1>5, <2>1, <2>3 DEF FinalizeStop, Serial, TaskTypes
    <3> QED
      BY <1>n, <2>1, <2>2, <3>1 DEF Serial
  <2>4. CASE task[t].kind # "stop"
    <3>1. task'[t].kind = "restart" /\ task'[t].pc = "start"
      BY <1>5, <1>k, <2>2, <2>4 DEF FinalizeStop, TaskTypes, TaskType
    <3>2. vm'.expected # "unset"
      BY <2>1, <2>2 DEF Serial
    <3>3. task'[t] # NoTask
      BY <1>n, <3>1
    <3> QED
      BY <1>n, <2>1, <2>2, <3>1, <3>2, <3>3 DEF Serial
  <2> QED
    BY <2>3, <2>4
<1>6. ASSUME NEW t \in Tasks, StartAfterStop(t) PROVE Serial'
  <2>1. ~vm.handle /\ task[t] # NoTask
    BY <1>6, <1>n DEF StartAfterStop, Serial
  <2>2. (IF task[t].bank = NoBank THEN vm.bank ELSE task[t].bank) \in BankOrNone
    BY DEF ProcessTypes, VmType, TaskTypes, TaskType
  <2>3. \A u \in Tasks : task'[u] = NoTask
    BY <1>6, <2>1 DEF StartAfterStop, Serial, TaskTypes
  <2> QED
    BY <1>6, <1>n, <2>1, <2>2, <2>3, StartEnacts DEF StartAfterStop, Serial
<1>7. ASSUME NEW t \in Tasks, NEW b \in BankOrNone, EnsureVmRunning(t, b) PROVE Serial'
  <2>1. CASE vm.handle
    <3>1. vm'.expected = "running"
      BY <1>7, <2>1 DEF EnsureVmRunning, ExpectRunning, StopInitiated, StopNoted, ProcessTypes,
         VmType
    <3>2. /\ \A u \in Tasks \ {t} : task'[u] = NoTask
          /\ task'[t] # NoTask /\ task'[t].kind = "restart" /\ task'[t].pc = "finalize"
      BY <1>7, <1>b, <2>1 DEF EnsureVmRunning
    <3> QED
      BY <1>n, <3>1, <3>2 DEF Serial
  <2>2. CASE ~vm.handle
    <3>1. vm'.expected = "running" /\ ~vm'.handle
      BY <1>7, <2>2 DEF EnsureVmRunning, ExpectRunning, ProcessTypes, VmType
    <3>2. /\ \A u \in Tasks \ {t} : task'[u] = NoTask
          /\ task'[t] # NoTask /\ task'[t].kind = "restart" /\ task'[t].pc = "start"
      BY <1>7, <1>b, <2>2 DEF EnsureVmRunning
    <3> QED
      BY <1>n, <3>1, <3>2 DEF Serial
  <2> QED
    BY <2>1, <2>2
<1>8. CASE GuestBoots \/ GuestShutsDown \/ GuestCrashes \/ GuestReboots
  BY <1>8, <1>u DEF GuestBoots, GuestShutsDown, GuestCrashes, GuestReboots
<1> QED
  BY <1>1, <1>2, <1>3, <1>4, <1>5, <1>6, <1>7, <1>8 DEF VmAction

\* Serial is inductive while nothing overlaps.
LEMMA SerialInvStep == SerialInv /\ [Next]_vars => SerialInv'
<1> SUFFICES ASSUME SerialInv, [Next]_vars, ~overlapped' PROVE Serial'
  BY TypesStep DEF SerialInv
<1>1. Types /\ Types'
  BY TypesStep DEF SerialInv
<1>2. ~overlapped /\ Serial
  BY <1>1, OneRequest DEF SerialInv
<1>3. UNCHANGED vmVars => Serial'
  BY <1>2 DEF vmVars, Serial
<1>4. UNCHANGED vars => Serial'
  BY <1>3 DEF vars
<1>5. ASSUME VmAction, ~Overlap PROVE Serial'
  BY <1>1, <1>2, <1>5, OneRequest, SerialStep DEF Types
<1> QED
  BY <1>1, <1>3, <1>4, <1>5, VmSteps, OneRequest DEF Types

\* Unless requests overlap, every stop, restart, sweep, crash and failed launch
\* leaves the guest as it was last asked for, or with a reason.
THEOREM IntentKept == Spec => []IntentEnactedUnlessOverlapped
<1>1. Init => Serial
  BY DEF Init, VmInit, Serial, NoTask
<1>2. SerialInv => IntentEnactedUnlessOverlapped
  BY DEF SerialInv, Serial, IntentEnactedUnlessOverlapped, IntentEnacted, Settled, InProgress
<1> QED
  BY <1>1, <1>2, InitTypes, SerialInvStep, PTL DEF Spec, SerialInv

----------------------------------------------------------------------------
(* A disabled guest is down.                                               *)

\* While nothing overlaps and no stop a rollback owes may be lost: no restart
\* runs into a disable; from the answer to the stop on the guest is down; and
\* the guest of a disabled bank is down unless a rollback just landed there.
Down ==
    /\ disabling.pc # "idle" =>
          disabling.kind # "none" /\ \A t \in Tasks : task[t].kind # "restart"
    /\ disabling.pc \in {"record", "ratchet"} => ~vm.handle
    /\ disabling.pc = "wait" /\ (\A t \in disabling.task : task[t] = NoTask) => ~vm.handle
    /\ (disabling.pc = "idle" \/ disabling.kind = "disable") /\ Disabled(disk.active)
          => ~vm.handle
    /\ disabling.kind = "rollback" => "update" \in traffic

StopMayBeLost == {"update", "lost"} \subseteq traffic

DownInv == Types /\ (overlapped \/ StopMayBeLost \/ Down)

\* A process comes only of a launch, past the gate and with the next generation.
LEMMA HandleStep ==
    ASSUME VmTypes, VmAction, vm'.handle, ~vm.handle
    PROVE  Gate /\ guest'.pid # guest.pid
<1> USE DEF VmTypes, ProcessTypes, VmType
<1>s. ASSUME NEW b, StartVm(b) PROVE Gate /\ guest'.pid # guest.pid
  <2>1. ~StartRefused(b) /\ ~AlreadyRunning(b)
    BY DEF StartRefused, AlreadyRunning
  <2>2. ~NotLaunched(b)
    BY DEF NotLaunched, Unlaunched, Cleared
  <2>3. Launch(b) => Gate /\ guest'.pid # guest.pid
    BY DEF Launch, GuestType
  <2> QED
    BY <1>s, <2>1, <2>2, <2>3 DEF StartVm
<1>1. ~Sweep /\ ~ReadHealth
  BY DEF Sweep, Finalized, StopNoted, ReadHealth, Observed
<1>2. ASSUME NEW t \in Tasks
      PROVE  ~StopVm(t) /\ ~FinalizeStop(t) /\ \A b \in BankOrNone : ~EnsureVmRunning(t, b)
  BY DEF StopVm, FinalizeStop, Finalized, EnsureVmRunning, ExpectRunning
<1>3. ~GuestBoots /\ ~GuestShutsDown /\ ~GuestCrashes /\ ~GuestReboots
  BY DEF GuestBoots, GuestShutsDown, GuestCrashes, GuestReboots
<1> QED
  BY <1>s, <1>1, <1>2, <1>3 DEF VmAction, AutoStart, StartAfterStop

\* A stop in progress ends in finalize_stop, with the process gone.
LEMMA EndStep ==
    ASSUME VmTypes, VmAction, NEW t \in Tasks, task[t] # NoTask, task'[t] = NoTask
    PROVE  ~vm'.handle \/ task[t].kind = "restart"
<1> USE DEF VmTypes
<1>b. ASSUME NEW u \in Tasks, NEW k, NEW b, NEW pc, Begin(u, k, b, pc)
      PROVE  u = t \/ task'[t] = task[t]
  BY <1>b DEF Begin, TaskTypes
<1>c. ASSUME NEW u \in Tasks, NEW k, NEW b, NEW pc, Begin(u, k, b, pc) PROVE FALSE
  BY <1>b, <1>c DEF Begin
<1>1. ~AutoStart /\ ~Sweep /\ ~ReadHealth
  BY DEF AutoStart, Sweep, ReadHealth
<1>2. ASSUME NEW u \in Tasks
      PROVE  ~StopVm(u) /\ \A b \in BankOrNone : ~EnsureVmRunning(u, b)
  BY <1>c DEF StopVm, EnsureVmRunning
<1>3. ASSUME NEW u \in Tasks, FinalizeStop(u) PROVE ~vm'.handle
  BY <1>3 DEF FinalizeStop, Finalized, ProcessTypes, VmType
<1>4. ASSUME NEW u \in Tasks, StartAfterStop(u) PROVE task[t].kind = "restart"
  <2>1. u = t
    BY <1>4 DEF StartAfterStop, TaskTypes
  <2> QED
    BY <1>4, <2>1 DEF StartAfterStop, TaskTypes, TaskType
<1>5. ~GuestBoots /\ ~GuestShutsDown /\ ~GuestCrashes /\ ~GuestReboots
  BY DEF GuestBoots, GuestShutsDown, GuestCrashes, GuestReboots
<1> QED
  BY <1>1, <1>2, <1>3, <1>4, <1>5 DEF VmAction

\* What no overlap says of a step into or within a disable.
LEMMA NoRelaunch ==
    ASSUME TaskTypes', ~Overlap, disabling'.pc # "idle"
    PROVE  guest'.pid = guest.pid /\ \A t \in Tasks : task'[t].kind # "restart"
<1>1. ASSUME NEW t \in Tasks, task'[t].kind = "restart" PROVE t \in InProgress'
  BY <1>1 DEF InProgress, NoTask
<1> QED
  BY <1>1 DEF Overlap

\* Steps that leave the disable and the records alone keep Down.
LEMMA DownVmStep ==
    ASSUME Types, Types', Down, ~Overlap, VmAction, UNCHANGED <<disk, disabling, traffic>>
    PROVE  Down'
<1> USE DEF Types
<1>r. disabling'.pc # "idle" => guest'.pid = guest.pid /\ \A t \in Tasks : task'[t].kind # "restart"
  BY NoRelaunch DEF VmTypes
<1>h. vm'.handle => vm.handle \/ (Gate /\ disabling.pc = "idle")
  BY <1>r, HandleStep
<1>1. disabling'.pc # "idle" =>
         disabling'.kind # "none" /\ \A t \in Tasks : task'[t].kind # "restart"
  BY <1>r DEF Down
<1>2. disabling'.pc \in {"record", "ratchet"} => ~vm'.handle
  BY <1>h DEF Down
<1>3. ASSUME disabling'.pc = "wait", \A t \in disabling'.task : task'[t] = NoTask
      PROVE  ~vm'.handle
  <2>1. CASE \A t \in disabling.task : task[t] = NoTask
    BY <1>3, <1>h, <2>1 DEF Down
  <2>2. ASSUME NEW t \in disabling.task, task[t] # NoTask PROVE ~vm'.handle
    <3>1. t \in Tasks
      BY DEF BackendTypes, DisablingType
    <3> QED
      BY <1>3, <2>2, <3>1, EndStep DEF Down
  <2> QED
    BY <2>1, <2>2
<1>4. (disabling'.pc = "idle" \/ disabling'.kind = "disable")
      /\ disk'.record[disk'.active] = "sentinel"
         => ~vm'.handle
  BY <1>h DEF Down, Disabled, Gate
<1>5. disabling'.kind = "rollback" => "update" \in traffic'
  BY DEF Down
<1> QED
  BY <1>1, <1>2, <1>3, <1>4, <1>5 DEF Down, Disabled

\* So do the flash, the verdict and the reset.
LEMMA DownUpdateStep ==
    ASSUME Types, Types', Down, ~Overlap, Update, UNCHANGED traffic
    PROVE  Down'
<1>d. disk \in DiskType /\ disk.active \in Banks /\ Other(disk.active) \in Banks
  BY DEF Types, BackendTypes, DiskType, Other, Banks
<1>1. CASE Arm
  <2>1. /\ disabling' = disabling /\ disabling.pc = "idle" /\ vm' = vm /\ task' = task
    BY <1>1 DEF Arm, disableVars, vmVars, NoDisabling
  <2>2. disk'.record[disk'.active] = "firmware"
    BY <1>1, <1>d DEF Arm, DiskType
  <2> QED
    BY <2>1, <2>2 DEF Down, Disabled
<1>2. CASE Commit
  <2>1. /\ disabling' = disabling /\ vm' = vm /\ task' = task
        /\ disk'.record = disk.record /\ disk'.active = disk.active
    BY <1>2, <1>d DEF Commit, disableVars, vmVars, DiskType
  <2> QED
    BY <2>1 DEF Down, Disabled
<1>3. CASE Rollback
  <2>1. /\ disk'.active = Other(disk.active)
        /\ disk'.record[Other(disk.active)] = disk.record[Other(disk.active)]
    BY <1>3, <1>d DEF Rollback, DiskType, Other, Banks
  <2>2. CASE Disabled(Other(disk.active))
    <3>1. disabling'.pc = "stop" /\ disabling'.kind = "rollback" /\ "update" \in traffic'
      BY <1>3, <2>2 DEF Rollback, NoDisabling
    <3>2. \A t \in Tasks : task'[t].kind # "restart"
      BY <3>1, NoRelaunch DEF Types, VmTypes
    <3> QED
      BY <3>1, <3>2 DEF Down
  <2>3. CASE ~Disabled(Other(disk.active))
    <3>1. disabling' = disabling /\ disabling.pc = "idle" /\ disabling.kind = "none"
      BY <1>3, <2>3 DEF Rollback, NoDisabling
    <3> QED
      BY <2>1, <2>3, <3>1 DEF Down, Disabled
  <2> QED
    BY <2>2, <2>3
<1>4. ASSUME ~Arm, ~Commit, ~Rollback PROVE UNCHANGED <<disk, disabling>>
  BY <1>4 DEF Update, ResetQuery, ResetRead, ResetNotify, ResetRefused, ResetVerify, PollQuery,
     PollRecord, disableVars
<1>5. VmAction \/ UNCHANGED vmVars
  BY VmSteps DEF Types, Next
<1>6. ASSUME UNCHANGED vmVars, UNCHANGED <<disk, disabling>> PROVE Down'
  BY <1>6 DEF Down, Disabled, vmVars
<1> QED
  BY <1>1, <1>2, <1>3, <1>4, <1>5, <1>6, DownVmStep

\* And the disable itself.
LEMMA DownDisableStep ==
    ASSUME Types, Types', Down, ~StopMayBeLost, ~Overlap, Disable, UNCHANGED traffic
    PROVE  Down'
<1>d. /\ disk \in DiskType /\ disk.active \in Banks
      /\ disabling \in DisablingType
  BY DEF Types, BackendTypes, DiskType
<1>r. disabling'.pc # "idle" => \A t \in Tasks : task'[t].kind # "restart"
  BY NoRelaunch DEF Types, VmTypes
<1>1. CASE DisableAdmit
  <2>1. /\ disabling'.pc = "stop" /\ disabling'.kind = "disable" /\ disabling.pc = "idle"
        /\ vm' = vm /\ disk' = disk
    BY <1>1 DEF DisableAdmit, NoDisabling, vmVars
  <2> QED
    BY <1>r, <2>1 DEF Down, Disabled
<1>2. ASSUME NEW t \in Tasks, DisableStop(t) PROVE Down'
  <2>1. /\ disabling.pc = "stop" /\ disabling'.pc = "wait" /\ disabling'.kind = disabling.kind
        /\ disabling'.task = {t} /\ disk' = disk
    BY <1>2, <1>d DEF DisableStop, DisablingType
  <2>2. vm.handle /\ task'[t] # NoTask
    BY <1>2 DEF DisableStop, StopVm, Begin, NoTask, Types, VmTypes, TaskTypes
  <2> QED
    BY <1>r, <2>1, <2>2 DEF Down, Disabled
<1>3. ASSUME ~vm.handle, Stopped, UNCHANGED <<vmVars, disk>>, disabling.pc \in {"stop", "wait"}
      PROVE  Down'
  <2>1. vm' = vm /\ task' = task
    BY <1>3 DEF vmVars
  <2>2. CASE disabling.kind = "rollback"
    <3>1. disabling'.pc = "idle" /\ disabling'.kind = "none"
      BY <1>3, <2>2 DEF Stopped, NoDisabling
    <3> QED
      BY <1>3, <2>1, <3>1 DEF Down
  <2>3. CASE disabling.kind # "rollback"
    <3>1. disabling'.pc = "record" /\ disabling'.kind = disabling.kind
      BY <1>3, <1>d, <2>3 DEF Stopped, DisablingType
    <3> QED
      BY <1>3, <1>r, <2>1, <3>1 DEF Down
  <2> QED
    BY <2>2, <2>3
<1>4. CASE DisableStopped
  BY <1>3, <1>4 DEF DisableStopped, Down
<1>5. CASE DisableNotRunning
  BY <1>3, <1>5 DEF DisableNotRunning
<1>6. CASE DisableFails
  <2>1. disabling.kind = "disable"
    <3>1. disabling.pc # "idle" /\ "lost" \in traffic
      BY <1>6 DEF DisableFails
    <3> QED
      BY <1>d, <3>1 DEF Down, StopMayBeLost, DisablingType
  <2>2. disabling'.pc = "idle" /\ disabling'.kind = "none" /\ vm' = vm /\ disk' = disk
    BY <1>6 DEF DisableFails, NoDisabling, vmVars
  <2> QED
    BY <2>1, <2>2 DEF Down, Disabled
<1>7. CASE DisableRecord
  <2>1. /\ disabling.pc = "record" /\ disabling'.pc = "ratchet"
        /\ disabling'.kind = disabling.kind /\ vm' = vm
    BY <1>7, <1>d DEF DisableRecord, DisablingType, vmVars
  <2> QED
    BY <1>r, <2>1 DEF Down
<1>8. CASE DisableRatchet
  <2>1. /\ disabling.pc = "ratchet" /\ disabling'.pc = "idle" /\ disabling'.kind = "none"
        /\ vm' = vm
    BY <1>8 DEF DisableRatchet, NoDisabling, vmVars
  <2> QED
    BY <2>1 DEF Down
<1>9. CASE ReaderMiss \/ ReaderDerive \/ ReaderStore
  BY <1>9 DEF ReaderMiss, ReaderDerive, ReaderStore, disableVars, vmVars, Down, Disabled
<1>10. CASE WriteFails
  <2>1. /\ disabling.pc \in {"record", "ratchet"} /\ disabling'.pc = "idle"
        /\ disabling'.kind = "none" /\ vm' = vm
    BY <1>10 DEF WriteFails, DisableRecordFails, DisableRatchetFails, NoDisabling, vmVars
  <2> QED
    BY <2>1 DEF Down
<1> QED
  BY <1>1, <1>2, <1>4, <1>5, <1>6, <1>7, <1>8, <1>9, <1>10 DEF Disable, WriteFails

\* Down is inductive while nothing overlaps and no stop may be lost.
LEMMA DownInvStep == DownInv /\ [Next]_vars => DownInv'
<1> SUFFICES ASSUME DownInv, [Next]_vars, ~overlapped', ~StopMayBeLost' PROVE Down'
  BY TypesStep DEF DownInv
<1>1. Types /\ Types'
  BY TypesStep DEF DownInv
<1>2. UNCHANGED traffic
  BY Tracked DEF Track, vars
<1>3. ~overlapped /\ ~StopMayBeLost /\ Down
  BY <1>1, <1>2, OneRequest DEF DownInv, StopMayBeLost
<1>4. CASE UNCHANGED vars
  BY <1>3, <1>4 DEF vars, vmVars, disableVars, Down, Disabled
<1>5. CASE ~Overlap
  <2>1. ASSUME VmService \/ Guest PROVE VmAction /\ UNCHANGED <<disk, disabling>>
    <3>1. VmService => VmAction /\ UNCHANGED <<disk, disabling>>
      BY DEF VmService, VmAction, BankOrNone, Rest, disableVars
    <3>2. Guest => VmAction /\ UNCHANGED <<disk, disabling>>
      BY DEF Guest, VmAction, Rest, disableVars
    <3> QED
      BY <2>1, <3>1, <3>2
  <2>2. VmService \/ Guest => Down'
    BY <1>1, <1>2, <1>3, <1>5, <2>1, DownVmStep
  <2>3. Update => Down'
    BY <1>1, <1>2, <1>3, <1>5, DownUpdateStep
  <2>4. Disable => Down'
    BY <1>1, <1>2, <1>3, <1>5, DownDisableStep
  <2> QED
    BY <1>4, <2>2, <2>3, <2>4 DEF Next
<1> QED
  BY <1>1, <1>4, <1>5, OneRequest

\* A disabled component's guest is down once nothing is in progress, whatever
\* was asked for since: unless requests overlapped, or the stop a rollback
\* owes was lost.
THEOREM DisabledKeptDown == Spec => []DisabledIsDown
<1>1. Init => Down
  BY DEF Init, VmInit, Down, NoDisabling
<1>2. DownInv => DisabledIsDown
  BY DEF DownInv, Types, VmTypes, ProcessTypes, Down, StopMayBeLost, DisabledIsDown, Settled,
     NoDisabling
<1> QED
  BY <1>1, <1>2, InitTypes, DownInvStep, PTL DEF Spec, DownInv

----------------------------------------------------------------------------
(* What get_activation_state takes for the update's first boot.            *)

\* Only a rollback that owes a stop keeps a transfer whose trial bank is gone.
TransferHeld ==
    /\ disabling.pc = "idle" => disabling.kind = "none"
    /\ disabling.pc \in {"record", "ratchet"} => disabling.kind # "rollback"
    /\ transfer # NoTransfer /\ disabling.kind # "rollback" =>
          ~disk.committed /\ disk.image[disk.active] = transfer.id

\* A heartbeat that says running is of a boot.
RegionHeld == region.state = "running" => region.boot # 0

\* The serving bank ecu_reset has read.
ResetBankHeld ==
    reset.pc = "notify" /\ transfer # NoTransfer /\ disabling.kind # "rollback"
        => reset.bank = disk.active

\* The heartbeat of boot k, if it is not the one witnessed, is of an image; with
\* no witness this is known only of a region that is cleared, under a process.
Up == ~deploy.persistent /\ IsRunning
FreshIn(base, id, bs, k, up) ==
    k # 0 /\ k # base /\ (base = NotRunning => up) => bs[k] = id

Witnessed ==
    /\ transfer # NoTransfer /\ reset.pc # "idle"
          => FreshIn(reset.baseline, transfer.id, boots, region.boot, Up)
    /\ transfer.state = "verifying"
          => FreshIn(transfer.baseline, transfer.id, boots, region.boot, Up)

\* The reset's relaunch was asked for and answered.
Relaunched == transfer # NoTransfer /\ (transfer.state = "verifying" \/ reset.pc = "verify")

\* Past the stop that comes first, what runs is the image of the transfer, and
\* what is launched next will be.
Underway ==
    /\ vm.expected # "unset"
    /\ (\A t \in Tasks : task[t].pc # "finalize") /\ guest.alive => guest.img = transfer.id
NextBank(t) == IF task[t].bank = NoBank THEN vm.bank ELSE task[t].bank
Onto(b) == b \in Banks /\ disk.image[b] = transfer.id
Aimed ==
    /\ \A t \in Tasks : task[t].kind = "restart" => Onto(NextBank(t))
    /\ (\A t \in Tasks : task[t].kind # "restart") => Onto(vm.bank)
RelaunchHeld == Relaunched => Underway /\ (disabling.kind # "rollback" => Aimed)

Attempt == Serial /\ ResetBankHeld /\ Witnessed /\ RelaunchHeld

\* A poll's answer, whatever becomes of the guest before it is recorded.
PollHeld ==
    poll # NoPoll =>
        /\ poll.boot \in 1 .. Len(boots)
        /\ ~overlapped /\ (poll.baseline = NotRunning => ~deploy.persistent)
              => boots[poll.boot] = poll.id

AttemptInv ==
    /\ Types /\ TransferHeld /\ RegionHeld /\ PollHeld
    /\ overlapped \/ Attempt

\* The armed image is the transfer's until a commit or a rollback ends it.
LEMMA TransferHeldStep ==
    ASSUME BackendTypes, TransferHeld, [Next]_vars
    PROVE  TransferHeld'
<1>d. /\ disk \in DiskType /\ disk.active \in Banks /\ Other(disk.active) \in Banks
      /\ disabling \in DisablingType /\ transfer \in TransferType
  BY DEF BackendTypes, DiskType, Other, Banks
<1>n. NoTransfer.id = 0 /\ NoDisabling.pc = "idle" /\ NoDisabling.kind = "none"
  BY DEF NoTransfer, NoDisabling
<1>1. CASE Arm
  <2>1. disabling' = disabling /\ disabling = NoDisabling
    BY <1>1 DEF Arm, disableVars
  <2>2. ~disk'.committed /\ disk'.image[disk'.active] = images + 1 /\ transfer'.id = images + 1
    BY <1>1, <1>d DEF Arm, DiskType
  <2> QED
    BY <1>n, <2>1, <2>2 DEF TransferHeld
<1>2. CASE Commit
  <2>1. disabling' = disabling /\ transfer' = NoTransfer
    BY <1>2 DEF Commit, disableVars
  <2> QED
    BY <2>1 DEF TransferHeld
<1>3. CASE Rollback
  <2>1. \/ disabling'.kind = "rollback" /\ disabling'.pc = "stop"
        \/ disabling' = disabling /\ disabling = NoDisabling /\ transfer' = NoTransfer
    BY <1>3 DEF Rollback, NoDisabling
  <2> QED
    BY <1>n, <2>1 DEF TransferHeld
<1>4. ASSUME disabling' = disabling, disk' = disk, transfer'.id = transfer.id,
             transfer # NoTransfer \/ transfer' = transfer
      PROVE  TransferHeld'
  BY <1>4 DEF TransferHeld
<1>5. CASE ResetQuery \/ ResetRead \/ (\E t \in Tasks : ResetNotify(t)) \/ ResetRefused \/ PollQuery
  BY <1>4, <1>5 DEF ResetQuery, ResetRead, ResetNotify, ResetRefused, PollQuery, disableVars
<1>6. CASE ResetVerify
  BY <1>4, <1>6, <1>d DEF ResetVerify, disableVars, TransferType
<1>7. CASE PollRecord
  <2>1. Unmoved => transfer # NoTransfer
    BY DEF Unmoved, NoTransfer
  <2>2. transfer' = transfer \/ (Unmoved /\ transfer'.id = transfer.id)
    BY <1>7, <1>d DEF PollRecord, TransferType
  <2> QED
    BY <1>4, <1>7, <2>1, <2>2 DEF PollRecord, disableVars
<1>8. CASE DisableAdmit
  <2>1. /\ disabling'.pc = "stop" /\ disabling'.kind = "disable" /\ disabling = NoDisabling
        /\ disk' = disk /\ transfer' = transfer
    BY <1>8 DEF DisableAdmit, NoDisabling, updateVars
  <2> QED
    BY <1>n, <2>1 DEF TransferHeld
<1>9. CASE \E t \in Tasks : DisableStop(t)
  <2>1. /\ disabling'.pc = "wait" /\ disabling'.kind = disabling.kind
        /\ disk' = disk /\ transfer' = transfer
    BY <1>9, <1>d DEF DisableStop, DisablingType, updateVars
  <2> QED
    BY <2>1 DEF TransferHeld
<1>10. CASE DisableStopped \/ DisableNotRunning
  <2>1. \/ disabling' = NoDisabling /\ transfer' = NoTransfer
        \/ /\ disabling'.pc = "record" /\ disabling'.kind = disabling.kind
           /\ disabling.kind # "rollback" /\ transfer' = transfer
    BY <1>10, <1>d DEF DisableStopped, DisableNotRunning, Stopped, DisablingType
  <2>2. disk' = disk
    BY <1>10 DEF DisableStopped, DisableNotRunning
  <2> QED
    BY <1>n, <2>1, <2>2 DEF TransferHeld
<1>11. CASE DisableFails
  <2>1. /\ disabling' = NoDisabling /\ disk' = disk
        /\ (transfer' = NoTransfer \/ (transfer' = transfer /\ disabling.kind # "rollback"))
    BY <1>11 DEF DisableFails
  <2> QED
    BY <1>n, <2>1 DEF TransferHeld
<1>12. CASE DisableRecord \/ DisableRatchet \/ WriteFails
  <2>1. /\ disabling.kind # "rollback" /\ transfer' = transfer
        /\ disk'.image = disk.image /\ disk'.active = disk.active
        /\ disk'.committed = disk.committed
    BY <1>12, <1>d DEF DisableRecord, DisableRatchet, WriteFails, DisableRecordFails,
       DisableRatchetFails, DiskType, TransferHeld, updateVars
  <2>2. disabling' = NoDisabling \/ (disabling'.pc = "ratchet" /\ disabling'.kind = disabling.kind)
    BY <1>12, <1>d DEF DisableRecord, DisableRatchet, WriteFails, DisableRecordFails,
       DisableRatchetFails, DisablingType
  <2> QED
    BY <1>n, <2>1, <2>2 DEF TransferHeld
<1>13. CASE ReaderMiss \/ ReaderDerive \/ ReaderStore
  BY <1>4, <1>13 DEF ReaderMiss, ReaderDerive, ReaderStore, disableVars, updateVars
<1>14. CASE UNCHANGED <<disk, updateVars, disableVars, cacheVars>>
  BY <1>4, <1>14 DEF disableVars, updateVars
<1>15. CASE Update
  BY <1>15, <1>1, <1>2, <1>3, <1>5, <1>6, <1>7 DEF Update
<1>16. CASE Disable
  BY <1>16, <1>8, <1>9, <1>10, <1>11, <1>12, <1>13 DEF Disable, WriteFails
<1> QED
  BY <1>14, <1>15, <1>16, BackendSteps

\* The heartbeat is of the last boot or cleared; a process that comes up where
\* the region is cleared finds it so.
LEMMA RegionStep ==
    ASSUME VmTypes, RegionHeld, VmAction, deploy' = deploy
    PROVE  /\ RegionHeld'
           /\ \/ GuestBoots
              \/ /\ boots' = boots /\ region'.boot \in {0, region.boot}
                 /\ Up' => Up \/ region'.boot = 0
<1> USE DEF VmTypes
<1> DEFINE Kept == /\ boots' = boots /\ region'.boot \in {0, region.boot}
                   /\ region'.state \in {region.state, "none", "shutting_down"}
                   /\ region'.boot = 0 => region'.state # "running" \/ region' = region
                   /\ Up' => Up \/ region'.boot = 0
<1>k. Kept => RegionHeld'
  BY DEF RegionHeld
<1> HIDE DEF Kept
<1>r. /\ Released.boot \in {0, region.boot} /\ Released.state \in {region.state, "none"}
      /\ Released.boot = 0 => Released.state # "running" \/ Released = region
      /\ ~deploy.persistent => Released.boot = 0
  BY DEF Released, NoBeat
<1>d. ~Dead.alive
  BY DEF Dead, NoGuest
<1>u. ASSUME UNCHANGED <<region, boots>>, IsRunning' => IsRunning PROVE Kept
  BY <1>u DEF Kept, Up
<1>v. ASSUME region' = Released, boots' = boots PROVE Kept
  BY <1>r, <1>v DEF Kept, Up
<1>i. IsRunning' = (vm'.handle /\ (guest'.alive \/ ~deploy.reaps))
  BY DEF IsRunning
<1>s. ASSUME NEW b, StartVm(b) PROVE Kept
  <2>1. CASE StartRefused(b) \/ AlreadyRunning(b)
    <3>1. vm'.handle = vm.handle /\ guest' = guest /\ UNCHANGED <<region, boots>>
      BY <2>1 DEF StartRefused, AlreadyRunning, ProcessTypes, VmType
    <3> QED
      BY <1>i, <1>u, <3>1 DEF IsRunning
  <2>2. CASE NotLaunched(b) \/ Launch(b)
    BY <1>v, <2>2 DEF NotLaunched, Launch
  <2> QED
    BY <1>s, <2>1, <2>2 DEF StartVm
<1>t. guest' = Told => (IsRunning => guest'.alive = guest.alive) /\ (~IsRunning => ~guest'.alive)
  BY <1>d DEF Told, ProcessTypes, GuestType
<1>1. ASSUME AutoStart \/ Sweep \/ (\E t \in Tasks : FinalizeStop(t) \/ StartAfterStop(t))
      PROVE  Kept
  BY <1>1, <1>s, <1>v DEF AutoStart, Sweep, FinalizeStop, StartAfterStop
<1>2. ASSUME ReadHealth PROVE Kept
  <2>1. vm'.handle = vm.handle
    BY <1>2 DEF ReadHealth, Observed, ProcessTypes, VmType
  <2> QED
    BY <1>2, <1>i, <1>u, <2>1 DEF ReadHealth, IsRunning
<1>3. ASSUME NEW t \in Tasks, StopVm(t) PROVE Kept
  <2>1. vm'.handle = IsRunning
    BY <1>3 DEF StopVm, StopInitiated, StopNoted, ProcessTypes, VmType, IsRunning
  <2> QED
    BY <1>3, <1>i, <1>t, <1>u, <2>1 DEF StopVm
<1>4. ASSUME NEW t \in Tasks, NEW b \in BankOrNone, EnsureVmRunning(t, b) PROVE Kept
  <2>1. IsRunning' => IsRunning
    <3>1. CASE vm.handle
      <4>1. vm'.handle = IsRunning
        BY <1>4, <3>1 DEF EnsureVmRunning, ExpectRunning, StopInitiated, StopNoted,
           ProcessTypes, VmType, IsRunning
      <4> QED
        BY <1>i, <4>1
    <3>2. CASE ~vm.handle
      BY <1>4, <1>i, <3>2 DEF EnsureVmRunning, ExpectRunning, ProcessTypes, VmType
    <3> QED
      BY <3>1, <3>2
  <2> QED
    BY <1>4, <1>u, <2>1 DEF EnsureVmRunning
<1>5. CASE GuestBoots
  <2>1. region'.boot = Len(boots) + 1 /\ Len(boots) \in Nat
    BY <1>5 DEF GuestBoots, ProcessTypes
  <2> QED
    BY <1>5, <2>1 DEF RegionHeld
<1>6. CASE GuestShutsDown
  <2>1. /\ region'.boot = region.boot /\ (region' = region \/ region'.state = "shutting_down")
        /\ boots' = boots
    BY <1>6 DEF GuestShutsDown, ProcessTypes, RegionType
  <2>2. IsRunning' => IsRunning
    BY <1>6, <1>i, <1>d DEF GuestShutsDown, IsRunning
  <2> QED
    BY <1>k, <2>1, <2>2 DEF Kept, Up
<1>7. CASE GuestCrashes
  BY <1>7, <1>i, <1>d, <1>u, <1>k DEF GuestCrashes, IsRunning, Kept
<1>8. CASE GuestReboots
  <2>1. guest'.alive = guest.alive
    BY <1>8 DEF GuestReboots, ProcessTypes, GuestType
  <2> QED
    BY <1>8, <1>i, <1>u, <1>k, <2>1 DEF GuestReboots, IsRunning, Kept
<1>9. Kept => boots' = boots /\ region'.boot \in {0, region.boot} /\ (Up' => Up \/ region'.boot = 0)
  BY DEF Kept
<1> QED
  BY <1>1, <1>2, <1>3, <1>4, <1>5, <1>6, <1>7, <1>8, <1>9, <1>k DEF VmAction

\* Only a reset that was answered makes a transfer relaunched, and it is the
\* transfer the reset began with.
LEMMA RelaunchedStep ==
    ASSUME BackendTypes, [Next]_vars, ~Overlap \/ UNCHANGED vars, Relaunched'
    PROVE  /\ transfer # NoTransfer /\ transfer'.id = transfer.id /\ ~Arm
           /\ Relaunched \/ \E t \in Tasks : ResetNotify(t)
<1>d. transfer \in TransferType /\ reset \in ResetType
  BY DEF BackendTypes
<1>n. NoTransfer.state = "none"
  BY DEF NoTransfer
<1>1. ~Arm
  <2> SUFFICES ASSUME Arm PROVE FALSE
    OBVIOUS
  <2>1. images' # images
    BY UpdateBoundsAssumption DEF Arm, BackendTypes
  <2>2. reset.pc = "idle"
    BY <2>1 DEF Overlap, vars, updateVars
  <2>3. reset' = reset /\ transfer'.state = "awaiting_reboot"
    BY DEF Arm
  <2> QED
    BY <2>2, <2>3 DEF Relaunched
<1>2. ASSUME UNCHANGED <<transfer, reset>> \/ (transfer' = transfer /\ reset'.pc # "verify")
      PROVE  transfer # NoTransfer /\ transfer'.id = transfer.id /\ Relaunched
  BY <1>2 DEF Relaunched
<1>3. CASE UNCHANGED <<disk, updateVars, disableVars, cacheVars>>
  BY <1>1, <1>2, <1>3 DEF updateVars
<1>4. CASE Update
  <2>1. ~Commit
    BY <1>n DEF Commit, Relaunched
  <2>2. CASE Rollback
    BY <1>1, <1>2, <2>2 DEF Rollback, Relaunched
  <2>3. CASE ResetQuery \/ ResetRead
            \/ ResetRefused \/ PollQuery
    <3>1. transfer' = transfer
      BY <2>3 DEF ResetQuery, ResetRead, ResetRefused, PollQuery
    <3>2. ResetQuery \/ ResetRead \/ ResetRefused => reset'.pc # "verify"
      <4>1. ResetQuery => reset'.pc = "read"
        BY DEF ResetQuery
      <4>2. ResetRead => reset'.pc = "notify"
        BY <1>d DEF ResetRead, ResetType
      <4>3. ResetRefused => reset'.pc = "idle"
        BY DEF ResetRefused, ResetEnds, NoReset
      <4> QED
        BY <4>1, <4>2, <4>3
    <3>3. PollQuery => reset' = reset
      BY DEF PollQuery
    <3> QED
      BY <1>1, <1>2, <2>3, <3>1, <3>2, <3>3
  <2>4. ASSUME NEW t \in Tasks, ResetNotify(t) PROVE transfer' = transfer
    BY <2>4 DEF ResetNotify
  <2>5. CASE ResetVerify
    BY <1>1, <1>d, <2>5 DEF ResetVerify, Relaunched, TransferType
  <2>6. CASE PollRecord
    <3>1. UNCHANGED <<transfer, reset>> \/ Unmoved
      BY <2>6 DEF PollRecord
    <3>2. CASE Unmoved
      BY <1>1, <1>d, <1>n, <2>6, <3>2 DEF PollRecord, Unmoved, Relaunched, TransferType
    <3> QED
      BY <1>1, <1>2, <3>1, <3>2
  <2> QED
    BY <1>1, <1>4, <2>1, <2>2, <2>3, <2>4, <2>5, <2>6 DEF Update, Relaunched
<1>5. CASE Disable
  <2>1. transfer' = transfer /\ reset' = reset
    BY <1>5 DEF Disable, DisableAdmit, DisableStop, DisableStopped, DisableNotRunning,
       Stopped, DisableFails, DisableRecord, DisableRecordFails, DisableRatchet,
       DisableRatchetFails, ReaderMiss, ReaderDerive,
       ReaderStore, updateVars, Relaunched
  <2> QED
    BY <1>1, <1>2, <2>1
<1> QED
  BY <1>3, <1>4, <1>5, BackendSteps

\* A restart begun beside no other request, onto the image of the transfer.
LEMMA EnsureRelaunches ==
    ASSUME VmTypes, Serial, NEW t \in Tasks, NEW b \in BankOrNone, EnsureVmRunning(t, b),
           \A u, w \in Tasks : task'[u] # NoTask /\ task'[w] # NoTask => u = w
    PROVE  /\ Underway'
           /\ vm'.bank = vm.bank /\ task'[t].bank = b /\ task'[t].kind = "restart"
           /\ \A u \in Tasks \ {t} : task'[u] = NoTask
<1> USE DEF VmTypes
<1>1. PICK pc \in {"finalize", "start"} :
            Begin(t, "restart", b, pc) /\ (pc = "start" => ~vm.handle)
  BY DEF EnsureVmRunning
<1>2. task'[t] = [pc |-> pc, kind |-> "restart", bank |-> b]
  BY <1>1 DEF Begin, TaskTypes
<1>3. task'[t].bank = b /\ task'[t].kind = "restart" /\ task'[t].pc = pc /\ task'[t] # NoTask
  BY <1>2 DEF NoTask
<1>4. \A u \in Tasks \ {t} : task'[u] = NoTask
  BY <1>3
<1>5. vm'.bank = vm.bank /\ vm'.expected = "running" /\ (~vm.handle => ~vm'.handle)
  <2>1. CASE vm.handle
    BY <2>1 DEF EnsureVmRunning, ExpectRunning, StopInitiated, StopNoted, ProcessTypes, VmType
  <2>2. CASE ~vm.handle
    BY <2>2 DEF EnsureVmRunning, ExpectRunning, ProcessTypes, VmType
  <2> QED
    BY <2>1, <2>2
<1>6. ~vm.handle => ~guest'.alive
  BY DEF EnsureVmRunning, ProcessTypes
<1>7. (\A u \in Tasks : task'[u].pc # "finalize") => ~guest'.alive
  BY <1>1, <1>3, <1>6
<1> QED
  BY <1>3, <1>4, <1>5, <1>7 DEF Underway

\* Once it is under way, every step of vm-service or of the guest keeps it so,
\* and what runs past the stop is the image of the transfer.
LEMMA UnderwayStep ==
    ASSUME Types, Serial, Underway, VmAction, transfer'.id = transfer.id,
           \A u, w \in Tasks : task'[u] # NoTask /\ task'[w] # NoTask => u = w,
           guest'.pid # guest.pid => Aimed
    PROVE  Underway'
<1> USE DEF Types, VmTypes
<1>1. ASSUME ~guest'.alive, vm'.expected # "unset" PROVE Underway'
  BY <1>1 DEF Underway
<1>2. ASSUME guest'.alive = guest.alive, guest'.img = guest.img, task' = task,
             vm'.expected = vm.expected
      PROVE  Underway'
  BY <1>2 DEF Underway
<1>d. ~Dead.alive
  BY DEF Dead, NoGuest
<1>3. ~AutoStart
  BY DEF AutoStart, Underway
<1>4. CASE Sweep
  <2>1. vm'.expected # "unset"
    BY <1>4 DEF Sweep, Finalized, StopNoted, Underway, ProcessTypes, VmType
  <2> QED
    BY <1>1, <1>4, <1>d, <2>1 DEF Sweep
<1>5. CASE ReadHealth
  <2>1. vm'.expected = vm.expected
    BY <1>5 DEF ReadHealth, Observed, ProcessTypes, VmType
  <2> QED
    BY <1>2, <1>5, <2>1 DEF ReadHealth
<1>6. ASSUME NEW t \in Tasks, StopVm(t) PROVE Underway'
  <2>1. task'[t].pc = "finalize"
    BY <1>6 DEF StopVm, Begin, TaskTypes
  <2>2. vm'.expected = "stopped"
    BY <1>6 DEF StopVm, StopInitiated, StopNoted, ProcessTypes, VmType
  <2> QED
    BY <2>1, <2>2 DEF Underway
<1>7. ASSUME NEW t \in Tasks, FinalizeStop(t) PROVE Underway'
  <2>1. vm'.expected = vm.expected
    BY <1>7 DEF FinalizeStop, Finalized, ProcessTypes, VmType
  <2> QED
    BY <1>1, <1>7, <1>d, <2>1 DEF FinalizeStop, Underway
<1>8. ASSUME NEW t \in Tasks, StartAfterStop(t) PROVE Underway'
  <2>1. ~vm.handle /\ StartVm(NextBank(t)) /\ NextBank(t) \in BankOrNone
    BY <1>8 DEF StartAfterStop, Serial, NextBank, ProcessTypes, VmType, TaskTypes, TaskType
  <2>2. vm'.expected # "unset"
    BY <2>1, StartEnacts
  <2>3. CASE Launch(NextBank(t))
    <3>1. guest'.pid # guest.pid /\ guest'.img = disk.image[NextBank(t)]
      BY <2>3 DEF Launch, ProcessTypes, GuestType
    <3>2. task[t].kind = "restart"
      BY <1>8 DEF StartAfterStop, TaskTypes, TaskType, NoTask
    <3>3. disk.image[NextBank(t)] = transfer.id
      BY <3>1, <3>2 DEF Aimed, Onto
    <3> QED
      BY <2>2, <3>1, <3>3 DEF Underway
  <2>4. CASE StartRefused(NextBank(t))
    BY <1>1, <2>1, <2>2, <2>4 DEF StartRefused, ProcessTypes
  <2>5. ~AlreadyRunning(NextBank(t))
    BY <2>1 DEF AlreadyRunning, IsRunning
  <2>6. CASE NotLaunched(NextBank(t))
    BY <1>1, <1>d, <2>2, <2>6 DEF NotLaunched
  <2> QED
    BY <2>1, <2>3, <2>4, <2>5, <2>6 DEF StartVm
<1>9. ASSUME NEW t \in Tasks, NEW b \in BankOrNone, EnsureVmRunning(t, b) PROVE Underway'
  BY <1>9, EnsureRelaunches
<1>10. CASE GuestBoots \/ GuestReboots
  <2>1. guest'.alive = guest.alive /\ guest'.img = guest.img
    BY <1>10 DEF GuestBoots, GuestReboots, ProcessTypes, GuestType
  <2> QED
    BY <1>2, <1>10, <2>1 DEF GuestBoots, GuestReboots
<1>11. CASE GuestShutsDown \/ GuestCrashes
  BY <1>1, <1>11, <1>d DEF GuestShutsDown, GuestCrashes, Underway
<1> QED
  BY <1>3, <1>4, <1>5, <1>6, <1>7, <1>8, <1>9, <1>10, <1>11 DEF VmAction

\* The steps of vm-service and of the guest that begin no restart.
VmOther ==
    \/ AutoStart \/ Sweep \/ ReadHealth
    \/ \E t \in Tasks : StopVm(t) \/ FinalizeStop(t) \/ StartAfterStop(t)
    \/ GuestBoots \/ GuestShutsDown \/ GuestCrashes \/ GuestReboots

\* A restart names no bank, or it is the reset's.
LEMMA RestartSteps ==
    ASSUME [Next]_vars
    PROVE  \/ UNCHANGED vmVars \/ VmOther
           \/ \E t \in Tasks : EnsureVmRunning(t, NoBank) \/ ResetNotify(t)
<1>1. VmService => VmOther \/ \E t \in Tasks : EnsureVmRunning(t, NoBank)
  BY DEF VmService, VmOther
<1>2. Guest => VmOther
  BY DEF Guest, VmOther
<1>3. ASSUME Update
      PROVE  UNCHANGED vmVars \/ VmOther \/ \E t \in Tasks : ResetNotify(t)
  <2>1. ResetQuery => VmOther
    BY DEF ResetQuery, ReadHealth, VmOther
  <2>2. Arm \/ Commit \/ Rollback => UNCHANGED vmVars
    BY DEF Arm, Commit, Rollback
  <2>3. ResetRead \/ ResetRefused \/ ResetVerify \/ PollQuery \/ PollRecord => UNCHANGED vmVars
    BY DEF ResetRead, ResetRefused, ResetVerify, PollQuery, PollRecord
  <2> QED
    BY <1>3, <2>1, <2>2, <2>3 DEF Update
<1>4. ASSUME Disable PROVE UNCHANGED vmVars \/ VmOther
  <2>1. (\E t \in Tasks : DisableStop(t)) => VmOther
    BY DEF DisableStop, VmOther
  <2>2. DisableAdmit \/ DisableRecord \/ DisableRatchet => UNCHANGED vmVars
    BY DEF DisableAdmit, DisableRecord, DisableRatchet
  <2>3. DisableStopped \/ DisableNotRunning \/ DisableFails \/ WriteFails => UNCHANGED vmVars
    BY DEF DisableStopped, DisableNotRunning, DisableFails, WriteFails, DisableRecordFails,
       DisableRatchetFails
  <2>4. ReaderMiss \/ ReaderDerive \/ ReaderStore => UNCHANGED vmVars
    BY DEF ReaderMiss, ReaderDerive, ReaderStore
  <2> QED
    BY <1>4, <2>1, <2>2, <2>3, <2>4 DEF Disable, WriteFails
<1>5. UNCHANGED vars => UNCHANGED vmVars
  BY DEF vars
<1> QED
  BY <1>1, <1>2, <1>3, <1>4, <1>5 DEF Next

\* A restart onto the image of the transfer aims at it; so does one that names
\* no bank, if the guest's own bank has it.
LEMMA AimedRestart ==
    ASSUME VmTypes, Serial, NEW t \in Tasks, NEW b \in BankOrNone, EnsureVmRunning(t, b),
           \A u, w \in Tasks : task'[u] # NoTask /\ task'[w] # NoTask => u = w,
           disk'.image = disk.image, transfer'.id = transfer.id,
           Onto(b) \/ (b = NoBank /\ Aimed)
    PROVE  Aimed'
<1>1. /\ vm'.bank = vm.bank /\ task'[t].bank = b /\ task'[t].kind = "restart"
      /\ \A u \in Tasks \ {t} : task'[u] = NoTask
  BY EnsureRelaunches
<1>2. \A u \in Tasks : task[u] = NoTask
  <2>1. task[t] = NoTask /\ \A u \in Tasks \ {t} : task'[u] = task[u]
    BY DEF EnsureVmRunning, Begin, VmTypes, TaskTypes
  <2> QED
    BY <1>1, <2>1
<1>3. b = NoBank => Onto(vm.bank)
  <2>1. NoBank \notin Banks
    BY DEF NoBank, Banks
  <2> QED
    BY <1>2, <2>1 DEF Aimed, Onto, NoTask
<1> QED
  BY <1>1, <1>3 DEF Aimed, Onto, NextBank, NoTask, NoBank, Banks

\* The other steps keep the aim.
LEMMA AimedStep ==
    ASSUME VmTypes, Serial, Aimed, Underway, VmOther,
           \A u, w \in Tasks : task'[u] # NoTask /\ task'[w] # NoTask => u = w,
           disk'.image = disk.image, transfer'.id = transfer.id
    PROVE  Aimed'
<1> USE DEF VmTypes
<1>o. ASSUME NEW b PROVE Onto(b) = (b \in Banks /\ disk'.image[b] = transfer'.id)
  BY DEF Onto
<1>n. NoTask.kind = "none"
  BY DEF NoTask
<1>u. ASSUME task' = task, vm'.bank = vm.bank PROVE Aimed'
  BY <1>u DEF Aimed, Onto, NextBank
<1>1. ~AutoStart
  BY DEF AutoStart, Underway
<1>2. CASE Sweep
  <2>1. vm'.bank = vm.bank
    BY <1>2 DEF Sweep, Finalized, StopNoted, ProcessTypes, VmType
  <2> QED
    BY <1>2, <1>u, <2>1 DEF Sweep
<1>3. CASE ReadHealth
  <2>1. vm'.bank = vm.bank
    BY <1>3 DEF ReadHealth, Observed, ProcessTypes, VmType
  <2> QED
    BY <1>3, <1>u, <2>1 DEF ReadHealth
<1>4. ASSUME NEW t \in Tasks, StopVm(t) PROVE Aimed'
  <2>1. vm'.bank = vm.bank
    BY <1>4 DEF StopVm, StopInitiated, StopNoted, ProcessTypes, VmType
  <2>2. /\ task[t] = NoTask /\ task'[t].kind = "stop"
        /\ \A u \in Tasks \ {t} : task'[u] = task[u]
    BY <1>4 DEF StopVm, Begin, TaskTypes
  <2>3. task'[t] # NoTask
    BY <1>n, <2>2
  <2>4. \A u \in Tasks : task[u].kind # "restart" /\ task'[u].kind # "restart"
    BY <1>n, <2>2, <2>3
  <2> QED
    BY <2>1, <2>4 DEF Aimed, Onto
<1>5. ASSUME NEW t \in Tasks, FinalizeStop(t) PROVE Aimed'
  <2>1. vm'.bank = vm.bank
    BY <1>5 DEF FinalizeStop, Finalized, ProcessTypes, VmType
  <2>2. \A u \in Tasks \ {t} : task'[u] = task[u]
    BY <1>5 DEF FinalizeStop, TaskTypes
  <2>3. \/ task[t].kind = "stop" /\ task'[t].kind = "none"
        \/ task'[t].kind = task[t].kind /\ task'[t].bank = task[t].bank
    BY <1>5, <1>n DEF FinalizeStop, TaskTypes, TaskType
  <2> QED
    BY <2>1, <2>2, <2>3 DEF Aimed, Onto, NextBank
<1>6. ASSUME NEW t \in Tasks, StartAfterStop(t) PROVE Aimed'
  <2>1. task[t].kind = "restart" /\ task[t] # NoTask
    BY <1>6 DEF StartAfterStop, TaskTypes, TaskType, NoTask
  <2>2. Onto(NextBank(t))
    BY <2>1 DEF Aimed
  <2>3. vm'.bank = NextBank(t)
    <3>1. StartVm(NextBank(t))
      BY <1>6 DEF StartAfterStop, NextBank
    <3>2. ASSUME NEW b, StartVm(b) PROVE vm'.bank = b
      <4>1. StartRefused(b) \/ AlreadyRunning(b) => vm'.bank = b
        BY DEF StartRefused, AlreadyRunning, ProcessTypes, VmType
      <4>2. NotLaunched(b) => vm'.bank = b
        BY DEF NotLaunched, Unlaunched, Cleared, ProcessTypes, VmType
      <4>3. Launch(b) => vm'.bank = b
        BY DEF Launch, Launched, Cleared, ProcessTypes, VmType
      <4> QED
        BY <3>2, <4>1, <4>2, <4>3 DEF StartVm
    <3> QED
      BY <3>1, <3>2
  <2>4. \A u \in Tasks : task'[u].kind # "restart"
    BY <1>6, <1>n, <2>1 DEF StartAfterStop, Serial, TaskTypes
  <2>5. vm'.bank \in Banks /\ disk'.image[vm'.bank] = transfer'.id
    BY <1>o, <2>2, <2>3
  <2> QED
    BY <2>4, <2>5 DEF Aimed, Onto
<1>7. CASE GuestBoots \/ GuestShutsDown \/ GuestCrashes \/ GuestReboots
  BY <1>7, <1>u DEF GuestBoots, GuestShutsDown, GuestCrashes, GuestReboots
<1> QED
  BY <1>1, <1>2, <1>3, <1>4, <1>5, <1>6, <1>7 DEF VmOther

\* A transfer that goes on keeps its bank and its image, unless a rollback
\* owes a stop.
LEMMA TransferGoesOn ==
    ASSUME BackendTypes, TransferHeld, [Next]_vars, ~Arm,
           transfer' # NoTransfer, disabling'.kind # "rollback"
    PROVE  /\ transfer # NoTransfer /\ disabling.kind # "rollback"
           /\ transfer'.id = transfer.id
           /\ disk'.image = disk.image /\ disk'.active = disk.active
<1>d. disk \in DiskType /\ disabling \in DisablingType /\ transfer \in TransferType
  BY DEF BackendTypes
<1>1. ASSUME disk' = disk, disabling'.kind = disabling.kind, transfer'.id = transfer.id,
             transfer # NoTransfer \/ transfer' = transfer
      PROVE  /\ transfer # NoTransfer /\ disabling.kind # "rollback"
             /\ transfer'.id = transfer.id
             /\ disk'.image = disk.image /\ disk'.active = disk.active
  BY <1>1
<1>2. CASE UNCHANGED <<disk, updateVars, disableVars, cacheVars>>
  BY <1>1, <1>2 DEF updateVars, disableVars
<1>3. CASE Update
  <2>1. ~Commit
    BY DEF Commit
  <2>2. ~Rollback
    BY DEF Rollback, NoDisabling
  <2>3. CASE ResetQuery \/ ResetRead \/ (\E t \in Tasks : ResetNotify(t))
            \/ ResetRefused \/ PollQuery
    BY <1>1, <2>3 DEF ResetQuery, ResetRead, ResetNotify, ResetRefused, PollQuery, disableVars
  <2>4. CASE ResetVerify
    BY <1>1, <1>d, <2>4 DEF ResetVerify, disableVars, TransferType
  <2>5. CASE PollRecord
    <3>1. Unmoved => transfer # NoTransfer
      BY DEF Unmoved, NoTransfer
    <3>2. transfer' = transfer \/ (Unmoved /\ transfer'.id = transfer.id)
      BY <1>d, <2>5 DEF PollRecord, TransferType
    <3> QED
      BY <1>1, <2>5, <3>1, <3>2 DEF PollRecord, disableVars
  <2> QED
    BY <1>3, <2>1, <2>2, <2>3, <2>4, <2>5 DEF Update
<1>4. CASE Disable
  <2>1. CASE DisableAdmit
    <3>1. disabling.kind = "none" /\ disk' = disk /\ transfer' = transfer
      BY <2>1 DEF DisableAdmit, NoDisabling, updateVars
    <3> QED
      BY <3>1
  <2>2. CASE \E t \in Tasks : DisableStop(t)
    BY <1>1, <1>d, <2>2 DEF DisableStop, DisablingType, updateVars
  <2>3. CASE DisableStopped \/ DisableNotRunning
    BY <2>3 DEF DisableStopped, DisableNotRunning, Stopped
  <2>4. CASE DisableFails
    BY <2>4 DEF DisableFails
  <2>5. CASE DisableRecord \/ DisableRatchet \/ WriteFails
    <3>1. disabling.kind # "rollback" /\ transfer' = transfer
      BY <2>5 DEF DisableRecord, DisableRatchet, WriteFails, DisableRecordFails,
         DisableRatchetFails, TransferHeld, updateVars
    <3>2. disk'.image = disk.image /\ disk'.active = disk.active
      BY <1>d, <2>5 DEF DisableRecord, DisableRatchet, WriteFails, DisableRecordFails,
         DisableRatchetFails, DiskType
    <3> QED
      BY <3>1, <3>2
  <2>6. CASE ReaderMiss \/ ReaderDerive \/ ReaderStore
    BY <1>1, <2>6 DEF ReaderMiss, ReaderDerive, ReaderStore, updateVars, disableVars
  <2> QED
    BY <1>4, <2>1, <2>2, <2>3, <2>4, <2>5, <2>6 DEF Disable, WriteFails
<1> QED
  BY <1>2, <1>3, <1>4, BackendSteps

\* How the calls of ecu_reset go on.
LEMMA ResetSteps ==
    ASSUME BackendTypes, [Next]_vars, reset'.pc # "idle"
    PROVE  \/ ResetQuery
           \/ /\ reset.pc # "idle" /\ reset'.baseline = reset.baseline
              /\ reset'.pc = "notify" =>
                    (reset' = reset) \/ (disk' = disk /\ reset'.bank = disk.active)
<1>d. reset \in ResetType /\ ResetEnds.pc = "idle"
  BY DEF BackendTypes, ResetEnds, NoReset
<1>1. ASSUME reset' # reset PROVE Update
  BY <1>1, BackendSteps, DisableTypeStep DEF updateVars
<1>2. ~ResetRefused /\ ~ResetVerify
  BY <1>d DEF ResetRefused, ResetVerify
<1>3. CASE ResetRead
  BY <1>3, <1>d DEF ResetRead, ResetType
<1>4. ASSUME NEW t \in Tasks, ResetNotify(t)
      PROVE  reset.pc # "idle" /\ reset'.baseline = reset.baseline /\ reset'.pc = "verify"
  BY <1>4, <1>d DEF ResetNotify, ResetType
<1>5. Arm \/ Commit \/ Rollback \/ PollQuery \/ PollRecord => reset' = reset
  BY DEF Arm, Commit, Rollback, PollQuery, PollRecord
<1> QED
  BY <1>1, <1>2, <1>3, <1>4, <1>5 DEF Update

\* A transfer keeps its id to the end.
LEMMA TransferIdStep ==
    ASSUME BackendTypes, [Next]_vars, ~Arm, transfer' # NoTransfer
    PROVE  transfer # NoTransfer /\ transfer'.id = transfer.id
<1>d. transfer \in TransferType
  BY DEF BackendTypes
<1>1. CASE UNCHANGED <<disk, updateVars, disableVars, cacheVars>>
  BY <1>1 DEF updateVars
<1>2. CASE Update
  <2>1. CASE Commit \/ Rollback
    BY <2>1 DEF Commit, Rollback
  <2>2. CASE ResetQuery \/ ResetRead \/ (\E t \in Tasks : ResetNotify(t))
            \/ ResetRefused \/ PollQuery
    BY <2>2 DEF ResetQuery, ResetRead, ResetNotify, ResetRefused, PollQuery
  <2>3. CASE ResetVerify
    BY <1>d, <2>3 DEF ResetVerify, TransferType
  <2>4. CASE PollRecord
    <3>1. Unmoved => transfer # NoTransfer
      BY DEF Unmoved, NoTransfer
    <3> QED
      BY <1>d, <2>4, <3>1 DEF PollRecord, TransferType
  <2> QED
    BY <1>2, <2>1, <2>2, <2>3, <2>4 DEF Update
<1>3. CASE Disable
  <2>1. transfer' \in {transfer, NoTransfer}
    BY <1>3 DEF Disable, DisableAdmit, DisableStop, DisableStopped, DisableNotRunning,
       Stopped, DisableFails, DisableRecord, DisableRecordFails, DisableRatchet,
       DisableRatchetFails, ReaderMiss, ReaderDerive,
       ReaderStore, updateVars
  <2> QED
    BY <2>1
<1> QED
  BY <1>1, <1>2, <1>3, BackendSteps

\* Only ecu_reset's last step makes a transfer await another boot.
LEMMA VerifyingStep ==
    ASSUME BackendTypes, [Next]_vars, ~ResetVerify, transfer'.state = "verifying"
    PROVE  transfer' = transfer
<1>n. NoTransfer.state = "none"
  BY DEF NoTransfer
<1>1. CASE UNCHANGED <<disk, updateVars, disableVars, cacheVars>>
  BY <1>1 DEF updateVars
<1>2. CASE Update
  <2>1. ~Arm
    BY DEF Arm
  <2>2. CASE Commit \/ Rollback
    BY <1>n, <2>2 DEF Commit, Rollback
  <2>3. CASE ResetQuery \/ ResetRead \/ (\E t \in Tasks : ResetNotify(t))
            \/ ResetRefused \/ PollQuery
    BY <2>3 DEF ResetQuery, ResetRead, ResetNotify, ResetRefused, PollQuery
  <2>4. CASE PollRecord
    BY <2>4 DEF PollRecord, BackendTypes, TransferType
  <2> QED
    BY <1>2, <2>1, <2>2, <2>3, <2>4 DEF Update
<1>3. CASE Disable
  <2>1. transfer' \in {transfer, NoTransfer}
    BY <1>3 DEF Disable, DisableAdmit, DisableStop, DisableStopped, DisableNotRunning,
       Stopped, DisableFails, DisableRecord, DisableRecordFails, DisableRatchet,
       DisableRatchetFails, ReaderMiss, ReaderDerive,
       ReaderStore, updateVars
  <2> QED
    BY <1>n, <2>1
<1> QED
  BY <1>1, <1>2, <1>3, BackendSteps

\* Only a poll activates a transfer, and one that has not moved.
LEMMA ActivatedStep ==
    ASSUME BackendTypes, [Next]_vars, transfer'.state = "activated", transfer.state # "activated"
    PROVE  PollRecord /\ Unmoved
<1>n. NoTransfer.state = "none"
  BY DEF NoTransfer
<1>1. transfer' \notin {transfer, NoTransfer}
  BY <1>n
<1>2. ~UNCHANGED <<disk, updateVars, disableVars, cacheVars>>
  BY <1>1 DEF updateVars
<1>3. ~Disable
  BY <1>1 DEF Disable, DisableAdmit, DisableStop, DisableStopped, DisableNotRunning,
     Stopped, DisableFails, DisableRecord, DisableRecordFails, DisableRatchet,
     DisableRatchetFails, ReaderMiss, ReaderDerive,
     ReaderStore, updateVars
<1>4. ~Arm /\ ~Commit /\ ~Rollback
  BY <1>1 DEF Arm, Commit, Rollback
<1>5. ~ResetQuery /\ ~ResetRead /\ ~(\E t \in Tasks : ResetNotify(t)) /\ ~ResetRefused /\ ~PollQuery
  BY <1>1 DEF ResetQuery, ResetRead, ResetNotify, ResetRefused, PollQuery
<1>6. ~ResetVerify
  BY <1>1 DEF ResetVerify, BackendTypes, TransferType
<1>7. PollRecord
  BY <1>2, <1>3, <1>4, <1>5, <1>6, BackendSteps DEF Update
<1> QED
  BY <1>1, <1>7 DEF PollRecord

\* A flash within a reset is an overlap.
LEMMA NoArmInReset ==
    ASSUME BackendTypes, ~Overlap, Arm
    PROVE  reset.pc = "idle" /\ reset' = reset
<1>1. images' # images
  BY UpdateBoundsAssumption DEF Arm, BackendTypes
<1> QED
  BY <1>1 DEF Overlap, Arm

\* The bank a reset has read stays the serving one until its call.
LEMMA ResetBankStep ==
    ASSUME BackendTypes, TransferHeld, ResetBankHeld, [Next]_vars, ~Overlap
    PROVE  ResetBankHeld'
<1> SUFFICES ASSUME reset'.pc = "notify", transfer' # NoTransfer, disabling'.kind # "rollback"
             PROVE  reset'.bank = disk'.active
  BY DEF ResetBankHeld
<1>1. ~ResetQuery
  BY DEF ResetQuery
<1>2. (reset' = reset) \/ (disk' = disk /\ reset'.bank = disk.active)
  BY <1>1, ResetSteps
<1>3. ~Arm
  BY NoArmInReset
<1> QED
  BY <1>2, <1>3, TransferGoesOn DEF ResetBankHeld

\* What a step does to the boots: at most one more, of the guest's image.
LEMMA BootsStep ==
    ASSUME VmTypes, VmAction \/ UNCHANGED vmVars
    PROVE  /\ Len(boots') \in Nat /\ Len(boots) <= Len(boots')
           /\ \A k \in 1 .. Len(boots) : boots'[k] = boots[k]
           /\ GuestBoots => /\ region'.boot = Len(boots) + 1 /\ boots' # boots
                            /\ boots'[region'.boot] = guest.img
<1>0. boots \in Seq(Images) /\ guest.img \in Images
  BY DEF VmTypes, ProcessTypes, GuestType
<1>1. CASE GuestBoots
  <2>1. boots' = Append(boots, guest.img) /\ region'.boot = Len(boots) + 1
    BY <1>1 DEF GuestBoots
  <2> QED
    BY <1>0, <2>1
<1>2. ASSUME VmAction, ~GuestBoots PROVE boots' = boots
  BY <1>2 DEF VmAction, AutoStart, StartVm, StartRefused, AlreadyRunning, NotLaunched, Launch,
     Sweep, ReadHealth, StopVm, EnsureVmRunning, FinalizeStop, StartAfterStop, GuestShutsDown,
     GuestCrashes, GuestReboots
<1>3. UNCHANGED vmVars => boots' = boots
  BY DEF vmVars
<1>4. CASE boots' = boots /\ ~GuestBoots
  BY <1>0, <1>4
<1>5. GuestBoots => boots' # boots
  BY <1>0 DEF GuestBoots
<1> QED
  BY <1>1, <1>2, <1>3, <1>4, <1>5

\* A heartbeat that is fresh stays so, and a boot in between is of the image.
LEMMA FreshKept ==
    ASSUME VmTypes, RegionHeld, deploy' = deploy, VmAction \/ UNCHANGED vmVars,
           NEW base, NEW id, FreshIn(base, id, boots, region.boot, Up),
           GuestBoots => guest.img = id
    PROVE  FreshIn(base, id, boots', region'.boot, Up')
<1>1. CASE GuestBoots
  BY <1>1, BootsStep DEF FreshIn
<1>2. CASE VmAction /\ ~GuestBoots
  <2>1. boots' = boots /\ region'.boot \in {0, region.boot} /\ (Up' => Up \/ region'.boot = 0)
    BY <1>2, RegionStep
  <2> QED
    BY <2>1 DEF FreshIn
<1>3. CASE UNCHANGED vmVars
  <2>1. boots' = boots /\ region' = region /\ Up' = Up
    BY <1>3 DEF vmVars, Up, IsRunning
  <2> QED
    BY <2>1 DEF FreshIn
<1> QED
  BY <1>1, <1>2, <1>3

\* Past a reset's answer, only the image of the transfer boots.
LEMMA BootIsOfTransfer ==
    ASSUME VmTypes, RelaunchHeld, Relaunched, ~Overlap, GuestBoots
    PROVE  guest.img = transfer.id /\ reset.pc \notin {"read", "notify"}
<1>1. boots' # boots
  BY BootsStep DEF VmAction
<1>2. \A t \in Tasks : task[t].pc # "finalize"
  BY <1>1 DEF Overlap
<1> QED
  BY <1>1, <1>2 DEF Overlap, RelaunchHeld, Underway, GuestBoots

\* What a reset witnessed keeps telling the boots apart.
LEMMA WitnessedStep ==
    ASSUME Types, RegionHeld, Witnessed, RelaunchHeld, [Next]_vars, ~Overlap, deploy' = deploy
    PROVE  Witnessed'
<1> USE DEF Types
<1>v. VmAction \/ UNCHANGED vmVars
  BY VmSteps
<1>1. ASSUME transfer' # NoTransfer, reset'.pc # "idle"
      PROVE  FreshIn(reset'.baseline, transfer'.id, boots', region'.boot, Up')
  <2>1. CASE ResetQuery
    <3>1. /\ reset'.baseline = BootId /\ region' = region /\ vm'.handle = vm.handle
          /\ guest' = guest
      BY <2>1 DEF ResetQuery, Observed, VmTypes, ProcessTypes, VmType
    <3>2. IsRunning' = IsRunning
      BY <3>1 DEF IsRunning
    <3> QED
      BY <3>1, <3>2 DEF BootId, FreshIn, Up, NotRunning
  <2>2. CASE ~ResetQuery
    <3>1. reset.pc # "idle" /\ reset'.baseline = reset.baseline
      BY <1>1, <2>2, ResetSteps
    <3>2. ~Arm
      BY <3>1, NoArmInReset
    <3>3. transfer # NoTransfer /\ transfer'.id = transfer.id
      BY <1>1, <3>2, TransferIdStep
    <3>4. GuestBoots => guest.img = transfer.id
      <4> SUFFICES ASSUME GuestBoots PROVE guest.img = transfer.id
        OBVIOUS
      <4>1. boots' # boots
        BY BootsStep DEF VmAction
      <4>2. reset.pc = "verify"
        BY <3>1, <4>1 DEF Overlap, BackendTypes, ResetType
      <4> QED
        BY <3>3, <4>2, BootIsOfTransfer DEF Relaunched
    <3> QED
      BY <1>v, <3>1, <3>3, <3>4, FreshKept DEF Witnessed
  <2> QED
    BY <2>1, <2>2
<1>2. ASSUME transfer'.state = "verifying"
      PROVE  FreshIn(transfer'.baseline, transfer'.id, boots', region'.boot, Up')
  <2>0. transfer' # NoTransfer
    BY <1>2 DEF NoTransfer
  <2>1. CASE ResetVerify
    <3>1. /\ transfer # NoTransfer /\ transfer'.id = transfer.id
          /\ transfer'.baseline = reset.baseline /\ reset.pc # "idle"
      BY <2>0, <2>1 DEF ResetVerify, BackendTypes, TransferType
    <3>2. UNCHANGED vmVars
      BY <2>1 DEF ResetVerify
    <3>3. ~GuestBoots
      BY <3>2, BootsStep DEF vmVars, VmAction
    <3> QED
      BY <1>v, <3>1, <3>3, FreshKept DEF Witnessed
  <2>2. CASE ~ResetVerify
    <3>1. transfer' = transfer
      BY <1>2, <2>2, VerifyingStep
    <3>2. GuestBoots => guest.img = transfer.id
      BY <1>2, <2>0, <3>1, BootIsOfTransfer DEF Relaunched
    <3> QED
      BY <1>2, <1>v, <3>1, <3>2, FreshKept DEF Witnessed
  <2> QED
    BY <2>1, <2>2
<1> QED
  BY <1>1, <1>2 DEF Witnessed

\* A relaunch a reset asked for goes on to the image of its transfer.
LEMMA RelaunchStep ==
    ASSUME Types, Types', TransferHeld, TransferHeld', ResetBankHeld, Serial, RelaunchHeld,
           [Next]_vars, ~Overlap, ~overlapped'
    PROVE  RelaunchHeld'
<1> SUFFICES ASSUME Relaunched' PROVE Underway' /\ (disabling'.kind # "rollback" => Aimed')
  BY DEF RelaunchHeld
<1> USE DEF Types
<1>o. \A u, w \in Tasks : task'[u] # NoTask /\ task'[w] # NoTask => u = w
  BY OneRequest
<1>r. /\ transfer # NoTransfer /\ transfer'.id = transfer.id /\ ~Arm /\ transfer' # NoTransfer
      /\ Relaunched \/ \E t \in Tasks : ResetNotify(t)
  BY RelaunchedStep DEF Relaunched
<1>k. disabling'.kind # "rollback" =>
         disabling.kind # "rollback" /\ disk'.image = disk.image /\ disk'.active = disk.active
  BY <1>r, TransferGoesOn
<1>l. guest'.pid # guest.pid => disabling'.kind # "rollback"
  BY NoRelaunch DEF VmTypes, TransferHeld
<1>1. CASE \E t \in Tasks : ResetNotify(t)
  <2>1. PICK t \in Tasks : ResetNotify(t)
    BY <1>1
  <2>2. EnsureVmRunning(t, reset.bank) /\ reset.bank \in BankOrNone /\ reset.pc = "notify"
    BY <2>1 DEF ResetNotify, BackendTypes, ResetType
  <2>3. Underway'
    BY <1>o, <2>2, EnsureRelaunches
  <2>4. ASSUME disabling'.kind # "rollback" PROVE Aimed'
    <3>1. Onto(reset.bank)
      BY <1>k, <1>r, <2>2, <2>4 DEF ResetBankHeld, TransferHeld, Onto, BackendTypes, DiskType
    <3> QED
      BY <1>k, <1>o, <1>r, <2>2, <2>4, <3>1, AimedRestart
  <2> QED
    BY <2>3, <2>4
<1>2. CASE ~\E t \in Tasks : ResetNotify(t)
  <2>1. Underway /\ (disabling.kind # "rollback" => Aimed)
    BY <1>2, <1>r DEF RelaunchHeld
  <2>2. CASE UNCHANGED vmVars
    <3>1. Underway'
      BY <1>r, <2>1, <2>2 DEF Underway, vmVars
    <3>2. disabling'.kind # "rollback" => Aimed'
      BY <1>k, <1>r, <2>1, <2>2 DEF Aimed, Onto, NextBank, vmVars
    <3> QED
      BY <3>1, <3>2
  <2>3. CASE VmAction
    <3>1. Underway'
      BY <1>k, <1>l, <1>o, <1>r, <2>1, <2>3, UnderwayStep
    <3>2. ASSUME disabling'.kind # "rollback", VmOther PROVE Aimed'
      BY <1>k, <1>o, <1>r, <2>1, <3>2, AimedStep
    <3>3. ASSUME disabling'.kind # "rollback", NEW t \in Tasks, EnsureVmRunning(t, NoBank)
          PROVE  Aimed'
      BY <1>k, <1>o, <1>r, <2>1, <3>3, AimedRestart DEF BankOrNone
    <3>4. ASSUME disabling'.kind # "rollback", UNCHANGED vmVars PROVE Aimed'
      BY <1>k, <1>r, <2>1, <3>4 DEF Aimed, Onto, NextBank, vmVars
    <3> QED
      BY <1>2, <3>1, <3>2, <3>3, <3>4, RestartSteps
  <2> QED
    BY <2>2, <2>3, VmSteps
<1> QED
  BY <1>1, <1>2

\* A poll keeps what it saw.
LEMMA PollStep ==
    ASSUME Types, RegionHeld, PollHeld, overlapped \/ Witnessed, [Next]_vars,
           deploy' = deploy, overlapped => overlapped'
    PROVE  PollHeld'
<1>1. /\ Len(boots) \in Nat /\ Len(boots') \in Nat /\ Len(boots) <= Len(boots')
      /\ \A k \in 1 .. Len(boots) : boots'[k] = boots[k]
  <2>1. Len(boots) \in Nat
    BY DEF Types, VmTypes, ProcessTypes
  <2> QED
    BY <2>1, VmSteps, BootsStep DEF Types
<1>2. CASE poll' = poll
  BY <1>1, <1>2 DEF PollHeld
<1>3. CASE poll' = NoPoll
  BY <1>3 DEF PollHeld
<1>4. CASE PollQuery
  <2>1. /\ poll'.id = transfer.id /\ poll'.baseline = transfer.baseline
        /\ poll'.boot = region.boot /\ boots' = boots
    BY <1>4 DEF PollQuery, vmVars
  <2>2. region.boot \in 1 .. Len(boots)
    BY <1>1, <1>4 DEF PollQuery, IsFresh, RegionHeld, Types, VmTypes, ProcessTypes
  <2>3. ASSUME ~overlapped', transfer.baseline = NotRunning => ~deploy.persistent
        PROVE  boots[region.boot] = transfer.id
    <3>1. FreshIn(transfer.baseline, transfer.id, boots, region.boot, Up)
      BY <1>4, <2>3 DEF Witnessed, PollQuery
    <3>2. IsRunning /\ (transfer.baseline = NotRunning \/ region.boot # transfer.baseline)
      BY <1>4 DEF PollQuery, IsFresh
    <3> QED
      BY <2>2, <2>3, <3>1, <3>2 DEF FreshIn, Up, NotRunning
  <2> QED
    BY <2>1, <2>2, <2>3 DEF PollHeld
<1>5. Update => poll' = poll \/ poll' = NoPoll \/ PollQuery
  BY DEF Update, Arm, Commit, Rollback, ResetQuery, ResetRead, ResetNotify, ResetRefused,
     ResetVerify, PollRecord
<1>6. Disable => poll' = poll
  BY DEF Disable, DisableAdmit, DisableStop, DisableStopped, DisableNotRunning,
     DisableFails, DisableRecord, DisableRecordFails, DisableRatchet, DisableRatchetFails,
     ReaderMiss, ReaderDerive, ReaderStore,
     updateVars
<1> QED
  BY <1>2, <1>3, <1>4, <1>5, <1>6, BackendSteps DEF updateVars

\* All of it is inductive.
LEMMA AttemptInvStep == AttemptInv /\ [Next]_vars => AttemptInv'
<1> SUFFICES ASSUME AttemptInv, [Next]_vars PROVE AttemptInv'
  OBVIOUS
<1>1. Types /\ Types' /\ TransferHeld /\ TransferHeld' /\ RegionHeld
  BY TypesStep, TransferHeldStep DEF AttemptInv, Types
<1>2. deploy' = deploy /\ (overlapped => overlapped')
  <2>1. CASE Track
    BY <2>1 DEF Track
  <2>2. CASE UNCHANGED vars
    BY <2>2 DEF vars
  <2> QED
    BY <2>1, <2>2, Tracked
<1>3. RegionHeld'
  <2>1. UNCHANGED vmVars => RegionHeld'
    BY <1>1 DEF vmVars, RegionHeld
  <2> QED
    BY <1>1, <1>2, <2>1, VmSteps, RegionStep DEF Types
<1>4. PollHeld'
  BY <1>1, <1>2, PollStep DEF AttemptInv, Attempt
<1>5. ASSUME ~overlapped' PROVE Attempt'
  <2>1. ~overlapped /\ Attempt
    BY <1>2, <1>5 DEF AttemptInv
  <2>2. CASE UNCHANGED vars
    <3>1. UNCHANGED <<transfer, reset, disabling, disk, deploy>> /\ UNCHANGED vmVars
      BY <2>2 DEF vars, updateVars, disableVars
    <3>2. Serial' /\ ResetBankHeld'
      BY <2>1, <3>1 DEF Attempt, Serial, ResetBankHeld, vmVars
    <3>3. Witnessed'
      BY <2>1, <3>1 DEF Attempt, Witnessed, FreshIn, Up, IsRunning, vmVars
    <3>4. RelaunchHeld'
      BY <2>1, <3>1 DEF Attempt, RelaunchHeld, Relaunched, Underway, Aimed, Onto, NextBank, vmVars
    <3> QED
      BY <3>2, <3>3, <3>4 DEF Attempt
  <2>3. CASE ~Overlap
    <3>1. Serial'
      <4>1. SerialInv
        BY <1>1, <2>1 DEF SerialInv, Attempt
      <4> QED
        BY <1>5, <4>1, SerialInvStep DEF SerialInv
    <3>2. ResetBankHeld'
      BY <1>1, <2>1, <2>3, ResetBankStep DEF Attempt, Types
    <3>3. Witnessed'
      BY <1>1, <1>2, <2>1, <2>3, WitnessedStep DEF Attempt
    <3>4. RelaunchHeld'
      BY <1>1, <1>5, <2>1, <2>3, RelaunchStep DEF Attempt
    <3> QED
      BY <3>1, <3>2, <3>3, <3>4 DEF Attempt
  <2> QED
    BY <1>1, <1>5, <2>2, <2>3, OneRequest
<1> QED
  BY <1>1, <1>3, <1>4, <1>5 DEF AttemptInv

\* What get_activation_state takes for the update's first boot is a boot of
\* the image just armed: never of the guest that was shutting down, nor of an
\* earlier transfer, whatever resets, polls, verdicts, restarts, crashes and
\* lost answers came before - unless requests overlapped, a rollback is under
\* way, or a guest that was down left its heartbeat in a region that persists.
THEOREM ActivationFresh == Spec => ActivationIsFreshUnlessLeft
<1>1. Init => AttemptInv
  <2>1. Init => Serial
    BY DEF Init, VmInit, Serial, NoTask
  <2>2. Init => TransferHeld /\ RegionHeld /\ PollHeld
    BY DEF Init, VmInit, TransferHeld, NoDisabling, RegionHeld, NoBeat, PollHeld
  <2>3. Init => ResetBankHeld /\ Witnessed /\ RelaunchHeld
    BY DEF Init, ResetBankHeld, NoReset, NoTransfer, Witnessed, RelaunchHeld, Relaunched
  <2> QED
    BY <2>1, <2>2, <2>3, InitTypes DEF AttemptInv, Attempt
<1>2. ASSUME AttemptInv, [Next]_vars, Activated,
             transfer.baseline = NotRunning => ~deploy.persistent
      PROVE  boots[poll.boot] = disk.image[disk.active]
  <2>1. ~overlapped /\ disabling = NoDisabling
    BY <1>2 DEF Activated
  <2>2. PollRecord /\ Unmoved
    BY <1>2, ActivatedStep DEF AttemptInv, Types, Activated
  <2>3. /\ poll # NoPoll /\ poll.id = transfer.id /\ poll.baseline = transfer.baseline
        /\ transfer # NoTransfer
    BY <2>2 DEF PollRecord, Unmoved, NoTransfer
  <2>4. boots[poll.boot] = poll.id
    BY <1>2, <2>1, <2>3 DEF AttemptInv, PollHeld
  <2>5. disk.image[disk.active] = transfer.id
    BY <1>2, <2>1, <2>3 DEF AttemptInv, TransferHeld, NoDisabling
  <2> QED
    BY <2>3, <2>4, <2>5
<1>3. AttemptInv /\ [Next]_vars =>
         [Activated /\ (transfer.baseline = NotRunning => ~deploy.persistent)
            => boots[poll.boot] = disk.image[disk.active]]_vars
  BY <1>2
<1> QED
  BY <1>1, <1>3, AttemptInvStep, PTL DEF Spec, ActivationIsFreshUnlessLeft

=============================================================================
