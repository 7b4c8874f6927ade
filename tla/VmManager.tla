----------------------------- MODULE VmManager -----------------------------
(***************************************************************************)
(* One guest under vm-service.  VmManager (crates/vm-mgr/src/manager.rs)   *)
(* owns the process and its channels; the HTTP handlers (api.rs) take its  *)
(* lock, give it up while a guest shuts down and take it again, so the     *)
(* requests in progress interleave.                                        *)
(*                                                                         *)
(* A process is its launch generation, an image a number.  A wait for a    *)
(* process ends when it exits or times out, hence at any time.  The guest  *)
(* declares the health device, so a launch opens its channels.             *)
(***************************************************************************)
EXTENDS Naturals, Sequences, FiniteSets

CONSTANTS Tasks,    \* requests vm-service may have in progress
          Deploys,  \* kinds of transport and runner
          Traffics, \* each a set of what comes together in one behaviour
          MaxBoots  \* bound: launches, and boots before a guest reboots

\* Of vm-service clients: stop, restart (start is the same handler) and the
\* sweep before a node reset.  Of guests: crash, reboot (on their own).  Of
\* the runner: launch_fault.
VmTraffic == {"stop", "restart", "sweep", "crash", "reboot", "launch_fault"}

ASSUME TasksAssumption == IsFiniteSet(Tasks)
ASSUME DeploysAssumption == Deploys \subseteq [persistent : BOOLEAN, reaps : BOOLEAN]
ASSUME MaxBootsAssumption == MaxBoots \in Nat

VARIABLES traffic, \* a member of Traffics, constant
          deploy,  \* transport keeps regions, runner reaps its child; constant
          vm,      \* the ManagedVm
          guest,   \* the last process launched
          region,  \* the heartbeat in the shared region
          boots,   \* the image of each boot, by boot id
          task,    \* the handlers in progress
          disk     \* what the backend keeps: bank contents, their signed records,
                   \* NV's active bank and whether it is committed

vmVars == <<vm, guest, region, boots, task>>

Banks == {"A", "B"}
Other(b) == IF b = "A" THEN "B" ELSE "A"
NoBank == "none"
NoBeat == [boot |-> 0, state |-> "none"]
NoIdentity == [bank |-> NoBank, generation |-> 0]
NoTask == [pc |-> "none", kind |-> "none", bank |-> NoBank]
NoImage == 0

\* A bank's signed record: of its images, the sentinel of a disable, or one the
\* launch gate refuses: a sentinel whose generation NV does not name, or a pair
\* of files that does not verify.
Records == {"none", "firmware", "sentinel", "unpinned"}

----------------------------------------------------------------------------
(* The manager.                                                            *)

\* runner.is_running: a child nobody reaped still answers.
IsRunning == vm.handle /\ (guest.alive \/ ~deploy.reaps)

\* release_vm.
Released == IF deploy.persistent THEN region ELSE NoBeat

NoGuest == [alive |-> FALSE, told |-> FALSE, pid |-> 0, boot |-> 0, bank |-> NoBank,
            img |-> NoImage]
Dead == [NoGuest EXCEPT !.pid = guest.pid]

\* Mutant of StopNoted: the identity outlives the stop request.
StopNotedNamed(v) ==
    [v EXCEPT !.stop = TRUE, !.failed = FALSE, !.expected = "stopped"]

\* initiate_stop's notes: note_stop_requested, no identity.
StopNoted(v) ==
    [v EXCEPT !.identity = NoIdentity, !.stop = TRUE, !.failed = FALSE,
              !.expected = "stopped"]

\* Mutant of StopInitiated: the handle of a guest shutting down is dropped.
StopInitiatedDropped == [StopNoted(vm) EXCEPT !.handle = FALSE]

\* initiate_stop: a running guest is told, of a gone one the handle is dropped.
StopInitiated == IF IsRunning THEN StopNoted(vm)
                 ELSE [StopNoted(vm) EXCEPT !.handle = FALSE]
Told == IF IsRunning THEN [guest EXCEPT !.told = TRUE] ELSE Dead

\* finalize_stop: whatever process the handle names by now is killed.
Finalized(v) == [v EXCEPT !.handle = FALSE, !.identity = NoIdentity]

\* start_vm up to the launch: what is left of a process that exited goes.
Cleared(v, b) == [v EXCEPT !.bank = b, !.expected = "running", !.handle = FALSE,
                           !.identity = NoIdentity]

\* The admin gate, at the choke point of every start.
Gate == disk.record[disk.active] # "sentinel"

Launchable(b) == b # NoBank /\ disk.image[b] # NoImage /\ disk.record[b] = "firmware"

\* start_vm on bank b, under the lock throughout.
StartRefused(b) ==
    /\ ~Gate
    /\ vm' = [vm EXCEPT !.bank = b, !.expected = "stopped"]
    /\ UNCHANGED <<guest, region, boots>>

AlreadyRunning(b) ==
    /\ Gate /\ IsRunning
    /\ vm' = [vm EXCEPT !.bank = b, !.expected = "running"]
    /\ UNCHANGED <<guest, region, boots>>

\* Mutant of Unlaunched: a launch that failed is not noted.
UnlaunchedUnnoted(b) ==
    IF b # NoBank /\ disk.image[b] # NoImage /\ disk.record[b] = "sentinel"
    THEN [Cleared(vm, b) EXCEPT !.expected = "stopped"]
    ELSE [Cleared(vm, b) EXCEPT !.failed = FALSE]

\* The notes of a start that does not launch: no bank is no failure, a
\* disabled bank should not run.
Unlaunched(b) ==
    IF b # NoBank /\ disk.image[b] # NoImage /\ disk.record[b] = "sentinel"
    THEN [Cleared(vm, b) EXCEPT !.expected = "stopped"]
    ELSE [Cleared(vm, b) EXCEPT !.failed = (b # NoBank)]

\* No bank, no kernel, a bank that does not verify, or a runner that fails.
NotLaunched(b) ==
    /\ Gate /\ ~IsRunning
    /\ ~Launchable(b) \/ "launch_fault" \in traffic
    /\ vm' = Unlaunched(b)
    /\ guest' = Dead
    /\ region' = Released
    /\ UNCHANGED boots

\* note_started, the handle, the next generation.
Launched(v) ==
    [v EXCEPT !.stop = FALSE, !.failed = FALSE, !.handle = TRUE,
              !.identity = [bank |-> v.bank, generation |-> guest.pid + 1]]

Launch(b) ==
    /\ Gate /\ ~IsRunning /\ Launchable(b)
    /\ guest.pid < MaxBoots
    /\ vm' = Launched(Cleared(vm, b))
    /\ guest' = [alive |-> TRUE, told |-> FALSE, pid |-> guest.pid + 1, boot |-> 0,
                 bank |-> b, img |-> disk.image[b]]
    /\ region' = Released
    /\ UNCHANGED boots

StartVm(b) == StartRefused(b) \/ AlreadyRunning(b) \/ NotLaunched(b) \/ Launch(b)

\* The host's autostart loop, once.
AutoStart ==
    /\ vm.expected = "unset"
    /\ StartVm(vm.bank)
    /\ UNCHANGED task

\* stop_all_for_reboot: initiate, wait and finalize under one lock.
Sweep ==
    /\ "sweep" \in traffic
    /\ vm' = Finalized(IF vm.handle THEN StopNoted(vm) ELSE vm)
    /\ guest' = Dead
    /\ region' = Released
    /\ UNCHANGED <<boots, task>>

\* read_health notes a process that exited unasked.
Observed(v) ==
    [v EXCEPT !.failed = @ \/ (v.handle /\ ~IsRunning /\ ~v.stop)]

ReadHealth ==
    /\ vm' = Observed(vm)
    /\ UNCHANGED <<guest, region, boots, task>>

----------------------------------------------------------------------------
(* The handlers.  A task waits, without the lock, before its next step.    *)

Begin(t, kind, b, pc) ==
    /\ task[t] = NoTask
    /\ task' = [task EXCEPT ![t] = [pc |-> pc, kind |-> kind, bank |-> b]]

\* stop_vm: refused when there is no handle.
StopVm(t) ==
    /\ vm.handle
    /\ vm' = StopInitiated
    /\ guest' = Told
    /\ Begin(t, "stop", NoBank, "finalize")
    /\ UNCHANGED <<region, boots>>

\* ensure_vm_running: the stop is a means, so the expectation is put back.
ExpectRunning(v) == [v EXCEPT !.expected = "running"]

EnsureVmRunning(t, b) ==
    /\ Gate
    /\ \/ /\ vm.handle
          /\ vm' = ExpectRunning(StopInitiated)
          /\ guest' = Told
          /\ Begin(t, "restart", b, "finalize")
       \/ /\ ~vm.handle
          /\ vm' = ExpectRunning(vm)
          /\ UNCHANGED guest
          /\ Begin(t, "restart", b, "start")
    /\ UNCHANGED <<region, boots>>

\* Mutant of FinalizeStop: the start does not follow.
FinalizeStopOnly(t) ==
    /\ task[t].pc = "finalize"
    /\ vm' = Finalized(vm)
    /\ guest' = Dead
    /\ region' = Released
    /\ task' = [task EXCEPT ![t] = NoTask]
    /\ UNCHANGED boots

\* finalize_stop, after the wait.
FinalizeStop(t) ==
    /\ task[t].pc = "finalize"
    /\ vm' = Finalized(vm)
    /\ guest' = Dead
    /\ region' = Released
    /\ task' = [task EXCEPT ![t] = IF @.kind = "stop" THEN NoTask
                                   ELSE [@ EXCEPT !.pc = "start"]]
    /\ UNCHANGED boots

\* set_vm_bank, if the request named a bank, and start_vm.
StartAfterStop(t) ==
    /\ task[t].pc = "start"
    /\ StartVm(IF task[t].bank = NoBank THEN vm.bank ELSE task[t].bank)
    /\ task' = [task EXCEPT ![t] = NoTask]

----------------------------------------------------------------------------
(* The guest: its heartbeat carries a boot id of its own for every boot.   *)

GuestBoots ==
    /\ guest.alive /\ guest.boot = 0
    /\ boots' = Append(boots, guest.img)
    /\ guest' = [guest EXCEPT !.boot = Len(boots) + 1]
    /\ region' = [boot |-> Len(boots) + 1, state |-> "running"]
    /\ UNCHANGED <<vm, task>>

\* It obeys PowerCommand::Shutdown, and says so if it had come up.
GuestShutsDown ==
    /\ guest.alive /\ guest.told
    /\ guest' = Dead
    /\ region' = IF guest.boot = 0 THEN region ELSE [region EXCEPT !.state = "shutting_down"]
    /\ UNCHANGED <<vm, boots, task>>

GuestCrashes ==
    /\ "crash" \in traffic
    /\ guest.alive
    /\ guest' = Dead
    /\ UNCHANGED <<vm, region, boots, task>>

GuestReboots ==
    /\ "reboot" \in traffic
    /\ guest.alive /\ guest.boot # 0
    /\ Len(boots) < MaxBoots
    /\ guest' = [guest EXCEPT !.boot = 0]
    /\ UNCHANGED <<vm, region, boots, task>>

----------------------------------------------------------------------------
VmInit ==
    /\ traffic \in Traffics
    /\ deploy \in Deploys
    /\ vm \in {[handle |-> FALSE, bank |-> b, expected |-> "unset", stop |-> FALSE,
                failed |-> FALSE, identity |-> NoIdentity] : b \in {"A", NoBank}}
    /\ guest = NoGuest
    /\ region = NoBeat
    /\ boots = <<>>
    /\ task = [t \in Tasks |-> NoTask]
    /\ disk = [image |-> [b \in Banks |-> IF b = "A" THEN 1 ELSE NoImage],
               record |-> [b \in Banks |-> IF b = "A" THEN "firmware" ELSE "none"],
               active |-> "A", committed |-> TRUE]
=============================================================================
