----------------------------- MODULE NodeUpdate -----------------------------
(***************************************************************************)
(* A node's update transaction across its A/B components: ComponentBackend *)
(* (crates/component-mgr/src/backend.rs) flashes, commits and rolls back   *)
(* one component through its IvdBankProvider (bank_provider.rs), which     *)
(* writes two authorities - the component's NV boot state and the node's   *)
(* one boot vector - while the coordinator (machine-mgr/src/node_update.rs)*)
(* gates new flashes and run_verdict (component-mgr/src/sovd/routes.rs)    *)
(* fans a node verdict out.                                                *)
(*                                                                         *)
(* The boot vector is the two copies of module BootVector, its verbs       *)
(* atomic: a verb succeeds or is an Err that changes nothing.  NV writes   *)
(* are atomic per record (module NvRegion).  Each handler is cut at the    *)
(* locks it gives up, so handlers of different components interleave and   *)
(* the process may die between an NV write and a vector write.             *)
(***************************************************************************)
EXTENDS Naturals, FiniteSets

CONSTANTS Components, \* the banked components of the node
          Nodes,      \* kinds of node: see `node`
          MaxImages,  \* bound: images uploaded
          MaxFaults   \* bound: failed writes and deaths

\* A campaign uploads to each component, finalizes it once, resets the node
\* and then gives one node verdict.  Nothing refuses these as well:
\*   reset       ecu_reset of a single component
\*   verdict     a verdict on a component's own route
\*   validate    validate, invalidate and activate between finalize and reset
\*   refinalize  finalize with nothing staged, or again
\*   overlap     a flash started while a node verdict is being fanned out
RequestKinds == {"reset", "verdict", "validate", "refinalize", "overlap"}

\* Writes that fail, places the process dies, and the boot stage giving a
\* trial up.
FaultKinds == {"install", "activator", "seal", "undo_install", "commit_nv",
               "commit_vector", "rollback_vector", "rollback_nv", "die_finalize",
               "die_commit", "die_rollback", "die_verdict", "boot_stage"}

ASSUME ComponentsAssumption == IsFiniteSet(Components)
ASSUME NodesAssumption ==
    Nodes \subseteq [updated : SUBSET Components, nodeReset : SUBSET Components,
                     requests : SUBSET RequestKinds, faults : SUBSET FaultKinds]
ASSUME BoundsAssumption == MaxImages \in Nat /\ MaxFaults \in Nat

VARIABLES node,      \* constant: which components are updated, whose new bank runs
                     \* only after a node reset, what clients request beyond a
                     \* campaign, what may fail
          nv,        \* NV boot state: component -> active bank, committed
          bank,      \* bank contents: component -> bank -> image
          primary,   \* boot vector, what boots: component -> bank and sealed image
          secondary, \* boot vector, the floor
          pending,   \* SystemBankManager's staging, Unstaged when there is none
          running,   \* the bank a component's backend believes it runs
          flash,     \* the component's flash transfer: its state, whether it has a package
          fresh,     \* the <<component, bank>> sealed in the current node boot
          rebooted,  \* the node rebooted since the standing trial was armed
          serving,   \* the process is past start-up
          pc,        \* where a component's handler is
          verdict,   \* the node verdict being fanned out: who is left, who is at it
          uploaded,  \* component -> image of the last upload (history)
          images,    \* images uploaded so far
          faults     \* faults so far: how many, of which kinds

disk == <<nv, bank, primary, secondary>>
vars == <<node, nv, bank, primary, secondary, pending, running, flash, fresh, rebooted,
          serving, pc, verdict, uploaded, images, faults>>

Updated == node.updated
NodeReset == node.nodeReset
Requests == node.requests
Faults == node.faults

Banks == {"A", "B"}
Other(b) == IF b = "A" THEN "B" ELSE "A"

NoImage == 0                  \* an empty or wiped bank
Image == 0 .. MaxImages + 1   \* image 1 is the factory's
Vector == [Components -> [bank : Banks, img : Image]]
Unstaged == [c \in {} |-> 0]
NoFlash == [state |-> "none", package |-> FALSE]
NoVerdict == [kind |-> "none", todo |-> {}, at |-> {}]

States == {"none", "transferring", "staged", "validated", "awaiting_reboot", "verifying",
           "activated"}
Pcs == {"idle", "activate", "undo_install", "commit_vector", "rollback_nv", "wipe"}

Fault(kind) ==
    /\ kind \in Faults
    /\ faults.n < MaxFaults
    /\ faults' = [n |-> faults.n + 1, seen |-> faults.seen \cup {kind}]

----------------------------------------------------------------------------
(* What a component's provider reports.                                    *)

\* component_in_trial: the booted entry differs from the floor's.
InTrial(c) == primary[c] # secondary[c]
TrialSet == {c \in Components : InTrial(c)}

\* pending_reboot: the selected bank is not NV's.
PendingReboot(c) == primary[c].bank # nv[c].active

\* banks().pending_reset: the selected bank was sealed in this node boot.
PendingReset(c) == c \in NodeReset /\ <<c, primary[c].bank>> \in fresh

\* target_bank: the sibling of NV's bank.
Target(c) == Other(nv[c].active)

\* The NV lock is free: commit keeps it until the vector is committed.
NvFree == \A c \in Components : pc[c] # "commit_vector"

InState(c, state) == [flash EXCEPT ![c].state = state]

----------------------------------------------------------------------------
(* start_flash, the upload, and finalize_flash.                            *)

\* ensure_flash_can_start and gate_new_session: out of trial, no reset owed
\* by any component, no trial the node rebooted into; determine_target_bank.
FlashCanStart(c) ==
    /\ ~InTrial(c)
    /\ \A d \in Components : ~PendingReset(d)
    /\ ~(TrialSet # {} /\ rebooted)
    /\ ~PendingReboot(c)

StartFlash(c) ==
    /\ c \in Updated /\ serving /\ NvFree /\ pc[c] = "idle"
    /\ "overlap" \in Requests \/ verdict = NoVerdict
    /\ FlashCanStart(c)
    /\ flash' = [flash EXCEPT ![c] = [state |-> "transferring", package |-> FALSE]]
    /\ UNCHANGED <<disk, pending, running, fresh, rebooted, serving, pc, verdict,
                   uploaded, images, node, faults>>

\* The manifest names the package, its payloads stream into the target bank,
\* and the complete bank is sealed, with the boot it is sealed in.
Upload(c) ==
    /\ serving /\ NvFree /\ pc[c] = "idle"
    /\ flash[c].state # "none" /\ ~flash[c].package
    /\ ~PendingReboot(c)
    /\ images <= MaxImages
    /\ bank' = [bank EXCEPT ![c][Target(c)] = images + 1]
    /\ fresh' = fresh \cup {<<c, Target(c)>>}
    /\ uploaded' = [uploaded EXCEPT ![c] = images + 1]
    /\ images' = images + 1
    /\ flash' = [flash EXCEPT ![c] = [state |-> "staged", package |-> TRUE]]
    /\ UNCHANGED <<nv, primary, secondary, pending, running, rebooted, serving, pc,
                   verdict, faults, node>>

\* abort_flash, refused once flash_is_finalized; the bank keeps its parts.
Abort(c) ==
    /\ serving /\ pc[c] = "idle"
    /\ flash[c].state \notin {"none", "awaiting_reboot", "activated"}
    /\ flash' = [flash EXCEPT ![c] = NoFlash]
    /\ UNCHANGED <<disk, pending, running, fresh, rebooted, serving, pc, verdict,
                   uploaded, images, node, faults>>

\* validate, invalidate and activate only move the transfer's state.
Relabel(c, from, to) ==
    /\ "validate" \in Requests /\ serving /\ pc[c] = "idle"
    /\ flash[c].state \in from
    /\ flash' = InState(c, to)
    /\ UNCHANGED <<disk, pending, running, fresh, rebooted, serving, pc, verdict,
                   uploaded, images, node, faults>>

Validate(c) == Relabel(c, {"staged", "awaiting_reboot"}, "validated")
Invalidate(c) == Relabel(c, {"validated"}, "staged")
Activate(c) == Relabel(c, {"validated"}, "awaiting_reboot")

\* install_precomputed: to the other bank, uncommitted; refused in trial.
Installed(s) == IF s.committed THEN [active |-> Other(s.active), committed |-> FALSE] ELSE s

\* finalize_flash's first half.  A refused install is only logged; with no
\* package there is none.
Finalize(c) ==
    /\ c \in Updated /\ serving /\ NvFree /\ pc[c] = "idle"
    /\ "refinalize" \in Requests \/ flash[c].state \in {"staged", "validated"}

FinalizeInstall(c) ==
    /\ Finalize(c)
    /\ nv' = IF flash[c].package THEN [nv EXCEPT ![c] = Installed(@)] ELSE nv
    /\ pc' = [pc EXCEPT ![c] = "activate"]
    /\ UNCHANGED <<bank, primary, secondary, pending, running, flash, fresh, rebooted,
                   serving, verdict, uploaded, images, node, faults>>

\* A failed NV write is only logged too.
FinalizeInstallFails(c) ==
    /\ Finalize(c)
    /\ flash[c].package
    /\ Fault("install")
    /\ pc' = [pc EXCEPT ![c] = "activate"]
    /\ UNCHANGED <<disk, pending, running, flash, fresh, rebooted, serving, verdict,
                   uploaded, images, node>>

\* Mutant of Staged: the target bank, though install has just flipped NV.
StagedTarget(c) == [(IF pending = Unstaged THEN primary ELSE pending)
                      EXCEPT ![c] = [bank |-> Target(c), img |-> bank[c][Target(c)]]]

\* stage: NV's bank and the images sealed in it, over what is staged already.
Staged(c) == [(IF pending = Unstaged THEN primary ELSE pending)
                EXCEPT ![c] = [bank |-> nv[c].active, img |-> bank[c][nv[c].active]]]

\* The provider's activate: stage and seal, armed at the current boot.
FinalizeActivate(c) ==
    /\ pc[c] = "activate" /\ NvFree
    /\ primary' = Staged(c)
    /\ pending' = Unstaged
    /\ rebooted' = FALSE
    /\ flash' = IF flash[c] = NoFlash THEN flash ELSE InState(c, "awaiting_reboot")
    /\ pc' = [pc EXCEPT ![c] = "idle"]
    /\ UNCHANGED <<nv, bank, secondary, running, fresh, serving, verdict, uploaded,
                   images, node, faults>>

\* The activator or the seal failed; after the seal the staging stays.
FinalizeActivateFails(c) ==
    /\ pc[c] = "activate" /\ NvFree
    /\ \/ Fault("activator") /\ UNCHANGED pending
       \/ Fault("seal") /\ pending' = Staged(c)
    /\ pc' = [pc EXCEPT ![c] = "undo_install"]
    /\ UNCHANGED <<disk, running, flash, fresh, rebooted, serving, verdict, uploaded,
                   images, node>>

\* Mutant of RolledBack: ends the trial and stays on its bank.
RolledBackInPlace(s) == [s EXCEPT !.committed = TRUE]

\* ota::rollback: back to the other bank, committed.
RolledBack(s) == [active |-> Other(s.active), committed |-> TRUE]

UndoInstall(c) ==
    /\ pc[c] = "undo_install" /\ NvFree
    /\ nv' = [nv EXCEPT ![c] = IF @.committed THEN @ ELSE RolledBack(@)]
    /\ pc' = [pc EXCEPT ![c] = "idle"]
    /\ UNCHANGED <<bank, primary, secondary, pending, running, flash, fresh, rebooted,
                   serving, verdict, uploaded, images, node, faults>>

\* The undo's own failure is dropped: NV stays in a trial nothing armed.
UndoInstallFails(c) ==
    /\ pc[c] = "undo_install" /\ NvFree
    /\ ~nv[c].committed
    /\ Fault("undo_install")
    /\ pc' = [pc EXCEPT ![c] = "idle"]
    /\ UNCHANGED <<disk, pending, running, flash, fresh, rebooted, serving, verdict,
                   uploaded, images, node>>

----------------------------------------------------------------------------
(* Running the new bank: ecu_reset of one component, or a node reset.      *)

\* A guest's ecu_reset asks vm-service to relaunch it on NV's bank...
EcuResetGuest(c) ==
    /\ "reset" \in Requests /\ serving /\ NvFree /\ pc[c] = "idle"
    /\ c \notin NodeReset
    /\ flash[c] # NoFlash
    /\ flash' = InState(c, "verifying")
    /\ UNCHANGED <<disk, pending, running, fresh, rebooted, serving, pc, verdict,
                   uploaded, images, node, faults>>

\* ...and get_activation_state, seeing a fresh ready guest, takes that bank
\* for the one running.
HealthConfirmed(c) ==
    /\ serving /\ NvFree
    /\ flash[c].state = "verifying"
    /\ running' = [running EXCEPT ![c] = nv[c].active]
    /\ flash' = InState(c, "activated")
    /\ UNCHANGED <<disk, pending, fresh, rebooted, serving, pc, verdict, uploaded,
                   images, node, faults>>

\* ecu_reset of a component without vm-service switches the bank itself.
EcuResetNode(c) ==
    /\ "reset" \in Requests /\ serving /\ NvFree /\ pc[c] = "idle"
    /\ c \in NodeReset \cap Updated
    /\ running' = [running EXCEPT ![c] = nv[c].active]
    /\ flash' = IF flash[c] = NoFlash THEN flash ELSE InState(c, "activated")
    /\ UNCHANGED <<disk, pending, fresh, rebooted, serving, pc, verdict, uploaded,
                   images, node, faults>>

Quiet == verdict = NoVerdict /\ \A c \in Components : pc[c] = "idle"

\* While the node is down the boot stage, having counted its own failed
\* starts, may restore the floor; it does not know NV.
BootStage(nodeToo) ==
    \/ UNCHANGED primary
    \/ nodeToo /\ "boot_stage" \in Faults /\ primary' = secondary
Restored == IF primary' = primary THEN {} ELSE {"boot_stage"}

\* Memory is gone; each backend takes NV's bank for the one it runs.
Restart(nodeToo) ==
    /\ BootStage(nodeToo)
    /\ pending' = Unstaged
    /\ running' = [c \in Components |-> nv[c].active]
    /\ flash' = [c \in Components |-> NoFlash]
    /\ fresh' = IF nodeToo THEN {} ELSE fresh
    /\ rebooted' = (rebooted \/ nodeToo)
    /\ serving' = FALSE
    /\ pc' = [c \in Components |-> "idle"]
    /\ verdict' = NoVerdict
    /\ UNCHANGED <<nv, bank, secondary, uploaded, images, node>>

Reset ==
    /\ serving /\ Quiet
    /\ Restart(TRUE)
    /\ faults' = [faults EXCEPT !.seen = @ \cup Restored]

\* The process or the node dies in the middle of handlers, or of a fan-out
\* between two of them.
At(fault) == CASE fault = "die_finalize" -> {"activate", "undo_install"}
               [] fault = "die_commit" -> {"commit_vector"}
               [] fault = "die_rollback" -> {"rollback_nv", "wipe"}
Cut ==
    {fault \in {"die_finalize", "die_commit", "die_rollback"} :
        \E c \in Components : pc[c] \in At(fault)}
    \cup {fault \in {"die_verdict"} :
             verdict # NoVerdict /\ \A c \in verdict.at : pc[c] = "idle"}

Die ==
    /\ ~Quiet
    /\ Cut \subseteq Faults
    /\ faults.n < MaxFaults
    /\ \E n \in BOOLEAN : Restart(n)
    /\ faults' = [n |-> faults.n + 1, seen |-> faults.seen \cup Cut \cup Restored]

Serve ==
    /\ ~serving /\ Quiet
    /\ serving' = TRUE
    /\ UNCHANGED <<disk, pending, running, flash, fresh, rebooted, pc, verdict, uploaded,
                   images, node, faults>>

\* Mutant of BailOut: the vector only.
BailOutVectorOnly ==
    /\ ~serving /\ Quiet
    /\ rebooted /\ TrialSet # {}
    /\ primary' = secondary
    /\ UNCHANGED <<nv, bank, secondary, pending, running, flash, fresh, rebooted, serving,
                   pc, verdict, uploaded, images, node, faults>>

\* observe_node_boot reached the limit: the vector first, then, still before
\* serving, rollback_flash of the components that were in trial.
BailOut ==
    /\ ~serving /\ Quiet
    /\ rebooted /\ TrialSet # {}
    /\ verdict' = [kind |-> "rollback", todo |-> TrialSet, at |-> {}]
    /\ primary' = secondary
    /\ UNCHANGED <<nv, bank, secondary, pending, running, flash, fresh, rebooted, serving,
                   pc, uploaded, images, node, faults>>

----------------------------------------------------------------------------
(* Verdicts.                                                               *)

\* run_verdict's candidates: in trial and Activated, by the transfer or,
\* without one, by the bank report.
Candidates == {c \in TrialSet : \/ flash[c].state = "activated"
                                \/ flash[c] = NoFlash /\ ~PendingReset(c)}

\* Mutant of MayCommit: the bank report alone.
MayCommitReported(c) == ~PendingReboot(c)

\* preflight_commit.
MayCommit(c) ==
    /\ flash[c].state # "awaiting_reboot"
    /\ primary[c].bank = running[c]
    /\ ~PendingReboot(c)

NodeVerdict(kind) ==
    /\ serving /\ NvFree /\ verdict = NoVerdict
    /\ Candidates # {}
    /\ kind = "commit" => \A c \in Candidates : MayCommit(c)
    /\ verdict' = [kind |-> kind, todo |-> Candidates, at |-> {}]
    /\ UNCHANGED <<disk, pending, running, flash, fresh, rebooted, serving, pc, uploaded,
                   images, node, faults>>

\* The fan-out goes on to c.
Turn(c, kind) ==
    /\ pc[c] = "idle"
    /\ verdict.kind = kind /\ verdict.at = {} /\ c \in verdict.todo

\* A verdict handler of c begins: from the fan-out, or from c's own route.
Begin(c, kind) ==
    \/ Turn(c, kind) /\ verdict' = [verdict EXCEPT !.todo = @ \ {c}, !.at = {c}]
    \/ c \in Updated /\ "verdict" \in Requests /\ serving /\ pc[c] = "idle" /\ UNCHANGED verdict

\* The handler of c ends, with Ok or Err: the fan-out goes on without c.
Without(c) ==
    IF verdict.todo \subseteq {c} THEN NoVerdict
    ELSE [verdict EXCEPT !.todo = @ \ {c}, !.at = {}]
End(c) ==
    /\ pc' = [pc EXCEPT ![c] = "idle"]
    /\ verdict' = IF verdict.at = {c} THEN Without(c) ELSE verdict

\* commit_flash: NV first; a committed set is folded into success.
CommitNv(c) ==
    /\ NvFree
    /\ Begin(c, "commit")
    /\ MayCommit(c)
    /\ nv' = [nv EXCEPT ![c].committed = TRUE]
    /\ pc' = [pc EXCEPT ![c] = "commit_vector"]
    /\ UNCHANGED <<bank, primary, secondary, pending, running, flash, fresh, rebooted,
                   serving, uploaded, images, node, faults>>

\* Refused by c's own preflight, or the NV write failed.
CommitRefused(c) ==
    /\ NvFree
    /\ Turn(c, "commit")
    /\ \/ ~MayCommit(c) /\ UNCHANGED faults
       \/ MayCommit(c) /\ Fault("commit_nv")
    /\ verdict' = Without(c)
    /\ UNCHANGED <<disk, pending, running, flash, fresh, rebooted, serving, pc, uploaded,
                   images, node>>

\* The vector's commit is the whole vector's.
CommitVector(c) ==
    /\ pc[c] = "commit_vector"
    /\ secondary' = primary
    /\ flash' = [flash EXCEPT ![c] = NoFlash]
    /\ End(c)
    /\ UNCHANGED <<nv, bank, primary, pending, running, fresh, rebooted, serving, uploaded,
                   images, node, faults>>

CommitVectorFails(c) ==
    /\ pc[c] = "commit_vector"
    /\ Fault("commit_vector")
    /\ End(c)
    /\ UNCHANGED <<disk, pending, running, flash, fresh, rebooted, serving, uploaded,
                   images, node>>

\* rollback_flash: the NV precondition, then the whole vector (a vector out
\* of trial only drops its staging)...
RollbackVector(c) ==
    /\ NvFree
    /\ Begin(c, "rollback")
    /\ ~nv[c].committed
    /\ primary' = secondary
    /\ pending' = Unstaged
    /\ pc' = [pc EXCEPT ![c] = "rollback_nv"]
    /\ UNCHANGED <<nv, bank, secondary, running, flash, fresh, rebooted, serving,
                   uploaded, images, node, faults>>

RollbackRefused(c) ==
    /\ NvFree
    /\ Turn(c, "rollback")
    /\ \/ nv[c].committed /\ UNCHANGED faults
       \/ ~nv[c].committed /\ TrialSet # {} /\ Fault("rollback_vector")
    /\ verdict' = Without(c)
    /\ UNCHANGED <<disk, pending, running, flash, fresh, rebooted, serving, pc, uploaded,
                   images, node>>

\* ...then NV...
RollbackNv(c) ==
    /\ pc[c] = "rollback_nv" /\ NvFree
    /\ nv' = [nv EXCEPT ![c] = RolledBack(@)]
    /\ pc' = [pc EXCEPT ![c] = "wipe"]
    /\ UNCHANGED <<bank, primary, secondary, pending, running, flash, fresh, rebooted,
                   serving, verdict, uploaded, images, node, faults>>

RollbackNvFails(c) ==
    /\ pc[c] = "rollback_nv" /\ NvFree
    /\ Fault("rollback_nv")
    /\ End(c)
    /\ UNCHANGED <<disk, pending, running, flash, fresh, rebooted, serving, uploaded,
                   images, node>>

\* Mutant of RollbackWipe: wipes the bank NV now names.
RollbackWipeActive(c) ==
    /\ pc[c] = "wipe" /\ NvFree
    /\ bank' = [bank EXCEPT ![c][nv[c].active] = NoImage]
    /\ fresh' = fresh \ {<<c, nv[c].active>>}
    /\ flash' = [flash EXCEPT ![c] = NoFlash]
    /\ End(c)
    /\ UNCHANGED <<nv, primary, secondary, pending, running, rebooted, serving, uploaded,
                   images, node, faults>>

\* Mutant of RollbackWipe: the transfer is kept, as rolled back.
RollbackWipeKeeps(c) ==
    /\ pc[c] = "wipe" /\ NvFree
    /\ bank' = [bank EXCEPT ![c][Target(c)] = NoImage]
    /\ fresh' = fresh \ {<<c, Target(c)>>}
    /\ flash' = InState(c, "rolled_back")
    /\ End(c)
    /\ UNCHANGED <<nv, primary, secondary, pending, running, rebooted, serving, uploaded,
                   images, node, faults>>

\* ...then the target bank is wiped, seal and all, and the transfer dropped.
RollbackWipe(c) ==
    /\ pc[c] = "wipe" /\ NvFree
    /\ bank' = [bank EXCEPT ![c][Target(c)] = NoImage]
    /\ fresh' = fresh \ {<<c, Target(c)>>}
    /\ flash' = [flash EXCEPT ![c] = NoFlash]
    /\ End(c)
    /\ UNCHANGED <<nv, primary, secondary, pending, running, rebooted, serving, uploaded,
                   images, node, faults>>

----------------------------------------------------------------------------
\* A provisioned node: the factory image in bank A, nothing in bank B.
Init ==
    /\ node \in Nodes
    /\ nv = [c \in Components |-> [active |-> "A", committed |-> TRUE]]
    /\ bank = [c \in Components |-> [b \in Banks |-> IF b = "A" THEN 1 ELSE NoImage]]
    /\ primary = [c \in Components |-> [bank |-> "A", img |-> 1]]
    /\ secondary = primary
    /\ pending = Unstaged
    /\ running = [c \in Components |-> "A"]
    /\ flash = [c \in Components |-> NoFlash]
    /\ fresh = {}
    /\ rebooted = FALSE
    /\ serving = TRUE
    /\ pc = [c \in Components |-> "idle"]
    /\ verdict = NoVerdict
    /\ uploaded = [c \in Components |-> NoImage]
    /\ images = 1
    /\ faults = [n |-> 0, seen |-> {}]

Flash(c) == \/ StartFlash(c) \/ Upload(c) \/ Abort(c)
            \/ Validate(c) \/ Invalidate(c) \/ Activate(c)
            \/ FinalizeInstall(c) \/ FinalizeInstallFails(c)
            \/ FinalizeActivate(c) \/ FinalizeActivateFails(c)
            \/ UndoInstall(c) \/ UndoInstallFails(c)
            \/ EcuResetGuest(c) \/ HealthConfirmed(c) \/ EcuResetNode(c)

Judge(c) == \/ CommitNv(c) \/ CommitRefused(c) \/ CommitVector(c) \/ CommitVectorFails(c)
            \/ RollbackVector(c) \/ RollbackRefused(c)
            \/ RollbackNv(c) \/ RollbackNvFails(c) \/ RollbackWipe(c)

Next == \/ \E c \in Components : Flash(c) \/ Judge(c)
        \/ \E kind \in {"commit", "rollback"} : NodeVerdict(kind)
        \/ Reset \/ Die \/ Serve \/ BailOut

Spec == Init /\ [][Next]_vars

----------------------------------------------------------------------------
(* Properties.                                                             *)

\* Every variable keeps its type.
TypeOK ==
    /\ nv \in [Components -> [active : Banks, committed : BOOLEAN]]
    /\ bank \in [Components -> [Banks -> Image]]
    /\ primary \in Vector /\ secondary \in Vector
    /\ pending \in Vector \cup {Unstaged}
    /\ running \in [Components -> Banks]
    /\ flash \in [Components -> [state : States, package : BOOLEAN]]
    /\ fresh \subseteq Components \X Banks
    /\ rebooted \in BOOLEAN /\ serving \in BOOLEAN
    /\ pc \in [Components -> Pcs]
    /\ verdict \in [kind : {"none", "commit", "rollback"}, todo : SUBSET Components,
                    at : SUBSET Components]
    /\ uploaded \in [Components -> Image]
    /\ images \in Image /\ faults \in [n : 0 .. MaxFaults, seen : SUBSET Faults]

\* Which faults have happened.  A property says which it holds in spite of.
Saw(kinds) == faults.seen \cap kinds # {}

\* A flash admitted between two components of a node verdict: the first
\* component's vector verb ends the trial of the next, whose NV is still in it.
WithinVerdict == "overlap" \in Requests /\ Cardinality(Updated) > 1

\* finalize can be called again over an armed bank: on request, or with the
\* transfer validated after it was finalized.
Refinalized == Requests \cap {"refinalize", "validate"} # {}

\* Faults that part a component's two authorities: a handler cut or failed
\* between its two writes, and a floor restored by the boot stage; with more
\* components, a refusal that one of a fan-out meets and the next does not;
\* with finalize called again, an activator that fails over an armed bank.
Parting ==
    {"seal", "undo_install", "commit_vector", "rollback_nv", "die_finalize",
     "die_commit", "die_rollback", "die_verdict", "boot_stage"}
    \cup (IF Cardinality(Updated) > 1 THEN {"commit_nv", "rollback_vector"} ELSE {})
    \cup (IF Refinalized THEN {"activator"} ELSE {})

\* What the node boots, and what it falls back to, is on disk: neither copy
\* of the vector names a bank whose sealed content has been overwritten or
\* wiped (prepare_target's wipe in rollback_flash, the upload's target).  Any
\* fault but a failed seal, whose staging the next seal takes along, or a
\* failed vector commit.
VectorBootable ==
    ~Saw({"seal", "commit_vector"}) =>
        \A c \in Components : \A v \in {primary, secondary} : bank[c][v[c].bank] = v[c].img

\* Between handlers, a component's NV boot state and the boot vector agree:
\* on the bank, and on whether it is in trial.  Where they part, start_flash,
\* commit or rollback of that component is refused.
NvFollowsVector ==
    serving /\ Quiet /\ ~Saw(Parting) /\ ~WithinVerdict => \A c \in Components :
        nv[c] = [active |-> primary[c].bank, committed |-> ~InTrial(c)]

\* A component committed in NV boots NV's bank.  Otherwise start_flash is
\* refused (pending_reboot), commit is (preflight_commit), rollback is
\* (rollback_target: nothing in trial), and no reboot moves either authority.
CommittedBoots ==
    serving /\ Quiet => \A c \in Components : nv[c].committed => ~PendingReboot(c)

\* No component is stuck so, after a death in finalize, rollback or between two
\* components of a fan-out, a floor restored by the boot stage, a failed install,
\* a refused verdict or a failed rollback write.  An activator that fails may
\* strand one: finalize undoes an NV trial that it did not begin, of a bank that is
\* armed (Refinalized) or whose trial a sibling's commit has ended (a verdict
\* that was cut or refused for it, a transfer that was lost with the process, or
\* a flash within the verdict).
NoneStuck ==
    \/ Saw({"seal", "commit_vector", "die_commit"})
    \/ /\ Saw({"activator"})
       /\ \/ Refinalized
          \/ WithinVerdict
          \/ Cardinality(Updated) > 1 /\ Saw({"commit_nv", "die_verdict", "die_finalize"})
    \/ CommittedBoots

\* The rollback floor only ever moves to a bank its component runs, as far as
\* the process can see (commit_flash after preflight_commit, whose vector
\* commit is the whole vector's), unless the flash came within a node verdict
\* or, with several components, a death in finalize lost the others' transfers
\* or a failed seal, not undone in NV either, left a staging that another
\* component's finalize seals.
FloorHasRun ==
    [][\A c \in Components :
         /\ secondary'[c] # secondary[c] /\ ~WithinVerdict
         /\ Cardinality(Updated) > 1 =>
              ~Saw({"die_finalize"}) /\ ~({"seal", "undo_install"} \subseteq faults.seen)
         => running[c] = secondary'[c].bank]_vars

\* A finalize that succeeds makes the uploaded image the one that boots, unless
\* an install or a seal failed, NV was committed without the vector, or a commit
\* of several components left one of them in an NV trial that the vector has ended.
FinalizeArms ==
    [][\A c \in Components :
         /\ pc[c] = "activate" /\ pc'[c] = "idle" /\ serving' /\ flash[c].package
         /\ ~Saw({"install", "seal", "commit_vector"}) /\ ~WithinVerdict
         /\ Cardinality(Updated) > 1 =>
              ~Saw({"commit_nv", "die_commit", "die_verdict", "die_finalize"})
         => primary'[c].img = uploaded[c]]_vars
=============================================================================
