------------------------------- MODULE OtaBank -------------------------------
(***************************************************************************)
(* One bank set's records in NV and the two ratchets they carry: install,  *)
(* commit and rollback (crates/component-mgr/src/ota.rs), the manifest     *)
(* sealed at upload with the generation install will write and the disable *)
(* that seals the serving bank anew, a generation on (backend.rs), and the *)
(* boot stage that counts trial boots in NV (crates/boot, on a node        *)
(* without a boot vector).                                                 *)
(*                                                                         *)
(* A write of one record is atomic (module NvRegion); install and commit   *)
(* write two, fw_meta and then the boot state, under the NV lock, and may  *)
(* fail or lose power in between.  A disable awaits its deactivator and    *)
(* seals the bank without that lock.  The runtime record that install      *)
(* copies first is read by no step here and is left out.                   *)
(***************************************************************************)
EXTENDS Naturals

CONSTANTS Sets,          \* the bank sets of the NV store
          SingleBank,    \* those written in place (the HSM keystore)
          Disableable,   \* those whose component has a Deactivator
          SecVers,       \* security versions of the images on offer
          MaxTrialBoots, \* MAX_TRIAL_BOOTS
          MaxGen         \* bound: generations installed

ASSUME SingleBankAssumption == SingleBank \subseteq Sets
ASSUME DisableableAssumption == Disableable \subseteq Sets
ASSUME SecVersAssumption == SecVers \subseteq Nat
ASSUME BoundsAssumption == MaxTrialBoots \in Nat /\ MaxGen \in Nat

VARIABLES boot,     \* NvBootState: set -> active bank, committed, boot count
          meta,     \* NvFwMeta: set -> bank -> security version, floor, generation
          manifest, \* generation of the manifest sealed in a bank, 0 if none
          staged,   \* security version of the package in the transfer, if any
          pc,       \* where the operation holding the NV lock is
          at,       \* the set it is about
          node,     \* the node is in reset, in its boot stage, or serving
          disabling,  \* set -> its disable under way: step, bank, generation read
          unpinned,   \* set -> banks a disable sealed whose record it has not raised
          overlapped  \* history: sets flashed while a disable of theirs was under way

vars == <<boot, meta, manifest, staged, pc, at, node, disabling, unpinned, overlapped>>

disableVars == <<disabling, unpinned, overlapped>>

Banks == {"A", "B"}
Other(b) == IF b = "A" THEN "B" ELSE "A"

\* A record never written reads as floor 0 and generation 0.
NoMeta == [secver |-> 0, floor |-> 0, gen |-> 0]

Active(s) == boot[s].active
Target(s) == IF s \in SingleBank THEN "A" ELSE Other(Active(s))

\* The bank whose record carries the set's floor and committed generation.
CommittedBank(s) == IF boot[s].committed THEN Active(s) ELSE Other(Active(s))
CommittedMeta(s) == meta[s][CommittedBank(s)]

\* No disable of the set is under way.
NoDisable == [step |-> "none", bank |-> "A", gen |-> 0]

Free == pc = "idle" /\ node = "serving"

----------------------------------------------------------------------------
\* Mutant of InstallGen: over the bank being replaced.
InstallGenOfTarget(s) == meta[s][Target(s)].gen + 1

\* install_gen_for.
InstallGen(s) == CommittedMeta(s).gen + 1

\* An upload is complete: the target bank is sealed with its manifest.
\* start_flash refuses a banked set in trial, and nothing a set whose disable
\* awaits its deactivator.
Seal(s, v) ==
    /\ Free
    /\ s \in SingleBank \/ boot[s].committed
    /\ manifest' = [manifest EXCEPT ![s][Target(s)] = InstallGen(s)]
    /\ staged' = [staged EXCEPT ![s] = {v}]
    /\ unpinned' = [unpinned EXCEPT ![s] = @ \ {Target(s)}]
    /\ overlapped' = IF disabling[s].step = "none" THEN overlapped ELSE overlapped \union {s}
    /\ UNCHANGED <<boot, meta, pc, at, node, disabling>>

\* Mutant of Installed: the generation after the replaced bank's.
InstalledGenOfTarget(s, v) ==
    [secver |-> v,
     floor |-> IF s \in SingleBank THEN v ELSE meta[s][Active(s)].floor,
     gen |-> meta[s][Target(s)].gen + 1]

\* The record install_inner writes: the active bank's floor, kept, and the
\* generation after its own; in place, the floor rises at once.
Installed(s, v) ==
    [secver |-> v,
     floor |-> IF s \in SingleBank THEN v ELSE meta[s][Active(s)].floor,
     gen |-> meta[s][Active(s)].gen + 1]

\* install_precomputed, up to its fw_meta write.
InstallMeta(s, v) ==
    /\ Free
    /\ v \in staged[s]
    /\ boot[s].committed
    /\ v >= meta[s][Active(s)].floor
    /\ meta[s][Active(s)].gen < MaxGen
    /\ meta' = [meta EXCEPT ![s][Target(s)] = Installed(s, v)]
    /\ pc' = "install_state" /\ at' = s
    /\ UNCHANGED <<boot, manifest, staged, node, disableVars>>

\* In trial on the target, or committed in place.
Switched(s) == IF s \in SingleBank
               THEN [active |-> "A", committed |-> TRUE, count |-> 0]
               ELSE [active |-> Target(s), committed |-> FALSE, count |-> 0]

\* The boot state, install's second write.
InstallState ==
    /\ pc = "install_state"
    /\ boot' = [boot EXCEPT ![at] = Switched(at)]
    /\ pc' = "idle"
    /\ UNCHANGED <<meta, manifest, staged, at, node, disableVars>>

\* Mutant of Raised: the record is written back as it was read.
RaisedNot(m) == m

\* commit raises the floor of the trial bank to its image's version...
Raised(m) == [secver |-> m.secver, floor |-> m.secver, gen |-> m.gen]

CommitMeta(s) ==
    /\ Free
    /\ ~boot[s].committed
    /\ meta[s][Active(s)].secver > meta[s][Active(s)].floor
    /\ meta' = [meta EXCEPT ![s][Active(s)] = Raised(@)]
    /\ pc' = "commit_state" /\ at' = s
    /\ UNCHANGED <<boot, manifest, staged, node, disableVars>>

Kept(b) == [active |-> b.active, committed |-> TRUE, count |-> 0]

\* ...and ends the trial; the verdict drops the transfer.
CommitState ==
    /\ pc = "commit_state"
    /\ boot' = [boot EXCEPT ![at] = Kept(@)]
    /\ staged' = [staged EXCEPT ![at] = {}]
    /\ pc' = "idle"
    /\ UNCHANGED <<meta, manifest, at, node, disableVars>>

\* commit of an image that does not raise the floor.
CommitOnly(s) ==
    /\ Free
    /\ ~boot[s].committed
    /\ ~(meta[s][Active(s)].secver > meta[s][Active(s)].floor)
    /\ boot' = [boot EXCEPT ![s] = Kept(@)]
    /\ staged' = [staged EXCEPT ![s] = {}]
    /\ UNCHANGED <<meta, manifest, pc, at, node, disableVars>>

\* The second write returned Err.
WriteFails ==
    /\ pc # "idle"
    /\ pc' = "idle"
    /\ UNCHANGED <<boot, meta, manifest, staged, at, node, disableVars>>

RolledBack(b) == [active |-> Other(b.active), committed |-> TRUE, count |-> 0]

\* rollback_flash: NV, then the trial bank is wiped, best-effort, and the
\* transfer dropped.
Rollback(s) ==
    /\ Free
    /\ ~boot[s].committed
    /\ boot' = [boot EXCEPT ![s] = RolledBack(@)]
    /\ \/ UNCHANGED <<manifest, unpinned>>
       \/ /\ manifest' = [manifest EXCEPT ![s][Active(s)] = 0]
          /\ unpinned' = [unpinned EXCEPT ![s] = @ \ {Active(s)}]
    /\ staged' = [staged EXCEPT ![s] = {}]
    /\ UNCHANGED <<meta, pc, at, node, disabling, overlapped>>

\* finalize_flash rolls NV back when the activation failed, and keeps the
\* transfer.
UndoInstall(s) ==
    /\ Free
    /\ staged[s] # {} /\ ~boot[s].committed
    /\ boot' = [boot EXCEPT ![s] = RolledBack(@)]
    /\ UNCHANGED <<meta, manifest, staged, pc, at, node, disableVars>>

----------------------------------------------------------------------------
\* enact_disable_manifest up to its deactivator's await.  The disable manifest
\* has taken the place of any package in the transfer; a bank that never had
\* an install has no generation to raise.
DisableAdmit(s) ==
    /\ Free
    /\ s \in Disableable /\ disabling[s].step = "none"
    /\ s \in SingleBank \/ boot[s].committed
    /\ meta[s][Active(s)].gen \in 1 .. MaxGen - 1
    /\ disabling' = [disabling EXCEPT ![s] = [step |-> "await", bank |-> Active(s),
                                              gen |-> meta[s][Active(s)].gen]]
    /\ staged' = [staged EXCEPT ![s] = {}]
    /\ UNCHANGED <<boot, meta, manifest, pc, at, node, unpinned, overlapped>>

\* write_disabled_record: the sentinel, one generation on, in the serving bank.
DisableRecord(s) ==
    /\ node = "serving"
    /\ disabling[s].step = "await"
    /\ manifest' = [manifest EXCEPT ![s][disabling[s].bank] = disabling[s].gen + 1]
    /\ unpinned' = [unpinned EXCEPT ![s] = @ \union {disabling[s].bank}]
    /\ disabling' = [disabling EXCEPT ![s].step = "sealed"]
    /\ UNCHANGED <<boot, meta, staged, pc, at, node, overlapped>>

\* One of its two files only, by an error or, with Reset next, a loss of power:
\* a pair that does not verify.
DisableTorn(s) ==
    /\ node = "serving"
    /\ disabling[s].step = "await"
    /\ manifest' = [manifest EXCEPT ![s][disabling[s].bank] = 0]
    /\ unpinned' = [unpinned EXCEPT ![s] = @ \union {disabling[s].bank}]
    /\ disabling' = [disabling EXCEPT ![s] = NoDisable]
    /\ UNCHANGED <<boot, meta, staged, pc, at, node, overlapped>>

\* NvFwMeta raised to the sentinel's generation, under the NV lock.
\* finalize_flash then completes the session, whichever it is by now.
DisableMeta(s) ==
    /\ Free
    /\ disabling[s].step = "sealed"
    /\ meta' = [meta EXCEPT ![s][disabling[s].bank].gen = disabling[s].gen + 1]
    /\ unpinned' = [unpinned EXCEPT ![s] = @ \ {disabling[s].bank}]
    /\ disabling' = [disabling EXCEPT ![s] = NoDisable]
    /\ staged' \in {staged, [staged EXCEPT ![s] = {}]}
    /\ UNCHANGED <<boot, manifest, pc, at, node, overlapped>>

\* The deactivation failed, or a write that left its medium as it was.
DisableFails(s) ==
    /\ disabling[s].step # "none"
    /\ disabling' = [disabling EXCEPT ![s] = NoDisable]
    /\ UNCHANGED <<boot, meta, manifest, staged, pc, at, node, unpinned, overlapped>>

----------------------------------------------------------------------------
\* A reset or a loss of power, at any point.
Reset ==
    /\ node' = "reset"
    /\ pc' = "idle"
    /\ staged' = [s \in Sets |-> {}]
    /\ disabling' = [s \in Sets |-> NoDisable]
    /\ UNCHANGED <<boot, meta, manifest, at, unpinned, overlapped>>

\* Mutant of Counted: one boot more than the limit.
CountedLate(b) ==
    IF b.committed THEN b
    ELSE IF b.count + 1 > MaxTrialBoots + 1 THEN RolledBack(b)
    ELSE [b EXCEPT !.count = @ + 1]

\* Mutant of Counted: the count is reported and not kept.
CountedNotKept(b) ==
    IF b.committed THEN b
    ELSE IF b.count + 1 > MaxTrialBoots THEN RolledBack(b)
    ELSE b

\* process_boot_nv of one bank set.
Counted(b) ==
    IF b.committed THEN b
    ELSE IF b.count + 1 > MaxTrialBoots THEN RolledBack(b)
    ELSE [b EXCEPT !.count = @ + 1]

\* One write for all bank sets; a failed one ends vm-boot and nothing boots.
ProcessBoot ==
    /\ node = "reset"
    /\ boot' = [s \in Sets |-> Counted(boot[s])]
    /\ node' = "boot"
    /\ UNCHANGED <<meta, manifest, staged, pc, at, disableVars>>

\* handle_hash_failure of a trial; a committed bank is fatal and left alone.
HashFailure(s) ==
    /\ node = "boot"
    /\ ~boot[s].committed
    /\ boot' = [boot EXCEPT ![s] = RolledBack(@)]
    /\ UNCHANGED <<meta, manifest, staged, pc, at, node, disableVars>>

Launch ==
    /\ node = "boot"
    /\ node' = "serving"
    /\ UNCHANGED <<boot, meta, manifest, staged, pc, at, disableVars>>

----------------------------------------------------------------------------
\* What process_boot_nv makes of a fresh NV store: every set committed to A.
Init ==
    /\ boot = [s \in Sets |-> [active |-> "A", committed |-> TRUE, count |-> 0]]
    /\ meta = [s \in Sets |-> [b \in Banks |-> NoMeta]]
    /\ manifest = [s \in Sets |-> [b \in Banks |-> 0]]
    /\ staged = [s \in Sets |-> {}]
    /\ pc = "idle" /\ at \in Sets
    /\ node = "serving"
    /\ disabling = [s \in Sets |-> NoDisable]
    /\ unpinned = [s \in Sets |-> {}]
    /\ overlapped = {}

Next ==
    \/ \E s \in Sets, v \in SecVers : Seal(s, v) \/ InstallMeta(s, v)
    \/ \E s \in Sets : \/ CommitMeta(s) \/ CommitOnly(s) \/ Rollback(s) \/ UndoInstall(s)
                       \/ HashFailure(s)
                       \/ DisableAdmit(s) \/ DisableRecord(s) \/ DisableTorn(s)
                       \/ DisableMeta(s) \/ DisableFails(s)
    \/ InstallState \/ CommitState \/ WriteFails
    \/ Reset \/ ProcessBoot \/ Launch

Spec == Init /\ [][Next]_vars

\* The node keeps being reset, and its boot stage runs when it is.
FairSpec == Spec /\ WF_vars(Reset) /\ WF_vars(ProcessBoot)

----------------------------------------------------------------------------
(* Properties.                                                             *)

\* Every variable keeps its type; a trial is never booted more than
\* MAX_TRIAL_BOOTS times (process_boot_nv).
TypeOK ==
    /\ boot \in [Sets -> [active : Banks, committed : BOOLEAN, count : 0 .. MaxTrialBoots]]
    /\ meta \in [Sets -> [Banks -> [secver : Nat, floor : Nat, gen : Nat]]]
    /\ manifest \in [Sets -> [Banks -> Nat]]
    /\ staged \in [Sets -> SUBSET SecVers]
    /\ pc \in {"idle", "install_state", "commit_state"}
    /\ at \in Sets
    /\ node \in {"reset", "boot", "serving"}
    /\ disabling \in [Sets -> [step : {"none", "await", "sealed"}, bank : Banks, gen : Nat]]
    /\ unpinned \in [Sets -> SUBSET Banks]
    /\ overlapped \subseteq Sets

\* Anti-rollback: neither the floor of a set nor the security version of its
\* committed image ever goes down, by no install, commit, rollback, automatic
\* rollback, disable or loss of power between their writes (ota::install,
\* ota::commit, enact_disable_manifest).
SecurityRatchet ==
    [][\A s \in Sets : /\ CommittedMeta(s)'.floor >= CommittedMeta(s).floor
                       /\ CommittedMeta(s)'.secver >= CommittedMeta(s).secver]_vars

\* The committed generation only rises, and rises whenever the committed bank
\* changes: a bank that was replaced is never at the committed generation
\* again (install_inner's ratchet).  Not promised of a set flashed during the
\* await of its own disable, which writes the generation it read before it.
GenerationRatchet ==
    [][\A s \in Sets \ overlapped :
         /\ CommittedMeta(s)'.gen >= CommittedMeta(s).gen
         /\ CommittedBank(s)' # CommittedBank(s)
              => CommittedMeta(s)'.gen > CommittedMeta(s).gen]_vars

\* What boots passes the launch-time checks: the bank the boot state selects
\* carries a manifest of exactly its record's generation, no lower than the
\* committed one, although it was sealed at upload and the record written at
\* finalize, or both were raised by a disable.  (install_gen_for against
\* install_inner, enact_disable_manifest.  A set written in place is sealed
\* over the bank it runs and is not covered, nor is a bank whose disable was
\* cut short before NV followed, nor a set flashed during its own disable.)
LaunchVerifies ==
    \A s \in Sets \ (SingleBank \union overlapped) :
        meta[s][Active(s)].gen > 0 /\ Active(s) \notin unpinned[s] =>
            /\ manifest[s][Active(s)] = meta[s][Active(s)].gen
            /\ manifest[s][Active(s)] >= CommittedMeta(s).gen

\* Nobody has to judge a trial for it to end (auto-rollback in NV).
TrialEnds == \A s \in Sets : ~boot[s].committed ~> boot[s].committed
=============================================================================
