---------------------------- MODULE BootSelector ----------------------------
(***************************************************************************)
(* The node's boot vector: SystemBankManager                               *)
(* (crates/machine-mgr/src/system_bank_state.rs) over RecordSelectorStore  *)
(* (crates/nv-store/src/boot_record.rs).                                   *)
(*                                                                         *)
(* Durable state is the boot stage's record (two copies of the rows it     *)
(* routes) and three side files: the manager rows, the committed manager   *)
(* rows and the transaction header, tied to the record by generation.      *)
(* Every verb of the manager runs under its write lock, so verbs do not    *)
(* interleave with each other; what interleaves is the loss of power and   *)
(* the failure of a write between two durable writes of one verb.  Each    *)
(* durable write is therefore a step of its own, `op.pc` says which comes  *)
(* next, and the reads a verb does before a write belong to that step.     *)
(*                                                                         *)
(* With ManagerIds = {} the record routes every component: the reference   *)
(* FileSelectorStore.                                                      *)
(***************************************************************************)
EXTENDS Naturals, FiniteSets

CONSTANTS RecordIds,     \* components the boot stage's record routes
          ManagerIds,    \* components whose rows live in the side files
          Entry,         \* a component's row: its bank and sealed images
          Limit,         \* the host's trial boot limit
          CounterRecord, \* the record issues generations from a counter that never goes back
          Faults,        \* which writes may fail and where power may be lost
          MaxTrialBoots, \* the count saturates here (u8::MAX in the code)
          BootIds,       \* bound: boot ids 1..BootIds, reused after that many boots
          MaxSeals,      \* bound: activations attempted
          MaxFaults      \* bound: failed writes and losses of power

ASSUME IdsAssumption == RecordIds \cap ManagerIds = {}
ASSUME LimitAssumption == Limit \in Nat \ {0}
ASSUME CounterRecordAssumption == CounterRecord \in BOOLEAN
ASSUME MaxTrialBootsAssumption == MaxTrialBoots \in Nat /\ Limit <= MaxTrialBoots
ASSUME BoundsAssumption == BootIds \in Nat \ {0} /\ MaxSeals \in Nat /\ MaxFaults \in Nat

VARIABLES primary,     \* the record's primary copy: what boots
          secondary,   \* the record's committed copy: the rollback floor
          counter,     \* the last generation the record issued
          rows,        \* side file `rows`: manager rows
          committed,   \* side file `committed`: committed manager rows
          header,      \* side file `transaction`
          mgr,         \* the SystemBankManager in memory
          op,          \* the verb in progress and what it holds
          boot,        \* the node's boot id
          faults,      \* failed writes and losses of power so far: how many, of which kinds
          seals,       \* activations attempted (names each one)
          past         \* what happened, for the properties only

store == <<primary, secondary, counter, rows, committed, header>>
vars == <<primary, secondary, counter, rows, committed, header, mgr, op, boot,
          faults, seals, past>>

Ids == RecordIds \cup ManagerIds
RoutesEverything == ManagerIds = {}

\* A transaction header's contents.  Boot id 0 is the all-zero digest
\* "unknown"; `seal` names the activation it was recorded for (history).
Tx(armed, boots, counted, resolution, seal) ==
    [armed |-> armed, boots |-> boots, counted |-> counted,
     resolution |-> resolution, seal |-> seal]

NoTx == Tx(0, 0, 0, "none", 0)
Resolutions == {"none", "verdict", "limit", "boot_stage"}

Larger(m, n) == IF m < n THEN n ELSE m
Smaller(m, n) == IF m < n THEN m ELSE n

\* Component id -> entry, from the rows of the record and the manager rows.
Union(r, m) == [i \in Ids |-> IF i \in RecordIds THEN r[i] ELSE m[i]]
Restriction(v, S) == [i \in S |-> v[i]]

----------------------------------------------------------------------------
(* The adapter's reads.                                                    *)

\* newest_rows: `committed` wins a tie.
NewestRows == IF rows.gen > committed.gen THEN rows.rows ELSE committed.rows

\* Mutant of ReadPrimary: the newest rows, whatever their generation.
ReadPrimaryNewest == Union(primary.rows, NewestRows)

\* read_primary: manager rows at the primary's generation, from `rows`, then
\* from `committed`; else the newest found.
ReadPrimary ==
    Union(primary.rows,
          IF rows.gen = primary.gen THEN rows.rows
          ELSE IF committed.gen = primary.gen THEN committed.rows
          ELSE NewestRows)

\* read_secondary: `committed` at the floor's generation; `rows` count as
\* committed when the record is committed at that generation.
ReadSecondary ==
    Union(secondary.rows,
          IF committed.gen = secondary.gen THEN committed.rows
          ELSE IF primary.gen = secondary.gen /\ rows.gen = secondary.gen THEN rows.rows
          ELSE NewestRows)

\* attributed_transaction: over a record that does not route everything, a
\* header for another generation counts only with manager rows at its own.
Attributed ==
    \/ RoutesEverything
    \/ header.gen \in {primary.gen, rows.gen, committed.gen}

RecordInTrial == primary.gen # secondary.gen

\* Manager rows at a generation, from `rows` or `committed`.
HasRowsAt(g) == RoutesEverything \/ g \in {rows.gen, committed.gen}

----------------------------------------------------------------------------
(* Writes.  A failed write_blob leaves the old file, or the new one when   *)
(* the step that failed is the sync after the rename ("fsync").  The       *)
(* record's own failed writes change nothing, unless the record is files.  *)

FailedFile(old, new) == IF "fsync" \in faults'.seen THEN {old, new} ELSE {old}
FailedRecord(old, new) ==
    IF RoutesEverything THEN FailedFile(old, new) ELSE {old}

\* The failures the properties make exceptions for; they are remembered.
Telling == {"rows_in_trial", "undo", "committed", "fsync", "power_seal", "power_commit",
            "rollback", "power_rollback"}

Fault(kind) ==
    /\ kind \in Faults
    /\ faults.n < MaxFaults
    /\ \E landed \in SUBSET (Faults \cap {"fsync"}) :
          faults' = [n |-> faults.n + 1,
                     seen |-> faults.seen \cup (({kind} \cup landed) \cap Telling)]

Idle(pc) == [pc |-> pc, gen |-> 0, tx |-> NoTx, wasTrial |-> FALSE]

InTrial == mgr.current # mgr.committed

----------------------------------------------------------------------------
(* Start-up: load, then count the boot, then serve.                        *)

\* load, once the header to adopt is known.
Adopt(tx) ==
    mgr' = [current |-> ReadPrimary, gen |-> primary.gen,
            committed |-> ReadSecondary, tx |-> tx, pending |-> ReadPrimary]

\* A header above the primary of a committed vector, not resolved: the boot
\* stage restored the floor while the node was down.
BootStageActed ==
    /\ Attributed
    /\ header.gen > primary.gen
    /\ ReadPrimary = ReadSecondary
    /\ header.tx.resolution = "none"

BootStageTx == [header.tx EXCEPT !.resolution = "boot_stage", !.seal = primary.seal]

Load ==
    /\ op.pc = "down"
    /\ IF BootStageActed
       THEN /\ header' = [gen |-> primary.gen, tx |-> BootStageTx]
            /\ Adopt(BootStageTx)
       ELSE /\ Adopt(IF Attributed /\ header.gen = primary.gen THEN header.tx ELSE NoTx)
            /\ UNCHANGED header
    /\ op' = Idle("observe")
    /\ UNCHANGED <<primary, secondary, counter, rows, committed, boot, faults, seals, past>>

\* The resolution could not be written: no header is adopted.
LoadUnrecorded ==
    /\ op.pc = "down"
    /\ BootStageActed
    /\ Fault("load")
    /\ header' \in FailedFile(header, [gen |-> primary.gen, tx |-> BootStageTx])
    /\ Adopt(NoTx)
    /\ op' = Idle("observe")
    /\ UNCHANGED <<primary, secondary, counter, rows, committed, boot, seals, past>>

Armed == InTrial /\ mgr.tx.armed # 0
\* Mutants of Counted: only the arming boot is recognised; only one boot is
\* ever counted.
CountedArmingOnly == boot = mgr.tx.armed
CountedFirstOnly == boot = mgr.tx.armed \/ mgr.tx.counted # 0

Counted == boot \in {mgr.tx.armed, mgr.tx.counted}

\* Mutant of AfterCount: the limit is acted on only when it is just reached.
AfterCountExactly(boots) ==
    /\ op' = Idle(IF boots = Limit THEN "bail" ELSE "serving")
    /\ past' = IF boots = Limit THEN [past EXCEPT !.due = mgr.tx.seal, !.tried = TRUE]
                                ELSE past

\* The limit was reached: the trial is rolled back before the node serves.
AfterCount(boots) ==
    /\ op' = Idle(IF boots >= Limit THEN "bail" ELSE "serving")
    /\ past' = IF boots >= Limit THEN [past EXCEPT !.due = mgr.tx.seal, !.tried = TRUE]
                                 ELSE past

\* observe_node_boot when nothing is counted: no armed trial, the arming
\* boot, or a boot already counted.
ObserveUncounted ==
    /\ op.pc = "observe"
    /\ ~Armed \/ Counted
    /\ IF Armed THEN AfterCount(mgr.tx.boots)
                ELSE op' = Idle("serving") /\ UNCHANGED past
    /\ UNCHANGED <<store, seals, mgr, boot, faults>>

\* Mutant of CountedTx: the count does not saturate.
CountedTxWrapping == [mgr.tx EXCEPT !.boots = @ + 1, !.counted = boot]

CountedTx == [mgr.tx EXCEPT !.boots = Smaller(@ + 1, MaxTrialBoots), !.counted = boot]

ObserveCounted ==
    /\ op.pc = "observe"
    /\ Armed /\ ~Counted
    /\ header' = [gen |-> mgr.gen, tx |-> CountedTx]
    /\ mgr' = [mgr EXCEPT !.tx = CountedTx]
    /\ AfterCount(CountedTx.boots)
    /\ UNCHANGED <<primary, secondary, counter, rows, committed, seals, boot, faults>>

\* A failed count: logged, the node serves, memory is untouched.
ObserveFails ==
    /\ op.pc = "observe"
    /\ Armed /\ ~Counted
    /\ Fault("count")
    /\ header' \in FailedFile(header, [gen |-> mgr.gen, tx |-> CountedTx])
    /\ op' = Idle("serving")
    /\ past' = [past EXCEPT !.tried = TRUE]
    /\ UNCHANGED <<primary, secondary, counter, rows, committed, seals, mgr, boot>>

----------------------------------------------------------------------------
(* seal: stage one component, then activate the staged selection.          *)

\* Mutant of Issued: a generation of a trial that was rolled back is reissued.
IssuedAgain == Larger(primary.gen, secondary.gen) + 1

Issued == IF CounterRecord THEN counter + 1 ELSE Larger(primary.gen, secondary.gen) + 1

\* Mutant of Staged: staged over the floor, siblings in trial dropped.
StagedOverFloor(i, e) == [mgr.committed EXCEPT ![i] = e]

\* The provider's activate: `stage` over the pending selection (over the
\* booted one when nothing is pending), then the record's part of `seal`.
Staged(i, e) == [mgr.pending EXCEPT ![i] = e]

\* rebooted_since_arming is known and true.
RebootedSinceArming == mgr.tx.armed \notin {0, boot}

\* ensure_flash_can_start and the node gate behind it: a component in trial
\* takes no new install, and none is taken while a trial the node rebooted
\* into awaits its verdict; before that reboot a sibling joins the trial.
MayActivate(i) ==
    /\ op.pc = "serving"
    /\ seals < MaxSeals
    /\ mgr.current[i] = mgr.committed[i]
    /\ ~(InTrial /\ RebootedSinceArming)

SealRecord(i, e) ==
    /\ MayActivate(i)
    /\ mgr' = [mgr EXCEPT !.pending = Staged(i, e)]
    /\ primary' = [gen |-> Issued, rows |-> Restriction(Staged(i, e), RecordIds),
                   seal |-> seals + 1]
    /\ counter' = Issued
    /\ op' = [pc |-> "seal_rows", gen |-> Issued,
              tx |-> Tx(boot, 0, 0, "none", seals + 1), wasTrial |-> RecordInTrial]
    /\ seals' = seals + 1
    /\ past' = [past EXCEPT !.since = 0,
                            !.joined = {i} \cup (IF RecordInTrial THEN @ ELSE {})]
    /\ UNCHANGED <<secondary, rows, committed, header, boot, faults>>

\* The record refused: Err, what was staged stays pending.
SealRecordFails(i, e) ==
    /\ MayActivate(i)
    /\ Fault("activate")
    /\ mgr' = [mgr EXCEPT !.pending = Staged(i, e)]
    /\ primary' \in FailedRecord(primary,
                                 [gen |-> Issued,
                                  rows |-> Restriction(Staged(i, e), RecordIds),
                                  seal |-> seals + 1])
    /\ counter' = Larger(counter, primary'.gen)
    /\ seals' = seals + 1
    /\ past' = IF primary' = primary THEN past ELSE [past EXCEPT !.since = 0]
    /\ UNCHANGED <<secondary, rows, committed, header, op, boot>>

\* The manager rows of the selection being sealed, at the issued generation.
SealedRows == [gen |-> op.gen, rows |-> Restriction(mgr.pending, ManagerIds),
               seal |-> op.tx.seal]

SealRows ==
    /\ op.pc = "seal_rows"
    /\ rows' = SealedRows
    /\ op' = [op EXCEPT !.pc = "seal_header"]
    /\ UNCHANGED <<primary, secondary, counter, committed, header, seals, past, mgr, boot, faults>>

\* Mutant of SealRowsFails: the record is not rolled back.
SealRowsFailsNoUndo ==
    /\ op.pc = "seal_rows"
    /\ Fault(IF op.wasTrial THEN "rows_in_trial" ELSE "rows")
    /\ rows' \in FailedFile(rows, SealedRows)
    /\ op' = Idle("serving")
    /\ UNCHANGED <<primary, secondary, counter, committed, header, seals, past, mgr, boot>>

\* Err: the record is rolled back next unless a trial stood before.
SealRowsFails ==
    /\ op.pc = "seal_rows"
    /\ Fault(IF op.wasTrial THEN "rows_in_trial" ELSE "rows")
    /\ rows' \in FailedFile(rows, SealedRows)
    /\ op' = IF op.wasTrial THEN Idle("serving") ELSE [op EXCEPT !.pc = "seal_undo"]
    /\ UNCHANGED <<primary, secondary, counter, committed, header, seals, past, mgr, boot>>

SealUndo ==
    /\ op.pc = "seal_undo"
    /\ primary' = secondary
    /\ op' = Idle("serving")
    /\ UNCHANGED <<secondary, counter, rows, committed, header, seals, past, mgr, boot, faults>>

SealUndoFails ==
    /\ op.pc = "seal_undo"
    /\ Fault("undo")
    /\ primary' \in FailedRecord(primary, secondary)
    /\ op' = Idle("serving")
    /\ UNCHANGED <<secondary, counter, rows, committed, header, seals, past, mgr, boot>>

\* The header, then the manager adopts: current := pending at the generation
\* the store issued.  A lost header is logged and the seal is still Ok.
SealAdopt ==
    /\ mgr' = [mgr EXCEPT !.current = mgr.pending, !.gen = op.gen, !.tx = op.tx]
    /\ op' = Idle("serving")

SealHeader ==
    /\ op.pc = "seal_header"
    /\ header' = [gen |-> op.gen, tx |-> op.tx]
    /\ SealAdopt
    /\ UNCHANGED <<primary, secondary, counter, rows, committed, seals, past, boot, faults>>

SealHeaderFails ==
    /\ op.pc = "seal_header"
    /\ Fault("header")
    /\ header' \in FailedFile(header, [gen |-> op.gen, tx |-> op.tx])
    /\ SealAdopt
    /\ UNCHANGED <<primary, secondary, counter, rows, committed, seals, past, boot>>

----------------------------------------------------------------------------
(* commit: the record, then the `committed` rows, then memory.             *)

CommitRecord ==
    /\ op.pc = "serving"
    /\ secondary' = primary
    /\ op' = [Idle("commit_rows") EXCEPT !.gen = primary.gen]
    /\ past' = [past EXCEPT !.floor = mgr.current]
    /\ UNCHANGED <<primary, counter, rows, committed, header, mgr, boot, faults, seals>>

\* Mutant of CommitRecordFails: memory is moved before the store answers.
CommitRecordFailsAhead ==
    /\ op.pc = "serving"
    /\ Fault("commit")
    /\ mgr' = [mgr EXCEPT !.committed = mgr.current]
    /\ UNCHANGED <<store, op, boot, seals, past>>

CommitRecordFails ==
    /\ op.pc = "serving"
    /\ Fault("commit")
    /\ secondary' \in FailedRecord(secondary, primary)
    /\ past' = IF secondary' = secondary THEN past ELSE [past EXCEPT !.floor = mgr.current]
    /\ UNCHANGED <<primary, counter, rows, committed, header, mgr, op, boot, seals>>

\* Mutant of CommittedRows: the old committed rows, under the new generation.
CommittedRowsOld == [committed EXCEPT !.gen = op.gen]

\* first_rows_at([rows, committed]) at the committed generation.
CommittedRows == IF rows.gen = op.gen THEN rows
                 ELSE [committed EXCEPT !.gen = op.gen]

CommitRows ==
    /\ op.pc = "commit_rows"
    /\ HasRowsAt(op.gen)
    /\ committed' = CommittedRows
    /\ mgr' = [mgr EXCEPT !.committed = mgr.current]
    /\ op' = Idle("serving")
    /\ UNCHANGED <<primary, secondary, counter, rows, header, seals, past, boot, faults>>

\* Err after the record committed: no manager rows at its generation.
CommitNoRows ==
    /\ op.pc = "commit_rows"
    /\ ~HasRowsAt(op.gen)
    /\ op' = Idle("serving")
    /\ UNCHANGED <<store, seals, past, mgr, boot, faults>>

CommitRowsFails ==
    /\ op.pc = "commit_rows"
    /\ HasRowsAt(op.gen)
    /\ Fault("committed")
    /\ committed' \in FailedFile(committed, CommittedRows)
    /\ op' = Idle("serving")
    /\ UNCHANGED <<primary, secondary, counter, rows, header, seals, past, mgr, boot>>

----------------------------------------------------------------------------
(* rollback: the header at the floor's generation, the record, the rows.   *)
(* `reason` is the verdict's or the trial boot limit's.                    *)

Reason == IF op.pc = "bail" THEN "limit" ELSE "verdict"
RollbackTx == [mgr.tx EXCEPT !.resolution = Reason, !.seal = secondary.seal]
CanRollback == op.pc \in {"serving", "bail"} /\ InTrial

\* Not in trial: only the staging is dropped.
RollbackNothing ==
    /\ op.pc = "serving"
    /\ ~InTrial
    /\ mgr' = [mgr EXCEPT !.pending = mgr.current]
    /\ UNCHANGED <<store, op, seals, past, boot, faults>>

\* NoTrial, or no manager rows at the floor's generation: Err, no write.
RollbackRefused ==
    /\ CanRollback
    /\ ~RecordInTrial \/ ~HasRowsAt(secondary.gen)
    /\ op' = Idle("serving")
    /\ UNCHANGED <<store, seals, past, mgr, boot, faults>>

\* Mutant of FloorHeader: recorded for the trial's generation.
FloorHeaderAtTrial == [gen |-> primary.gen, tx |-> RollbackTx]

FloorHeader == [gen |-> secondary.gen, tx |-> RollbackTx]

RollbackHeader ==
    /\ CanRollback
    /\ RecordInTrial /\ HasRowsAt(secondary.gen)
    /\ header' = FloorHeader
    /\ op' = [Idle("rollback_record") EXCEPT !.gen = secondary.gen, !.tx = RollbackTx]
    /\ UNCHANGED <<primary, secondary, counter, rows, committed, seals, past, mgr, boot, faults>>

RollbackHeaderFails ==
    /\ CanRollback
    /\ RecordInTrial /\ HasRowsAt(secondary.gen)
    /\ Fault("rollback_header")
    /\ header' \in FailedFile(header, FloorHeader)
    /\ op' = Idle("serving")
    /\ UNCHANGED <<primary, secondary, counter, rows, committed, seals, past, mgr, boot>>

RollbackRecord ==
    /\ op.pc = "rollback_record"
    /\ primary' = secondary
    /\ op' = [op EXCEPT !.pc = "rollback_rows"]
    /\ UNCHANGED <<secondary, counter, rows, committed, header, seals, past, mgr, boot, faults>>

RollbackRecordFails ==
    /\ op.pc = "rollback_record"
    /\ Fault("rollback")
    /\ primary' \in FailedRecord(primary, secondary)
    /\ op' = Idle("serving")
    /\ UNCHANGED <<secondary, counter, rows, committed, header, seals, past, mgr, boot>>

\* Mutant of FloorRows: the trial's rows, under the floor's generation.
FloorRowsOfTrial == [rows EXCEPT !.gen = op.gen]

\* first_rows_at([committed, rows]) at the floor's generation.
FloorRows == IF committed.gen = op.gen THEN committed
             ELSE IF rows.gen = op.gen THEN rows
             ELSE [rows EXCEPT !.gen = op.gen]

\* Mutant of RollbackAdopt: the staging survives the rollback.
RollbackAdoptStaged ==
    /\ mgr' = [mgr EXCEPT !.current = mgr.committed, !.gen = op.gen, !.tx = op.tx]
    /\ op' = Idle("serving")

RollbackAdopt ==
    /\ mgr' = [mgr EXCEPT !.current = mgr.committed, !.gen = op.gen, !.tx = op.tx,
                          !.pending = mgr.committed]
    /\ op' = Idle("serving")

RollbackRows ==
    /\ op.pc = "rollback_rows"
    /\ rows' = FloorRows
    /\ RollbackAdopt
    /\ UNCHANGED <<primary, secondary, counter, committed, header, seals, past, boot, faults>>

\* Logged: the reads follow the committed rows, the rollback is still Ok.
RollbackRowsFails ==
    /\ op.pc = "rollback_rows"
    /\ Fault("rollback_rows")
    /\ rows' \in FailedFile(rows, FloorRows)
    /\ RollbackAdopt
    /\ UNCHANGED <<primary, secondary, counter, committed, header, seals, past, boot>>

----------------------------------------------------------------------------
(* Losses of power, reboots and the boot stage.                            *)

\* Where power is lost, as a kind of fault.
PowerAt == CASE op.pc \in {"seal_rows", "seal_undo", "seal_header"} -> "power_seal"
             [] op.pc = "commit_rows" -> "power_commit"
             [] op.pc \in {"rollback_record", "rollback_rows"} -> "power_rollback"
             [] OTHER -> "power_idle"

NextBoot == IF boot = BootIds THEN 1 ELSE boot + 1
NoMgr == [current |-> <<>>, gen |-> 0, committed |-> <<>>, tx |-> NoTx, pending |-> <<>>]

\* Everything in memory is gone; the process starts again in boot b.
GoDown(b) ==
    /\ mgr' = NoMgr
    /\ op' = Idle("down")
    /\ boot' = b
    /\ past' = [past EXCEPT !.tried = FALSE,
                            !.since = IF b = boot THEN @ ELSE Smaller(@ + 1, MaxTrialBoots)]

\* The process is killed, or the node loses power, between two writes.
Stop ==
    /\ op.pc # "down"
    /\ Fault(PowerAt)
    /\ \E b \in {boot, NextBoot} : GoDown(b)
    /\ UNCHANGED <<store, seals>>

\* An ordinary reset of the node, while no verb is running.
Reset ==
    /\ op.pc = "serving"
    /\ GoDown(NextBoot)
    /\ UNCHANGED <<store, seals, faults>>

\* The node failed to start: the boot stage's one act.
BootStageRollback ==
    /\ op.pc = "down"
    /\ "boot_stage" \in Faults
    /\ RecordInTrial
    /\ primary' = secondary
    /\ past' = [past EXCEPT !.ended = @ \cup (secondary.seal + 1 .. primary.seal)]
    /\ UNCHANGED <<secondary, counter, rows, committed, header, mgr, op, boot, faults, seals>>

----------------------------------------------------------------------------
\* A seeded node: both copies and both side files at generation 1, no trial.
Init ==
    \E e \in Entry :
      LET v == [i \in Ids |-> e]
          Copy(S) == [gen |-> 1, rows |-> Restriction(v, S), seal |-> 0]
      IN /\ primary = Copy(RecordIds)
         /\ secondary = Copy(RecordIds)
         /\ rows = Copy(ManagerIds)
         /\ committed = Copy(ManagerIds)
         /\ header = [gen |-> 1, tx |-> NoTx]
         /\ counter = 1
         /\ mgr = [current |-> v, gen |-> 1, committed |-> v, tx |-> NoTx,
                   pending |-> v]
         /\ past = [floor |-> v, since |-> 0, due |-> 0, tried |-> FALSE,
                    ended |-> {}, joined |-> {}]
         /\ op = Idle("serving")
         /\ boot = 1
         /\ faults = [n |-> 0, seen |-> {}]
         /\ seals = 0

Start == Load \/ LoadUnrecorded \/ ObserveUncounted \/ ObserveCounted \/ ObserveFails

Seal == \/ \E i \in Ids, e \in Entry : SealRecord(i, e) \/ SealRecordFails(i, e)
        \/ SealRows \/ SealRowsFails \/ SealUndo \/ SealUndoFails
        \/ SealHeader \/ SealHeaderFails

Commit == CommitRecord \/ CommitRecordFails \/ CommitRows \/ CommitNoRows \/ CommitRowsFails

Rollback == \/ RollbackNothing \/ RollbackRefused \/ RollbackHeader \/ RollbackHeaderFails
            \/ RollbackRecord \/ RollbackRecordFails \/ RollbackRows \/ RollbackRowsFails

Next == \/ Start \/ Seal \/ Commit \/ Rollback
        \/ Stop \/ Reset \/ BootStageRollback

Spec == Init /\ [][Next]_vars

\* The next write of the verb in progress, the bail-out's rollback included.
VerbStep == \/ SealRows \/ SealUndo \/ SealHeader
            \/ CommitRows \/ CommitNoRows
            \/ op.pc = "bail" /\ (RollbackRefused \/ RollbackHeader)
            \/ RollbackRecord \/ RollbackRows

\* The start-up sequence and a verb in progress go on; and the node keeps
\* being reset (what the trial boot count is there for).
FairSpec == Spec /\ WF_vars(Start) /\ WF_vars(VerbStep) /\ SF_vars(Reset)

----------------------------------------------------------------------------
Row(S) == [gen : Nat, rows : [S -> Entry], seal : 0 .. MaxSeals]
TxType == [armed : 0 .. BootIds, boots : 0 .. MaxTrialBoots, counted : 0 .. BootIds,
           resolution : Resolutions, seal : 0 .. MaxSeals]
Pcs == {"down", "observe", "bail", "serving", "seal_rows", "seal_undo", "seal_header",
        "commit_rows", "rollback_record", "rollback_rows"}

\* Every variable keeps its type; the count of trial boots never passes its width.
TypeOK ==
    /\ primary \in Row(RecordIds) /\ secondary \in Row(RecordIds)
    /\ rows \in Row(ManagerIds) /\ committed \in Row(ManagerIds)
    /\ counter \in Nat
    /\ header \in [gen : Nat, tx : TxType]
    /\ \/ mgr = NoMgr /\ op.pc = "down"
       \/ mgr \in [current : [Ids -> Entry], gen : Nat, committed : [Ids -> Entry],
                   tx : TxType, pending : [Ids -> Entry]]
    /\ op \in [pc : Pcs, gen : Nat, tx : TxType, wasTrial : BOOLEAN]
    /\ boot \in 1 .. BootIds
    /\ faults \in [n : 0 .. MaxFaults, seen : SUBSET Telling]
    /\ seals \in 0 .. MaxSeals
    /\ past \in [floor : [Ids -> Entry], since : 0 .. MaxTrialBoots, due : 0 .. MaxSeals,
                 tried : BOOLEAN, ended : SUBSET (1 .. MaxSeals), joined : SUBSET Ids]

(***************************************************************************)
(* What load concludes from a header above the primary is sound: whatever  *)
(* write failed or lost power, a header recorded for a generation above    *)
(* the primary's belongs to a trial the boot stage ended.  (The write      *)
(* order of activate and rollback in RecordSelectorStore.)                 *)
(***************************************************************************)
HeaderAboveMeansBootStage ==
    header.gen > primary.gen => header.tx.seal \in past.ended

Saw(kinds) == faults.seen \cap kinds # {}

\* A verb that answered Err left storage as memory has it.  Not so when the
\* rows write of a seal fails with a trial standing, or when undoing the seal
\* fails too (the record stays changed), when the `committed` write fails (the
\* record is committed), or when a failed write has landed.
Contained == ~Saw({"rows_in_trial", "undo", "committed", "fsync"})

\* The manager rows of the floor survive.  Not so when power is lost in a seal
\* (a commit then finds no rows at its generation) or in a commit (the next
\* seal replaces the rows that were to be committed).
RowsKept == Contained /\ (RoutesEverything \/ ~Saw({"power_seal", "power_commit"}))

(***************************************************************************)
(* The rollback floor is exactly the vector the last commit verdict was    *)
(* given for, manager rows included, in every state a reload could happen  *)
(* in.  (read_secondary over what commit, activate and rollback write.)    *)
(***************************************************************************)
FloorIntact == RowsKept => ReadSecondary = past.floor

(***************************************************************************)
(* A node out of trial - committed, rolled back, or restored by the boot   *)
(* stage - boots the floor and no row of a trial that was given up.        *)
(* (read_primary over what rollback and the boot stage leave.)             *)
(***************************************************************************)
OutOfTrialBootsFloor == RowsKept /\ ~RecordInTrial => ReadPrimary = past.floor

(***************************************************************************)
(* A write verb that returned Err left the primary as it was: between      *)
(* verbs the stored primary is the one the manager knows.                  *)
(***************************************************************************)
ErrLeavesPrimary ==
    Contained /\ op.pc = "serving" => /\ primary.gen = mgr.gen
                                      /\ primary.rows = Restriction(mgr.current, RecordIds)

(***************************************************************************)
(* Memory never runs ahead of storage: between verbs the manager holds     *)
(* exactly the vector and the floor a restart would read, in trial and out *)
(* of it.  (seal, commit and rollback persist first and move memory only   *)
(* on success.)                                                            *)
(***************************************************************************)
MemoryMatchesStore ==
    RowsKept /\ op.pc = "serving" => /\ mgr.current = ReadPrimary
                                     /\ mgr.committed = ReadSecondary

\* A manager is loaded and no verb is between two of its writes.
Settled == op.pc \in {"observe", "bail", "serving"}

(***************************************************************************)
(* Side files are tied to the record by generation: manager rows at the    *)
(* primary's generation are the rows of the activation that made it.       *)
(***************************************************************************)
RowsOfTheirSeal ==
    CounterRecord /\ ManagerIds # {} /\ rows.gen = primary.gen
      => rows.seal = primary.seal

(***************************************************************************)
(* A header read for the primary's generation was recorded for that trial  *)
(* and no earlier one, so its count and its boot ids are this trial's.     *)
(***************************************************************************)
HeaderOfItsTrial ==
    CounterRecord /\ header.gen = primary.gen => header.tx.seal = primary.seal

(***************************************************************************)
(* A trial is what was activated: a component that boots something else    *)
(* than its floor was activated, with Ok, in the standing trial - not left *)
(* over from an activation that failed or from a trial that was given up.  *)
(* (SystemBankManager's pending selection; the manager rows of activate.)  *)
(***************************************************************************)
TrialIsActivated ==
    Settled => \A i \in Ids : ReadPrimary[i] # ReadSecondary[i] => i \in past.joined

(***************************************************************************)
(* A boot counts once: however often the process restarts within a boot,   *)
(* the count of the standing trial never exceeds the boots since it was    *)
(* armed.  (observe_node_boot.)                                            *)
(***************************************************************************)
EachBootCountsOnce ==
    /\ op.pc # "down" /\ InTrial /\ RecordInTrial
    /\ mgr.tx.armed # 0 /\ mgr.tx.seal = primary.seal
    => mgr.tx.boots <= past.since

(***************************************************************************)
(* Once a trial has reached the limit, every later start-up tries to count *)
(* or to roll back before the node serves: a failed bail-out is retried on *)
(* the next boot.  (MachineRegistry::observe_node_boot.)                   *)
(***************************************************************************)
BailOutRetried ==
    op.pc = "serving" /\ RecordInTrial /\ past.due = primary.seal => past.tried

\* That holds of every failure but those that cut the bail-out's own rollback
\* after its first write, which has replaced the header of the trial.
BailOutRetriedUnlessCut ==
    ~Saw({"rollback", "power_rollback"}) /\ Contained => BailOutRetried

(***************************************************************************)
(* The store as two whole vectors: what its reads answer changes only by   *)
(* one activation, one commit or one restore at a time, although activate, *)
(* commit and rollback each take several writes to different files.        *)
(***************************************************************************)
Vector == INSTANCE BootVector WITH boots <- ReadPrimary, floor <- ReadSecondary
VectorSpec == Vector!Spec

(***************************************************************************)
(* The node's one autonomous act happens: an armed trial on a node that    *)
(* keeps being reset is ended - by a verdict, by the boot stage, or by the *)
(* trial boot limit - whatever counts fail and whenever the process is     *)
(* killed.  (observe_node_boot of the manager and of MachineRegistry.)     *)
(***************************************************************************)
TrialSettles ==
    (op.pc = "serving" /\ Armed /\ RecordInTrial) ~> ~RecordInTrial
=============================================================================
