------------------------- MODULE BootSelectorProofs -------------------------
(***************************************************************************)
(* What the boot vector store guarantees, for any components, entries,     *)
(* faults and bounds: over a record that issues generations from a counter *)
(* or not, that routes every component or leaves some to the side files.   *)
(***************************************************************************)
EXTENDS BootSelector, TLAPS

----------------------------------------------------------------------------
(* Types.                                                                  *)

MgrType == [current : [Ids -> Entry], gen : Nat, committed : [Ids -> Entry],
            tx : TxType, pending : [Ids -> Entry]]
OpType == [pc : Pcs, gen : Nat, tx : TxType, wasTrial : BOOLEAN]
FaultsType == [n : 0 .. MaxFaults, seen : SUBSET Telling]
PastType == [floor : [Ids -> Entry], since : 0 .. MaxTrialBoots, due : 0 .. MaxSeals,
             tried : BOOLEAN, ended : SUBSET (1 .. MaxSeals), joined : SUBSET Ids]

Up == op.pc # "down"

StoreType == /\ primary \in Row(RecordIds) /\ secondary \in Row(RecordIds)
             /\ rows \in Row(ManagerIds) /\ committed \in Row(ManagerIds)
             /\ counter \in Nat
             /\ header \in [gen : Nat, tx : TxType]
MemType == \/ mgr = NoMgr /\ op.pc = "down"
           \/ mgr \in MgrType
RunType == /\ op \in OpType /\ boot \in 1 .. BootIds /\ faults \in FaultsType
           /\ seals \in 0 .. MaxSeals
           /\ past \in PastType

\* The type invariant, in its parts.
LEMMA TypeParts == /\ TypeOK <=> StoreType /\ MemType /\ RunType
                   /\ TypeOK' <=> StoreType' /\ MemType' /\ RunType'
BY DEF TypeOK, StoreType, MemType, RunType, MgrType, OpType, FaultsType, PastType

\* A manager that is up is loaded.
LEMMA MgrUp == TypeOK /\ Up => mgr \in MgrType
BY TypeParts DEF MemType, Up

\* What a verb leaves behind has its type.
LEMMA IdleType == /\ NoTx \in TxType
                  /\ \A pc \in Pcs : Idle(pc) \in OpType
<1>1. NoTx \in TxType
  BY BoundsAssumption, MaxTrialBootsAssumption DEF NoTx, Tx, TxType, Resolutions
<1> QED
  BY <1>1 DEF Idle, OpType

\* The vectors the reads answer.
LEMMA UnionType ==
    ASSUME NEW r \in [RecordIds -> Entry], NEW m \in [ManagerIds -> Entry]
    PROVE  Union(r, m) \in [Ids -> Entry]
BY DEF Union, Ids

\* The parts of a vector that record and manager keep.
LEMMA RestrictionType ==
    ASSUME NEW v \in [Ids -> Entry]
    PROVE  /\ Restriction(v, RecordIds) \in [RecordIds -> Entry]
           /\ Restriction(v, ManagerIds) \in [ManagerIds -> Entry]
BY DEF Restriction, Ids

\* What the two reads answer is a vector.
LEMMA ReadsType ==
    ASSUME StoreType
    PROVE  ReadPrimary \in [Ids -> Entry] /\ ReadSecondary \in [Ids -> Entry]
<1>1. /\ primary.rows \in [RecordIds -> Entry] /\ secondary.rows \in [RecordIds -> Entry]
      /\ rows.rows \in [ManagerIds -> Entry] /\ committed.rows \in [ManagerIds -> Entry]
  BY DEF StoreType, Row
<1> QED
  BY <1>1, UnionType DEF ReadPrimary, ReadSecondary, NewestRows

\* A vector is its part of the record and its part of the side files.
LEMMA UnionOf ==
    ASSUME NEW v \in [Ids -> Entry]
    PROVE  Union(Restriction(v, RecordIds), Restriction(v, ManagerIds)) = v
BY DEF Union, Restriction, Ids

\* The generation the record issues is a new one.
LEMMA IssuedNew ==
    ASSUME StoreType
    PROVE  /\ Issued \in Nat
           /\ CounterRecord => Issued = counter + 1
           /\ ~CounterRecord => Issued > primary.gen /\ Issued > secondary.gen
BY DEF StoreType, Row, Issued, Larger

\* A failure is counted, and remembered when a property makes an exception for it.
LEMMA FaultStep ==
    ASSUME faults \in FaultsType, NEW kind, Fault(kind)
    PROVE  /\ faults' \in FaultsType
           /\ faults.seen \subseteq faults'.seen
           /\ kind \in Telling => kind \in faults'.seen
<1>1. PICK landed \in SUBSET (Faults \cap {"fsync"}) :
          faults' = [n |-> faults.n + 1,
                     seen |-> faults.seen \cup (({kind} \cup landed) \cap Telling)]
  BY DEF Fault
<1>2. faults.n + 1 \in 0 .. MaxFaults
  BY BoundsAssumption DEF Fault, FaultsType
<1> QED
  BY <1>1, <1>2 DEF FaultsType

\* A failed write left the old file, or landed.
LEMMA FailedWrite ==
    ASSUME NEW old, NEW new, NEW x
    PROVE  /\ x \in FailedFile(old, new) => x = old \/ (x = new /\ "fsync" \in faults'.seen)
           /\ x \in FailedRecord(old, new) =>
                 x = old \/ (x = new /\ "fsync" \in faults'.seen /\ RoutesEverything)
BY DEF FailedFile, FailedRecord

\* The headers the actions write.
LEMMA TxTypes ==
    ASSUME TypeOK
    PROVE  /\ BootStageTx \in TxType
           /\ Up => CountedTx \in TxType /\ RollbackTx \in TxType
           /\ seals < MaxSeals => Tx(boot, 0, 0, "none", seals + 1) \in TxType
<1>1. StoreType /\ RunType /\ (Up => mgr \in MgrType)
  BY TypeParts, MgrUp
<1>2. BootStageTx \in TxType
  BY <1>1 DEF StoreType, BootStageTx, TxType, Row, Resolutions
<1>3. ASSUME Up PROVE CountedTx \in TxType
  <2>1. mgr.tx \in TxType /\ boot \in 0 .. BootIds
    BY <1>1, <1>3, BoundsAssumption DEF MgrType, RunType
  <2>2. Smaller(mgr.tx.boots + 1, MaxTrialBoots) \in 0 .. MaxTrialBoots
    BY <2>1, MaxTrialBootsAssumption DEF Smaller, TxType
  <2> QED
    BY <2>1, <2>2 DEF CountedTx, TxType
<1>4. ASSUME Up PROVE RollbackTx \in TxType
  BY <1>1, <1>4 DEF RollbackTx, TxType, MgrType, StoreType, Row, Resolutions, Reason
<1>5. ASSUME seals < MaxSeals PROVE Tx(boot, 0, 0, "none", seals + 1) \in TxType
  BY <1>1, <1>5, BoundsAssumption, MaxTrialBootsAssumption DEF Tx, TxType, RunType,
     Resolutions
<1> QED
  BY <1>2, <1>3, <1>4, <1>5

\* The variables a step leaves alone keep their types.
LEMMA TypeKept ==
    ASSUME TypeOK, UNCHANGED vars PROVE TypeOK'
BY DEF vars, TypeOK

\* Starting up keeps the types.
LEMMA TypeStart == ASSUME TypeOK, Start PROVE TypeOK'
<1>0. StoreType /\ MemType /\ RunType /\ (Up => mgr \in MgrType)
  BY TypeParts, MgrUp
<1>1. CASE Load
  <2>1. StoreType'
    BY <1>0, <1>1, TxTypes DEF Load, StoreType, Row
  <2>2. mgr' \in MgrType
    BY <1>0, <1>1, TxTypes, ReadsType, IdleType DEF Load, Adopt, MgrType, StoreType, Row
  <2>3. RunType'
    BY <1>0, <1>1, IdleType DEF Load, RunType, Pcs
  <2> QED
    BY <2>1, <2>2, <2>3, TypeParts DEF MemType
<1>2. CASE LoadUnrecorded
  <2>0. faults' \in FaultsType
    BY <1>0, <1>2, FaultStep DEF LoadUnrecorded, RunType
  <2>1. StoreType'
    BY <1>0, <1>2, TxTypes, FailedWrite DEF LoadUnrecorded, StoreType, Row
  <2>2. mgr' \in MgrType
    BY <1>0, <1>2, ReadsType, IdleType DEF LoadUnrecorded, Adopt, MgrType, StoreType, Row
  <2>3. RunType'
    BY <1>0, <1>2, <2>0, IdleType DEF LoadUnrecorded, RunType, Pcs
  <2> QED
    BY <2>1, <2>2, <2>3, TypeParts DEF MemType
<1>3. ASSUME op.pc = "observe", NEW n \in Nat, AfterCount(n)
      PROVE  op' \in OpType /\ past' \in PastType
  <2>1. mgr.tx.seal \in 0 .. MaxSeals
    BY <1>0, <1>3 DEF Up, MgrType, TxType
  <2> QED
    BY <1>0, <1>3, <2>1, IdleType DEF AfterCount, RunType, PastType, Pcs
<1>4. CASE ObserveUncounted
  <2>1. mgr \in MgrType /\ mgr.tx.boots \in Nat /\ mgr' = mgr
    BY <1>0, <1>4 DEF ObserveUncounted, Up, MgrType, TxType
  <2>2. op' \in OpType /\ past' \in PastType
    BY <1>0, <1>3, <1>4, <2>1, IdleType DEF ObserveUncounted, RunType, Pcs
  <2>3. StoreType' /\ RunType'
    BY <1>0, <1>4, <2>2 DEF ObserveUncounted, StoreType, RunType, store
  <2> QED
    BY <2>1, <2>3, TypeParts DEF MemType
<1>5. CASE ObserveCounted
  <2>0. Up /\ mgr \in MgrType /\ CountedTx \in TxType
    BY <1>0, <1>5, TxTypes DEF ObserveCounted, Up
  <2>1. CountedTx.boots \in Nat
    BY <2>0, MaxTrialBootsAssumption DEF TxType
  <2>2. op' \in OpType /\ past' \in PastType
    BY <1>3, <1>5, <2>1 DEF ObserveCounted
  <2>3. StoreType' /\ mgr' \in MgrType
    BY <1>0, <1>5, <2>0 DEF ObserveCounted, StoreType, MgrType
  <2>4. RunType'
    BY <1>0, <1>5, <2>2 DEF ObserveCounted, RunType
  <2> QED
    BY <2>3, <2>4, TypeParts DEF MemType
<1>6. CASE ObserveFails
  <2>0. Up /\ mgr \in MgrType /\ CountedTx \in TxType
    BY <1>0, <1>6, TxTypes DEF ObserveFails, Up
  <2>1. faults' \in FaultsType
    BY <1>0, <1>6, FaultStep DEF ObserveFails, RunType
  <2>2. StoreType' /\ mgr' = mgr
    BY <1>0, <1>6, <2>0, FailedWrite DEF ObserveFails, StoreType, MgrType
  <2>3. RunType'
    BY <1>0, <1>6, <2>1, IdleType DEF ObserveFails, RunType, PastType, Pcs
  <2> QED
    BY <2>0, <2>2, <2>3, TypeParts DEF MemType
<1> QED
  BY <1>1, <1>2, <1>4, <1>5, <1>6 DEF Start

\* A seal keeps the types.
LEMMA TypeSeal == ASSUME TypeOK, Seal PROVE TypeOK'
<1>0. StoreType /\ MemType /\ RunType /\ (Up => mgr \in MgrType)
  BY TypeParts, MgrUp
<1>1. ASSUME NEW i \in Ids, NEW e \in Entry, MayActivate(i)
      PROVE  /\ mgr \in MgrType /\ [mgr EXCEPT !.pending = Staged(i, e)] \in MgrType
             /\ seals + 1 \in 0 .. MaxSeals
             /\ [gen |-> Issued, rows |-> Restriction(Staged(i, e), RecordIds),
                 seal |-> seals + 1] \in Row(RecordIds)
  <2>1. mgr \in MgrType /\ mgr.pending \in [Ids -> Entry]
    BY <1>0, <1>1 DEF MayActivate, Up, MgrType
  <2>2. Staged(i, e) \in [Ids -> Entry]
    BY <2>1 DEF Staged
  <2>3. seals + 1 \in 0 .. MaxSeals
    BY <1>0, <1>1, BoundsAssumption DEF MayActivate, RunType
  <2> QED
    BY <1>0, <2>1, <2>2, <2>3, IssuedNew, RestrictionType DEF MgrType, Row
<1>2. ASSUME NEW i \in Ids, NEW e \in Entry, SealRecord(i, e)
      PROVE TypeOK'
  <2>0. MayActivate(i)
    BY <1>2 DEF SealRecord
  <2>1. StoreType' /\ mgr' \in MgrType
    BY <1>0, <1>1, <1>2, <2>0, IssuedNew DEF SealRecord, StoreType
  <2>2. op' \in OpType
    BY <1>0, <1>2, <2>0, IssuedNew, TxTypes DEF SealRecord, OpType, Pcs, RecordInTrial,
       MayActivate
  <2>3. past' \in PastType
    <3>1. {i} \cup (IF RecordInTrial THEN past.joined ELSE {}) \in SUBSET Ids
      BY <1>0 DEF RunType, PastType
    <3>2. past' = [past EXCEPT !.since = 0,
                               !.joined = {i} \cup (IF RecordInTrial THEN past.joined ELSE {})]
      BY <1>0, <1>2 DEF SealRecord
    <3>3. 0 \in 0 .. MaxTrialBoots
      BY MaxTrialBootsAssumption
    <3>4. ASSUME NEW J \in SUBSET Ids PROVE [past EXCEPT !.since = 0, !.joined = J] \in PastType
      BY <1>0, <3>3 DEF RunType, PastType
    <3> QED
      BY <3>1, <3>2, <3>4
  <2>4. RunType'
    BY <1>0, <1>1, <1>2, <2>0, <2>2, <2>3 DEF SealRecord, RunType
  <2> QED
    BY <2>1, <2>4, TypeParts DEF MemType
<1>3. ASSUME NEW i \in Ids, NEW e \in Entry, SealRecordFails(i, e)
      PROVE TypeOK'
  <2>0. MayActivate(i)
    BY <1>3 DEF SealRecordFails
  <2>1. faults' \in FaultsType
    BY <1>0, <1>3, FaultStep DEF SealRecordFails, RunType
  <2>2. primary' \in Row(RecordIds)
    BY <1>0, <1>1, <1>3, <2>0, FailedWrite DEF SealRecordFails, StoreType
  <2>3. counter' \in Nat
    BY <1>0, <1>3, <2>2 DEF SealRecordFails, Larger, Row, StoreType
  <2>4. StoreType' /\ mgr' \in MgrType
    BY <1>0, <1>1, <1>3, <2>0, <2>2, <2>3 DEF SealRecordFails, StoreType
  <2>5. past' \in PastType
    BY <1>0, <1>3, MaxTrialBootsAssumption DEF SealRecordFails, RunType, PastType
  <2>6. RunType'
    BY <1>0, <1>1, <1>3, <2>0, <2>1, <2>5 DEF SealRecordFails, RunType
  <2> QED
    BY <2>4, <2>6, TypeParts DEF MemType
<1>4. ASSUME Up
      PROVE  SealedRows \in Row(ManagerIds) /\ op.tx \in TxType /\ op.gen \in Nat
             /\ op.wasTrial \in BOOLEAN
  <2>1. op.tx \in TxType /\ op.gen \in Nat /\ mgr \in MgrType /\ op.wasTrial \in BOOLEAN
    BY <1>0, <1>4 DEF RunType, OpType
  <2> QED
    BY <2>1, RestrictionType DEF SealedRows, Row, MgrType, TxType
<1>5. CASE SealRows
  <2>1. StoreType' /\ RunType' /\ mgr \in MgrType /\ mgr' = mgr
    BY <1>0, <1>4, <1>5 DEF SealRows, StoreType, RunType, OpType, Pcs, Up
  <2> QED
    BY <2>1, TypeParts DEF MemType
<1>6. CASE SealRowsFails
  <2>1. faults' \in FaultsType
    BY <1>0, <1>6, FaultStep DEF SealRowsFails, RunType
  <2>2. op' \in OpType
    BY <1>0, <1>6, IdleType DEF SealRowsFails, RunType, OpType, Pcs
  <2>3. StoreType' /\ RunType' /\ mgr \in MgrType /\ mgr' = mgr
    BY <1>0, <1>4, <1>6, <2>1, <2>2, FailedWrite DEF SealRowsFails, StoreType, RunType, Up
  <2> QED
    BY <2>3, TypeParts DEF MemType
<1>7. CASE SealUndo \/ SealUndoFails
  <2>1. faults' \in FaultsType /\ primary' \in {primary, secondary}
    BY <1>0, <1>7, FaultStep, FailedWrite DEF SealUndo, SealUndoFails, RunType
  <2>2. StoreType' /\ RunType' /\ mgr \in MgrType /\ mgr' = mgr
    BY <1>0, <1>7, <2>1, IdleType DEF SealUndo, SealUndoFails, StoreType, RunType, Up, Pcs
  <2> QED
    BY <2>2, TypeParts DEF MemType
<1>8. CASE SealHeader \/ SealHeaderFails
  <2>0. Up
    BY <1>8 DEF SealHeader, SealHeaderFails, Up
  <2>1. faults' \in FaultsType /\ header' \in {header, [gen |-> op.gen, tx |-> op.tx]}
    BY <1>0, <1>8, FaultStep, FailedWrite DEF SealHeader, SealHeaderFails, RunType
  <2>2. StoreType'
    BY <1>0, <1>4, <1>8, <2>0, <2>1 DEF SealHeader, SealHeaderFails, StoreType
  <2>3. mgr' \in MgrType
    BY <1>0, <1>4, <1>8, <2>0 DEF SealHeader, SealHeaderFails, SealAdopt, MgrType
  <2>4. RunType'
    BY <1>0, <1>8, <2>1, IdleType DEF SealHeader, SealHeaderFails, SealAdopt, RunType, Pcs
  <2> QED
    BY <2>2, <2>3, <2>4, TypeParts DEF MemType
<1> QED
  BY <1>2, <1>3, <1>5, <1>6, <1>7, <1>8 DEF Seal

\* A commit keeps the types.
LEMMA TypeCommit == ASSUME TypeOK, Commit PROVE TypeOK'
<1>0. StoreType /\ RunType /\ mgr \in MgrType
  BY TypeParts, MgrUp DEF Commit, CommitRecord, CommitRecordFails, CommitRows, CommitNoRows,
     CommitRowsFails, Up
<1>1. faults' \in FaultsType
  BY <1>0, FaultStep DEF Commit, CommitRecord, CommitRecordFails, CommitRows, CommitNoRows,
     CommitRowsFails, RunType
<1>2. CASE CommitRecord
  <2>1. StoreType' /\ mgr' = mgr
    BY <1>0, <1>2 DEF CommitRecord, StoreType
  <2>2. op' \in OpType
    BY <1>0, <1>2, IdleType DEF CommitRecord, OpType, Pcs, StoreType, Row
  <2>3. RunType'
    BY <1>0, <1>2, <2>2 DEF CommitRecord, RunType, PastType, MgrType
  <2> QED
    BY <1>0, <2>1, <2>3, TypeParts DEF MemType
<1>3. CASE CommitRecordFails
  <2>1. StoreType' /\ mgr' = mgr
    BY <1>0, <1>3, FailedWrite DEF CommitRecordFails, StoreType
  <2>2. RunType'
    BY <1>0, <1>1, <1>3 DEF CommitRecordFails, RunType, PastType, MgrType
  <2> QED
    BY <1>0, <2>1, <2>2, TypeParts DEF MemType
<1>4. CommittedRows \in Row(ManagerIds)
  BY <1>0 DEF CommittedRows, StoreType, RunType, OpType, Row
<1>5. CASE CommitRows \/ CommitRowsFails
  <2>1. StoreType'
    BY <1>0, <1>4, <1>5, FailedWrite DEF CommitRows, CommitRowsFails, StoreType
  <2>2. mgr' \in MgrType
    BY <1>0, <1>5 DEF CommitRows, CommitRowsFails, MgrType
  <2>3. RunType'
    BY <1>0, <1>1, <1>5, IdleType DEF CommitRows, CommitRowsFails, RunType, Pcs
  <2> QED
    BY <2>1, <2>2, <2>3, TypeParts DEF MemType
<1>6. CASE CommitNoRows
  <2>1. StoreType' /\ RunType' /\ mgr' = mgr
    BY <1>0, <1>6, IdleType DEF CommitNoRows, StoreType, store, RunType, Pcs
  <2> QED
    BY <1>0, <2>1, TypeParts DEF MemType
<1> QED
  BY <1>2, <1>3, <1>5, <1>6 DEF Commit

\* A rollback keeps the types.
LEMMA TypeRollback == ASSUME TypeOK, Rollback PROVE TypeOK'
<1>0. StoreType /\ RunType /\ mgr \in MgrType /\ RollbackTx \in TxType
  BY TypeParts, MgrUp, TxTypes DEF Rollback, RollbackNothing, RollbackRefused,
     RollbackHeader, RollbackHeaderFails, RollbackRecord, RollbackRecordFails, RollbackRows,
     RollbackRowsFails, CanRollback, Up
<1>1. faults' \in FaultsType
  BY <1>0, FaultStep DEF Rollback, RollbackNothing, RollbackRefused, RollbackHeader,
     RollbackHeaderFails, RollbackRecord, RollbackRecordFails, RollbackRows,
     RollbackRowsFails, RunType
<1>2. CASE RollbackNothing
  <2>1. StoreType' /\ RunType' /\ mgr' \in MgrType
    BY <1>0, <1>2 DEF RollbackNothing, StoreType, store, RunType, MgrType
  <2> QED
    BY <2>1, TypeParts DEF MemType
<1>3. CASE RollbackRefused
  <2>1. StoreType' /\ RunType' /\ mgr' = mgr
    BY <1>0, <1>3, IdleType DEF RollbackRefused, StoreType, store, RunType, Pcs
  <2> QED
    BY <1>0, <2>1, TypeParts DEF MemType
<1>4. CASE RollbackHeader \/ RollbackHeaderFails
  <2>1. FloorHeader \in [gen : Nat, tx : TxType] /\ secondary.gen \in Nat
    BY <1>0 DEF FloorHeader, StoreType, Row
  <2>2. StoreType' /\ mgr' = mgr
    BY <1>0, <1>4, <2>1, FailedWrite DEF RollbackHeader, RollbackHeaderFails, StoreType
  <2>3. op' \in OpType
    BY <1>0, <1>4, <2>1, IdleType DEF RollbackHeader, RollbackHeaderFails, OpType, Pcs
  <2>4. RunType'
    BY <1>0, <1>1, <1>4, <2>3 DEF RollbackHeader, RollbackHeaderFails, RunType
  <2> QED
    BY <1>0, <2>2, <2>4, TypeParts DEF MemType
<1>5. CASE RollbackRecord \/ RollbackRecordFails
  <2>1. StoreType' /\ mgr' = mgr
    BY <1>0, <1>5, FailedWrite DEF RollbackRecord, RollbackRecordFails, StoreType
  <2>2. op' \in OpType
    BY <1>0, <1>5, IdleType DEF RollbackRecord, RollbackRecordFails, OpType, Pcs, RunType
  <2>3. RunType'
    BY <1>0, <1>1, <1>5, <2>2 DEF RollbackRecord, RollbackRecordFails, RunType
  <2> QED
    BY <1>0, <2>1, <2>3, TypeParts DEF MemType
<1>6. CASE RollbackRows \/ RollbackRowsFails
  <2>1. FloorRows \in Row(ManagerIds) /\ op.gen \in Nat /\ op.tx \in TxType
    BY <1>0 DEF FloorRows, StoreType, RunType, OpType, Row
  <2>2. StoreType'
    BY <1>0, <1>6, <2>1, FailedWrite DEF RollbackRows, RollbackRowsFails, StoreType
  <2>3. mgr' \in MgrType
    BY <1>0, <1>6, <2>1 DEF RollbackRows, RollbackRowsFails, RollbackAdopt, MgrType
  <2>4. RunType'
    BY <1>0, <1>1, <1>6, IdleType DEF RollbackRows, RollbackRowsFails, RollbackAdopt,
       RunType, Pcs
  <2> QED
    BY <2>2, <2>3, <2>4, TypeParts DEF MemType
<1> QED
  BY <1>2, <1>3, <1>4, <1>5, <1>6 DEF Rollback

\* A loss of power, a reset and the boot stage keep the types.
LEMMA TypeDown == ASSUME TypeOK, Stop \/ Reset \/ BootStageRollback PROVE TypeOK'
<1>0. StoreType /\ RunType /\ MemType
  BY TypeParts
<1>1. ASSUME NEW b \in {boot, NextBoot}, GoDown(b)
      PROVE  mgr' = NoMgr /\ op'.pc = "down" /\ op' \in OpType /\ boot' \in 1 .. BootIds
             /\ past' \in PastType
  <2>1. boot' \in 1 .. BootIds
    BY <1>0, <1>1, BoundsAssumption DEF GoDown, NextBoot, RunType
  <2>2. Smaller(past.since + 1, MaxTrialBoots) \in 0 .. MaxTrialBoots
    BY <1>0, MaxTrialBootsAssumption DEF Smaller, RunType, PastType
  <2>3. past' \in PastType
    BY <1>0, <1>1, <2>2 DEF GoDown, RunType, PastType
  <2> QED
    BY <1>1, <2>1, <2>3, IdleType DEF GoDown, Pcs, Idle
<1>2. CASE Stop \/ Reset
  <2>1. faults' \in FaultsType
    BY <1>0, <1>2, FaultStep DEF Stop, Reset, RunType
  <2>2. \E b \in {boot, NextBoot} : GoDown(b)
    BY <1>2 DEF Stop, Reset
  <2>3. StoreType' /\ MemType' /\ RunType'
    BY <1>0, <1>1, <1>2, <2>1, <2>2 DEF Stop, Reset, StoreType, store, MemType, RunType
  <2> QED
    BY <2>3, TypeParts
<1>3. CASE BootStageRollback
  <2>1. secondary.seal + 1 .. primary.seal \subseteq 1 .. MaxSeals
    BY <1>0, BoundsAssumption DEF StoreType, Row
  <2>2. past' \in PastType
    BY <1>0, <1>3, <2>1 DEF BootStageRollback, RunType, PastType
  <2>3. StoreType' /\ MemType' /\ RunType'
    BY <1>0, <1>3, <2>2 DEF BootStageRollback, StoreType, MemType, RunType
  <2> QED
    BY <2>3, TypeParts
<1> QED
  BY <1>2, <1>3

\* Every step keeps the types.
LEMMA TypeStep == TypeOK /\ [Next]_vars => TypeOK'
BY TypeKept, TypeStart, TypeSeal, TypeCommit, TypeRollback, TypeDown DEF Next

\* A seeded node has the types.
LEMMA TypeInit == Init => TypeOK
<1> SUFFICES ASSUME Init PROVE TypeOK
  OBVIOUS
<1>1. PICK e \in Entry :
        LET v == [i \in Ids |-> e] IN
        /\ primary = [gen |-> 1, rows |-> Restriction(v, RecordIds), seal |-> 0]
        /\ secondary = primary
        /\ rows = [gen |-> 1, rows |-> Restriction(v, ManagerIds), seal |-> 0]
        /\ committed = rows
        /\ header = [gen |-> 1, tx |-> NoTx]
        /\ counter = 1
        /\ mgr = [current |-> v, gen |-> 1, committed |-> v, tx |-> NoTx, pending |-> v]
        /\ past = [floor |-> v, since |-> 0, due |-> 0, tried |-> FALSE,
                   ended |-> {}, joined |-> {}]
  BY DEF Init
<1>2. [i \in Ids |-> e] \in [Ids -> Entry]
  OBVIOUS
<1>3. StoreType
  BY <1>1, <1>2, RestrictionType, IdleType, BoundsAssumption DEF StoreType, Row
<1>4. mgr \in MgrType
  BY <1>1, <1>2, IdleType DEF MgrType
<1>5. past \in PastType
  BY <1>1, <1>2, BoundsAssumption, MaxTrialBootsAssumption DEF PastType
<1>6. RunType
  BY <1>5, IdleType, BoundsAssumption DEF Init, RunType, Pcs, FaultsType
<1> QED
  BY <1>3, <1>4, <1>6, TypeParts DEF MemType

\* Every variable keeps its type; the count of trial boots never passes its
\* width.  (observe_node_boot's saturating count.)
THEOREM TypeCorrect == Spec => []TypeOK
BY TypeInit, TypeStep, PTL DEF Spec

----------------------------------------------------------------------------
(* The order of the writes: what the generations say of the record and of  *)
(* the header.                                                             *)

\* The record is committed or in trial, and a trial is younger than its floor.
RecordOrder ==
    /\ primary = secondary \/ (primary.gen > secondary.gen /\ primary.seal > secondary.seal)
    /\ primary.seal <= seals
    /\ CounterRecord => primary.gen <= counter

Sealing == op.pc \in {"seal_rows", "seal_undo", "seal_header"}
RollingBack == op.pc \in {"rollback_record", "rollback_rows"}

\* What a verb between two writes knows of the record.
VerbKnows ==
    /\ Sealing => /\ op.gen = primary.gen /\ op.tx.seal = primary.seal
                  /\ primary.gen > secondary.gen
    /\ op.pc = "seal_undo" => ~op.wasTrial
    /\ op.pc = "commit_rows" => op.gen = primary.gen /\ secondary = primary
    /\ RollingBack => op.gen = secondary.gen /\ op.tx.seal = secondary.seal
                      /\ HasRowsAt(secondary.gen)
    /\ op.pc = "rollback_rows" => primary = secondary
    /\ op.pc = "observe" => mgr.gen = primary.gen

\* A header above the floor is of the standing trial or of one the boot stage
\* ended; the seal of a first activation, and a rollback, find none of the
\* standing trial.
Ended == header.tx.seal \in past.ended
HeaderPlaced ==
    /\ header.gen > secondary.gen =>
          Ended \/ header.tx.seal \in secondary.seal + 1 .. primary.seal
    /\ header.gen > primary.gen => Ended
    /\ Sealing /\ ~op.wasTrial /\ header.gen > secondary.gen => Ended
    /\ op.pc = "rollback_record" => header.gen = secondary.gen
    /\ op.pc = "observe" /\ Armed => header.gen = primary.gen /\ header.tx.seal = mgr.tx.seal

OrderInv == TypeOK /\ RecordOrder /\ VerbKnows /\ HeaderPlaced

\* The fields the invariants compare.
Fields == /\ primary.gen \in Nat /\ secondary.gen \in Nat /\ rows.gen \in Nat
          /\ committed.gen \in Nat /\ header.gen \in Nat /\ counter \in Nat
          /\ primary.seal \in Nat /\ secondary.seal \in Nat /\ header.tx.seal \in Nat
          /\ seals \in Nat
          /\ header.tx \in TxType /\ op \in OpType /\ past \in PastType
          /\ Up => mgr \in MgrType /\ mgr.tx \in TxType

\* The fields that the steps below calculate with.
LEMMA NumTypes == ASSUME TypeOK PROVE Fields /\ StoreType /\ RunType
<1>1. StoreType /\ RunType /\ (Up => mgr \in MgrType)
  BY TypeParts, MgrUp
<1> QED
  BY <1>1 DEF StoreType, RunType, Row, MgrType, Fields, TxType

\* The limit moves the count's history only.
LEMMA AfterCountPast ==
    ASSUME past \in PastType, NEW n, AfterCount(n)
    PROVE  /\ past'.ended = past.ended /\ past'.floor = past.floor
           /\ past'.since = past.since /\ past'.joined = past.joined
           /\ op'.pc \in {"bail", "serving"}
<1>1. past'.ended = past.ended /\ past'.floor = past.floor
  BY DEF AfterCount, PastType
<1>3. past'.since = past.since /\ past'.joined = past.joined
  BY DEF AfterCount, PastType
<1>2. op'.pc \in {"bail", "serving"}
  BY DEF AfterCount, Idle
<1> QED
  BY <1>1, <1>2, <1>3

\* Each write of each verb keeps the order.
LEMMA OrderStep == OrderInv /\ [Next]_vars => OrderInv'
<1> SUFFICES ASSUME OrderInv, [Next]_vars PROVE OrderInv'
  OBVIOUS
<1>0. Fields /\ StoreType /\ RunType /\ RecordOrder /\ VerbKnows /\ HeaderPlaced /\ TypeOK'
  BY NumTypes, TypeStep DEF OrderInv
<1>1. CASE Load
  <2>1. RecordOrder'
    BY <1>0, <1>1 DEF Load, RecordOrder
  <2>2. VerbKnows'
    BY <1>0, <1>1 DEF Load, Adopt, Idle, VerbKnows, Sealing, RollingBack
  <2>3. HeaderPlaced'
    <3>1. op'.pc = "observe" /\ past' = past /\ primary' = primary /\ secondary' = secondary
      BY <1>1 DEF Load, Idle
    <3>2. CASE BootStageActed
      <4>1. header' = [gen |-> primary.gen, tx |-> BootStageTx] /\ mgr'.tx = BootStageTx
        BY <1>1, <3>2 DEF Load, Adopt
      <4>2. BootStageTx.seal = primary.seal
        BY <1>0 DEF BootStageTx
      <4> QED
        BY <1>0, <3>1, <4>1, <4>2 DEF Fields, HeaderPlaced, Sealing, RecordOrder
    <3>3. CASE ~BootStageActed
      <4>1. header' = header
            /\ mgr'.tx = IF Attributed /\ header.gen = primary.gen THEN header.tx ELSE NoTx
        BY <1>1, <3>3 DEF Load, Adopt
      <4> QED
        BY <1>0, <3>1, <4>1 DEF HeaderPlaced, Ended, Sealing, Armed, NoTx, Tx
    <3> QED
      BY <3>2, <3>3
  <2> QED
    BY <1>0, <2>1, <2>2, <2>3 DEF OrderInv
<1>2. CASE LoadUnrecorded
  <2>1. RecordOrder'
    BY <1>0, <1>2 DEF LoadUnrecorded, RecordOrder
  <2>2. VerbKnows'
    BY <1>0, <1>2 DEF LoadUnrecorded, Adopt, Idle, VerbKnows, Sealing, RollingBack
  <2>3. HeaderPlaced'
    <3>1. op'.pc = "observe" /\ past' = past /\ primary' = primary /\ secondary' = secondary
      BY <1>2 DEF LoadUnrecorded, Idle
    <3>2. mgr'.tx.armed = 0
      BY <1>2 DEF LoadUnrecorded, Adopt, NoTx, Tx
    <3>3. header' \in {header, [gen |-> primary.gen, tx |-> BootStageTx]}
      BY <1>2, FailedWrite DEF LoadUnrecorded
    <3>4. BootStageTx.seal = primary.seal
      BY <1>0 DEF BootStageTx
    <3> QED
      BY <1>0, <3>1, <3>2, <3>3, <3>4 DEF Fields, HeaderPlaced, Ended, Sealing, RecordOrder,
         Armed
  <2> QED
    BY <1>0, <2>1, <2>2, <2>3 DEF OrderInv
<1>3. CASE ObserveUncounted
  <2>1. RecordOrder'
    BY <1>0, <1>3 DEF ObserveUncounted, store, RecordOrder
  <2>2. VerbKnows'
    BY <1>0, <1>3 DEF ObserveUncounted, AfterCount, Idle, VerbKnows, Sealing, RollingBack
  <2>3. HeaderPlaced'
    <3>1. op'.pc \in {"bail", "serving"} /\ past'.ended = past.ended
      BY <1>0, <1>3, AfterCountPast DEF Fields, ObserveUncounted, Idle
    <3>2. UNCHANGED <<primary, secondary, header>>
      BY <1>3 DEF ObserveUncounted, store
    <3> QED
      BY <1>0, <3>1, <3>2 DEF HeaderPlaced, Ended, Sealing
  <2> QED
    BY <1>0, <2>1, <2>2, <2>3 DEF OrderInv
<1>4. CASE ObserveCounted
  <2>1. RecordOrder'
    BY <1>0, <1>4 DEF ObserveCounted, RecordOrder
  <2>2. VerbKnows'
    BY <1>0, <1>4 DEF ObserveCounted, AfterCount, Idle, VerbKnows, Sealing, RollingBack
  <2>3. HeaderPlaced'
    BY <1>0, <1>4 DEF Fields, Up, TxType, PastType, ObserveCounted, AfterCount, Idle,
       CountedTx, HeaderPlaced, Ended, Sealing, VerbKnows
  <2> QED
    BY <1>0, <2>1, <2>2, <2>3 DEF OrderInv
<1>5. CASE ObserveFails
  <2>1. RecordOrder'
    BY <1>0, <1>5 DEF ObserveFails, RecordOrder
  <2>2. VerbKnows'
    BY <1>0, <1>5 DEF ObserveFails, Idle, VerbKnows, Sealing, RollingBack
  <2>3. HeaderPlaced'
    <3>1. op'.pc = "serving" /\ UNCHANGED <<primary, secondary>>
      BY <1>5 DEF ObserveFails, Idle
    <3>2. past'.ended = past.ended
      BY <1>0, <1>5 DEF ObserveFails
    <3>3. header' \in {header, [gen |-> mgr.gen, tx |-> CountedTx]}
      BY <1>5, FailedWrite DEF ObserveFails
    <3>4. Armed /\ op.pc = "observe"
      BY <1>5 DEF ObserveFails
    <3>5. CountedTx.seal = mgr.tx.seal
      BY <1>0, <3>4 DEF CountedTx
    <3> QED
      BY <1>0, <3>1, <3>2, <3>3, <3>4, <3>5 DEF HeaderPlaced, Ended, Sealing, VerbKnows
  <2> QED
    BY <1>0, <2>1, <2>2, <2>3 DEF OrderInv
<1>6. ASSUME NEW i \in Ids, NEW e \in Entry, SealRecord(i, e)
      PROVE (RecordOrder /\ VerbKnows /\ HeaderPlaced)'
  <2>1. RecordOrder'
    BY <1>0, <1>6, IssuedNew DEF Fields, SealRecord, RecordOrder
  <2>2. VerbKnows'
    BY <1>0, <1>6, IssuedNew DEF Fields, SealRecord, Tx, RecordOrder, VerbKnows, RollingBack
  <2>3. HeaderPlaced'
    <3>1. op'.pc = "seal_rows" /\ UNCHANGED <<header, secondary>>
          /\ primary'.gen = Issued /\ primary'.seal = seals + 1
          /\ op'.wasTrial = RecordInTrial
      BY <1>6 DEF SealRecord
    <3>2. past'.ended = past.ended
      BY <1>0, <1>6 DEF SealRecord
    <3>3. Issued \in Nat /\ Issued > primary.gen
      BY <1>0, IssuedNew DEF Fields, RecordOrder
    <3>4. header.gen > secondary.gen => Ended \/ header.tx.seal \in secondary.seal + 1 .. seals + 1
      BY <1>0 DEF Fields, HeaderPlaced, RecordOrder
    <3>5. header.gen > Issued => Ended
      BY <1>0, <3>3 DEF Fields, HeaderPlaced
    <3>6. ~RecordInTrial /\ header.gen > secondary.gen => Ended
      BY <1>0 DEF HeaderPlaced, RecordInTrial
    <3> QED
      BY <3>1, <3>2, <3>4, <3>5, <3>6 DEF HeaderPlaced, Ended
  <2> QED
    BY <1>0, <2>1, <2>2, <2>3 DEF OrderInv
<1>7. ASSUME NEW i \in Ids, NEW e \in Entry, SealRecordFails(i, e)
      PROVE (RecordOrder /\ VerbKnows /\ HeaderPlaced)'
  <2>1. RecordOrder'
    BY <1>0, <1>7, IssuedNew, FailedWrite DEF Fields, SealRecordFails, Larger, RecordOrder
  <2>2. VerbKnows'
    BY <1>0, <1>7 DEF SealRecordFails, MayActivate, VerbKnows, Sealing, RollingBack
  <2>3. HeaderPlaced'
    BY <1>0, <1>7, IssuedNew, FailedWrite DEF Fields, SealRecordFails, MayActivate,
       HeaderPlaced, Ended, Sealing, RecordOrder
  <2> QED
    BY <1>0, <2>1, <2>2, <2>3 DEF OrderInv
<1>8. CASE SealRows
  <2>1. RecordOrder'
    BY <1>0, <1>8 DEF SealRows, RecordOrder
  <2>2. VerbKnows'
    BY <1>0, <1>8 DEF SealRows, VerbKnows, Sealing, RollingBack
  <2>3. HeaderPlaced'
    BY <1>0, <1>8 DEF SealRows, HeaderPlaced, Ended, Sealing
  <2> QED
    BY <1>0, <2>1, <2>2, <2>3 DEF OrderInv
<1>9. CASE SealRowsFails
  <2>1. RecordOrder'
    BY <1>0, <1>9 DEF SealRowsFails, RecordOrder
  <2>2. VerbKnows'
    BY <1>0, <1>9 DEF SealRowsFails, Idle, VerbKnows, Sealing, RollingBack
  <2>3. HeaderPlaced'
    BY <1>0, <1>9 DEF SealRowsFails, Idle, HeaderPlaced, Ended, Sealing
  <2> QED
    BY <1>0, <2>1, <2>2, <2>3 DEF OrderInv
<1>10. CASE SealUndo
  <2>1. RecordOrder'
    BY <1>0, <1>10 DEF Fields, SealUndo, RecordOrder
  <2>2. VerbKnows'
    BY <1>0, <1>10 DEF SealUndo, Idle, VerbKnows, Sealing, RollingBack
  <2>3. HeaderPlaced'
    BY <1>0, <1>10 DEF SealUndo, Idle, HeaderPlaced, Ended, Sealing, VerbKnows
  <2> QED
    BY <1>0, <2>1, <2>2, <2>3 DEF OrderInv
<1>11. CASE SealUndoFails
  <2>1. RecordOrder'
    BY <1>0, <1>11, FailedWrite DEF Fields, SealUndoFails, RecordOrder
  <2>2. VerbKnows'
    BY <1>0, <1>11 DEF SealUndoFails, Idle, VerbKnows, Sealing, RollingBack
  <2>3. HeaderPlaced'
    BY <1>0, <1>11, FailedWrite DEF SealUndoFails, Idle, HeaderPlaced, Ended, Sealing,
       VerbKnows
  <2> QED
    BY <1>0, <2>1, <2>2, <2>3 DEF OrderInv
<1>12. CASE SealHeader
  <2>1. RecordOrder'
    BY <1>0, <1>12 DEF SealHeader, RecordOrder
  <2>2. VerbKnows'
    BY <1>0, <1>12 DEF SealHeader, SealAdopt, Idle, VerbKnows, Sealing, RollingBack
  <2>3. HeaderPlaced'
    BY <1>0, <1>12 DEF Fields, SealHeader, SealAdopt, Idle, HeaderPlaced, Sealing,
       RecordOrder, VerbKnows
  <2> QED
    BY <1>0, <2>1, <2>2, <2>3 DEF OrderInv
<1>13. CASE SealHeaderFails
  <2>1. RecordOrder'
    BY <1>0, <1>13 DEF SealHeaderFails, RecordOrder
  <2>2. VerbKnows'
    BY <1>0, <1>13 DEF SealHeaderFails, SealAdopt, Idle, VerbKnows, Sealing, RollingBack
  <2>3. HeaderPlaced'
    BY <1>0, <1>13, FailedWrite DEF Fields, SealHeaderFails, SealAdopt, Idle, HeaderPlaced,
       Ended, Sealing, RecordOrder, VerbKnows
  <2> QED
    BY <1>0, <2>1, <2>2, <2>3 DEF OrderInv
<1>14. CASE CommitRecord
  <2>1. RecordOrder'
    BY <1>0, <1>14 DEF CommitRecord, RecordOrder
  <2>2. VerbKnows'
    BY <1>0, <1>14 DEF CommitRecord, Idle, VerbKnows, Sealing, RollingBack
  <2>3. HeaderPlaced'
    BY <1>0, <1>14 DEF CommitRecord, Idle, HeaderPlaced, Ended
  <2> QED
    BY <1>0, <2>1, <2>2, <2>3 DEF OrderInv
<1>15. CASE CommitRecordFails
  <2>1. RecordOrder'
    BY <1>0, <1>15, FailedWrite DEF CommitRecordFails, RecordOrder
  <2>2. VerbKnows'
    BY <1>0, <1>15 DEF CommitRecordFails, VerbKnows, Sealing, RollingBack
  <2>3. HeaderPlaced'
    BY <1>0, <1>15, FailedWrite DEF CommitRecordFails, HeaderPlaced, Ended, Sealing
  <2> QED
    BY <1>0, <2>1, <2>2, <2>3 DEF OrderInv
<1>16. CASE CommitRows
  <2>1. RecordOrder'
    BY <1>0, <1>16 DEF CommitRows, RecordOrder
  <2>2. VerbKnows'
    BY <1>0, <1>16 DEF CommitRows, Idle, VerbKnows, Sealing, RollingBack
  <2>3. HeaderPlaced'
    BY <1>0, <1>16 DEF CommitRows, Idle, HeaderPlaced, Ended, Sealing
  <2> QED
    BY <1>0, <2>1, <2>2, <2>3 DEF OrderInv
<1>17. CASE CommitNoRows
  <2>1. RecordOrder'
    BY <1>0, <1>17 DEF CommitNoRows, store, RecordOrder
  <2>2. VerbKnows'
    BY <1>0, <1>17 DEF CommitNoRows, Idle, VerbKnows, Sealing, RollingBack
  <2>3. HeaderPlaced'
    BY <1>0, <1>17 DEF CommitNoRows, Idle, store, HeaderPlaced, Ended, Sealing
  <2> QED
    BY <1>0, <2>1, <2>2, <2>3 DEF OrderInv
<1>18. CASE CommitRowsFails
  <2>1. RecordOrder'
    BY <1>0, <1>18 DEF CommitRowsFails, RecordOrder
  <2>2. VerbKnows'
    BY <1>0, <1>18 DEF CommitRowsFails, Idle, VerbKnows, Sealing, RollingBack
  <2>3. HeaderPlaced'
    BY <1>0, <1>18 DEF CommitRowsFails, Idle, HeaderPlaced, Ended, Sealing
  <2> QED
    BY <1>0, <2>1, <2>2, <2>3 DEF OrderInv
<1>19. CASE RollbackNothing
  <2>1. RecordOrder'
    BY <1>0, <1>19 DEF RollbackNothing, store, RecordOrder
  <2>2. VerbKnows'
    BY <1>0, <1>19 DEF RollbackNothing, VerbKnows, Sealing, RollingBack
  <2>3. HeaderPlaced'
    BY <1>0, <1>19 DEF RollbackNothing, store, HeaderPlaced, Ended, Sealing
  <2> QED
    BY <1>0, <2>1, <2>2, <2>3 DEF OrderInv
<1>20. CASE RollbackRefused
  <2>1. RecordOrder'
    BY <1>0, <1>20 DEF RollbackRefused, store, RecordOrder
  <2>2. VerbKnows'
    BY <1>0, <1>20 DEF RollbackRefused, Idle, VerbKnows, Sealing, RollingBack
  <2>3. HeaderPlaced'
    BY <1>0, <1>20 DEF RollbackRefused, Idle, store, HeaderPlaced, Ended, Sealing
  <2> QED
    BY <1>0, <2>1, <2>2, <2>3 DEF OrderInv
<1>21. CASE RollbackHeader
  <2>1. RecordOrder'
    BY <1>0, <1>21 DEF RollbackHeader, RecordOrder
  <2>2. VerbKnows'
    BY <1>0, <1>21 DEF Fields, Up, TxType, RollbackHeader, CanRollback, RollbackTx, Idle,
       VerbKnows, Sealing, HasRowsAt
  <2>3. HeaderPlaced'
    BY <1>0, <1>21 DEF Fields, RollbackHeader, FloorHeader, Idle, HeaderPlaced, RecordOrder
  <2> QED
    BY <1>0, <2>1, <2>2, <2>3 DEF OrderInv
<1>22. CASE RollbackHeaderFails
  <2>1. RecordOrder'
    BY <1>0, <1>22 DEF RollbackHeaderFails, RecordOrder
  <2>2. VerbKnows'
    BY <1>0, <1>22 DEF RollbackHeaderFails, Idle, VerbKnows, Sealing, RollingBack
  <2>3. HeaderPlaced'
    BY <1>0, <1>22, FailedWrite DEF Fields, RollbackHeaderFails, FloorHeader, Idle,
       HeaderPlaced, Ended, Sealing, RecordOrder
  <2> QED
    BY <1>0, <2>1, <2>2, <2>3 DEF OrderInv
<1>23. CASE RollbackRecord
  <2>1. RecordOrder'
    BY <1>0, <1>23 DEF Fields, RollbackRecord, RecordOrder
  <2>2. VerbKnows'
    BY <1>0, <1>23 DEF RollbackRecord, VerbKnows, Sealing, RollingBack, HasRowsAt
  <2>3. HeaderPlaced'
    BY <1>0, <1>23 DEF Fields, RollbackRecord, HeaderPlaced
  <2> QED
    BY <1>0, <2>1, <2>2, <2>3 DEF OrderInv
<1>24. CASE RollbackRecordFails
  <2>1. RecordOrder'
    BY <1>0, <1>24, FailedWrite DEF Fields, RollbackRecordFails, RecordOrder
  <2>2. VerbKnows'
    BY <1>0, <1>24 DEF RollbackRecordFails, Idle, VerbKnows, Sealing, RollingBack
  <2>3. HeaderPlaced'
    BY <1>0, <1>24, FailedWrite DEF Fields, RollbackRecordFails, Idle, HeaderPlaced, Ended
  <2> QED
    BY <1>0, <2>1, <2>2, <2>3 DEF OrderInv
<1>25. CASE RollbackRows
  <2>1. RecordOrder'
    BY <1>0, <1>25 DEF RollbackRows, RecordOrder
  <2>2. VerbKnows'
    BY <1>0, <1>25 DEF RollbackRows, RollbackAdopt, Idle, VerbKnows, Sealing, RollingBack
  <2>3. HeaderPlaced'
    BY <1>0, <1>25 DEF RollbackRows, RollbackAdopt, Idle, HeaderPlaced, Ended, Sealing
  <2> QED
    BY <1>0, <2>1, <2>2, <2>3 DEF OrderInv
<1>26. CASE RollbackRowsFails
  <2>1. RecordOrder'
    BY <1>0, <1>26 DEF RollbackRowsFails, RecordOrder
  <2>2. VerbKnows'
    BY <1>0, <1>26 DEF RollbackRowsFails, RollbackAdopt, Idle, VerbKnows, Sealing,
       RollingBack
  <2>3. HeaderPlaced'
    BY <1>0, <1>26 DEF RollbackRowsFails, RollbackAdopt, Idle, HeaderPlaced, Ended, Sealing
  <2> QED
    BY <1>0, <2>1, <2>2, <2>3 DEF OrderInv
<1>27. CASE Stop
  <2>1. RecordOrder'
    BY <1>0, <1>27 DEF Stop, store, RecordOrder
  <2>2. VerbKnows'
    BY <1>0, <1>27 DEF Stop, GoDown, Idle, VerbKnows, Sealing, RollingBack
  <2>3. HeaderPlaced'
    BY <1>0, <1>27 DEF Stop, GoDown, Idle, store, HeaderPlaced, Ended, Sealing
  <2> QED
    BY <1>0, <2>1, <2>2, <2>3 DEF OrderInv
<1>28. CASE Reset
  <2>1. RecordOrder'
    BY <1>0, <1>28 DEF Reset, store, RecordOrder
  <2>2. VerbKnows'
    BY <1>0, <1>28 DEF Reset, GoDown, Idle, VerbKnows, Sealing, RollingBack
  <2>3. HeaderPlaced'
    BY <1>0, <1>28 DEF Reset, GoDown, Idle, store, HeaderPlaced, Ended, Sealing
  <2> QED
    BY <1>0, <2>1, <2>2, <2>3 DEF OrderInv
<1>29. CASE BootStageRollback
  <2>1. RecordOrder'
    BY <1>0, <1>29 DEF Fields, BootStageRollback, RecordOrder
  <2>2. VerbKnows'
    BY <1>0, <1>29 DEF BootStageRollback, VerbKnows, Sealing, RollingBack
  <2>3. HeaderPlaced'
    BY <1>0, <1>29 DEF BootStageRollback, HeaderPlaced, Ended
  <2> QED
    BY <1>0, <2>1, <2>2, <2>3 DEF OrderInv
<1>30. CASE UNCHANGED vars
  BY <1>0, <1>30 DEF OrderInv, vars, RecordOrder, VerbKnows, HeaderPlaced, Sealing,
     RollingBack, Ended, Armed, InTrial, HasRowsAt
<1> QED
  BY <1>0, <1>1, <1>2, <1>3, <1>4, <1>5, <1>6, <1>7, <1>8, <1>9, <1>10, <1>11, <1>12, <1>13,
     <1>14, <1>15, <1>16, <1>17, <1>18, <1>19, <1>20, <1>21, <1>22, <1>23, <1>24, <1>25,
     <1>26, <1>27, <1>28, <1>29, <1>30 DEF OrderInv, Next, Start, Seal, Commit, Rollback

\* A seeded node is in order.
LEMMA OrderInit == Init => OrderInv
<1> SUFFICES ASSUME Init PROVE OrderInv
  OBVIOUS
<1>1. TypeOK /\ Fields
  BY TypeInit, NumTypes
<1>2. /\ primary = secondary /\ primary.seal = 0 /\ primary.gen = 1 /\ counter = 1
      /\ header.gen = 1 /\ seals = 0 /\ op.pc = "serving"
  BY DEF Init, Idle
<1>3. RecordOrder
  BY <1>2 DEF RecordOrder
<1>4. VerbKnows /\ HeaderPlaced
  BY <1>2 DEF VerbKnows, HeaderPlaced, Sealing, RollingBack
<1> QED
  BY <1>1, <1>3, <1>4 DEF OrderInv

\* A header above the primary's generation belongs to a trial the boot stage
\* ended, whatever write failed or lost power: what load concludes is sound.
\* (The write order of activate and rollback in RecordSelectorStore.)
THEOREM HeaderAboveIsEnded == Spec => []HeaderAboveMeansBootStage
<1>1. OrderInv => HeaderAboveMeansBootStage
  BY DEF OrderInv, HeaderPlaced, Ended, HeaderAboveMeansBootStage
<1> QED
  BY <1>1, OrderInit, OrderStep, PTL DEF Spec

----------------------------------------------------------------------------
(* Memory and the record, while failures leave no trace.                   *)

\* The record copy r is the vector v the manager holds.
Holds(r, v) == r.gen = mgr.gen /\ r.rows = Restriction(v, RecordIds)

\* Between writes the record is what the manager knows; a first activation
\* leaves the floor as the vector memory still runs.
MemoryHeld ==
    /\ op.pc \in {"observe", "bail", "serving", "commit_rows", "rollback_record"} =>
          Holds(primary, mgr.current)
    /\ op.pc \in {"seal_rows", "seal_header"} =>
          primary.rows = Restriction(mgr.pending, RecordIds)
    /\ Sealing /\ ~op.wasTrial => Holds(secondary, mgr.current)
    /\ op.pc \notin {"down", "commit_rows"} /\ HasRowsAt(secondary.gen) =>
          secondary.rows = Restriction(mgr.committed, RecordIds)

MemoryInv == OrderInv /\ (Contained => MemoryHeld)

\* The record's part of what the reads answer.
LEMMA ReadsParts ==
    ASSUME StoreType
    PROVE  /\ Restriction(ReadPrimary, RecordIds) = primary.rows
           /\ Restriction(ReadSecondary, RecordIds) = secondary.rows
BY DEF StoreType, Row, ReadPrimary, ReadSecondary, Union, Restriction, Ids

\* What was seen stays seen.
LEMMA SeenGrows ==
    ASSUME TypeOK, [Next]_vars PROVE faults.seen \subseteq faults'.seen
<1>1. ASSUME NEW kind, Fault(kind) PROVE faults.seen \subseteq faults'.seen
  BY <1>1, FaultStep, TypeParts DEF RunType
<1> QED
  BY <1>1 DEF vars, store, Next, Start, Seal, Commit, Rollback, Load, LoadUnrecorded,
     ObserveUncounted, ObserveCounted, ObserveFails, SealRecord, SealRecordFails, SealRows,
     SealRowsFails, SealUndo, SealUndoFails, SealHeader, SealHeaderFails, CommitRecord,
     CommitRecordFails, CommitRows, CommitNoRows, CommitRowsFails, RollbackNothing,
     RollbackRefused, RollbackHeader, RollbackHeaderFails, RollbackRecord,
     RollbackRecordFails, RollbackRows, RollbackRowsFails, Stop, Reset, BootStageRollback

\* While failures leave no trace, a failed write left the old file.
LEMMA Landed ==
    ASSUME Contained', NEW old, NEW new, NEW x
    PROVE  /\ x \in FailedFile(old, new) => x = old
           /\ x \in FailedRecord(old, new) => x = old
BY FailedWrite DEF Contained, Saw

\* While failures leave no trace, none of those that leave one happens.
LEMMA ToldFault ==
    ASSUME TypeOK, Contained'
    PROVE  /\ ~Fault("rows_in_trial") /\ ~Fault("undo") /\ ~Fault("committed")
BY FaultStep, TypeParts DEF RunType, Contained, Saw, Telling

\* Memory follows the record through each write of each verb.
LEMMA MemoryStep == MemoryInv /\ [Next]_vars => MemoryInv'
<1> SUFFICES ASSUME MemoryInv, [Next]_vars, Contained' PROVE MemoryHeld'
  BY OrderStep DEF MemoryInv
<1>0. /\ Fields /\ StoreType /\ RunType /\ TypeOK /\ RecordOrder /\ VerbKnows
      /\ Contained' /\ MemoryHeld
  BY NumTypes, SeenGrows DEF MemoryInv, OrderInv, Contained, Saw
<1>1. CASE Load
  BY <1>0, ReadsParts, <1>1 DEF Load, Adopt, Idle, MemoryHeld, Holds, Sealing
<1>2. CASE LoadUnrecorded
  BY <1>0, ReadsParts, <1>2 DEF LoadUnrecorded, Adopt, Idle, MemoryHeld, Holds, Sealing
<1>3. CASE ObserveUncounted
  BY <1>0, <1>3 DEF ObserveUncounted, AfterCount, Idle, store, MemoryHeld, Holds, HasRowsAt,
     Sealing
<1>4. CASE ObserveCounted
  BY <1>0, <1>4 DEF ObserveCounted, AfterCount, Idle, MemoryHeld, Holds, HasRowsAt, Sealing
<1>5. CASE ObserveFails
  BY <1>0, <1>5 DEF ObserveFails, Idle, MemoryHeld, Holds, HasRowsAt, Sealing
<1>6. ASSUME NEW i \in Ids, NEW e \in Entry, SealRecord(i, e)
      PROVE MemoryHeld'
  <2>1. /\ op'.pc = "seal_rows" /\ op'.wasTrial = RecordInTrial /\ secondary' = secondary
        /\ rows' = rows /\ committed' = committed
        /\ primary'.rows = Restriction(mgr'.pending, RecordIds)
    BY <1>0, <1>6 DEF SealRecord
  <2>2. mgr'.current = mgr.current /\ mgr'.committed = mgr.committed /\ mgr'.gen = mgr.gen
    BY <1>0, <1>6 DEF SealRecord
  <2>3. op.pc = "serving"
    BY <1>6 DEF SealRecord, MayActivate
  <2>4. ~op'.wasTrial => primary = secondary
    <3>1. ~RecordInTrial => primary = secondary
      BY <1>0 DEF RecordInTrial, RecordOrder, Fields
    <3> QED
      BY <2>1, <3>1, Zenon
  <2>5. Sealing' /\ ~op'.wasTrial => Holds(secondary, mgr.current)
    BY <1>0, <2>3, <2>4 DEF MemoryHeld, Holds
  <2>6. HasRowsAt(secondary.gen)' => secondary.rows = Restriction(mgr.committed, RecordIds)
    BY <1>0, <2>1, <2>3 DEF MemoryHeld, HasRowsAt
  <2> QED
    BY <2>1, <2>2, <2>5, <2>6 DEF MemoryHeld, Holds
<1>7. ASSUME NEW i \in Ids, NEW e \in Entry, SealRecordFails(i, e)
      PROVE MemoryHeld'
  BY <1>0, Landed, <1>7 DEF SealRecordFails, MayActivate, MemoryHeld, Holds, HasRowsAt,
     Sealing
<1>8. CASE SealRows
  BY <1>0, <1>8 DEF Fields, SealRows, SealedRows, MemoryHeld, Holds, HasRowsAt, Sealing,
     VerbKnows
<1>9. CASE SealRowsFails
  BY <1>0, Landed, ToldFault, <1>9 DEF SealRowsFails, MemoryHeld, Holds, HasRowsAt, Sealing
<1>10. CASE SealUndo
  BY <1>0, <1>10 DEF SealUndo, Idle, MemoryHeld, Holds, HasRowsAt, Sealing, VerbKnows
<1>11. CASE SealUndoFails
  BY <1>0, ToldFault, <1>11 DEF SealUndoFails
<1>12. CASE SealHeader
  BY <1>0, <1>12 DEF SealHeader, SealAdopt, Idle, MemoryHeld, Holds, HasRowsAt, Sealing,
     VerbKnows
<1>13. CASE SealHeaderFails
  BY <1>0, <1>13 DEF SealHeaderFails, SealAdopt, Idle, MemoryHeld, Holds, HasRowsAt,
     Sealing, VerbKnows
<1>14. CASE CommitRecord
  BY <1>0, <1>14 DEF CommitRecord, Idle, MemoryHeld, Holds
<1>15. CASE CommitRecordFails
  BY <1>0, Landed, <1>15 DEF CommitRecordFails, MemoryHeld, Holds, HasRowsAt, Sealing
<1>16. CASE CommitRows
  BY <1>0, <1>16 DEF CommitRows, Idle, MemoryHeld, Holds, VerbKnows
<1>17. CASE CommitNoRows
  BY <1>0, <1>17 DEF CommitNoRows, Idle, store, MemoryHeld, Holds, HasRowsAt, VerbKnows
<1>18. CASE CommitRowsFails
  BY <1>0, ToldFault, <1>18 DEF CommitRowsFails
<1>19. CASE RollbackNothing
  BY <1>0, <1>19 DEF RollbackNothing, store, MemoryHeld, Holds, HasRowsAt, Sealing
<1>20. CASE RollbackRefused
  BY <1>0, <1>20 DEF RollbackRefused, CanRollback, Idle, store, MemoryHeld, Holds,
     HasRowsAt, Sealing
<1>21. CASE RollbackHeader
  BY <1>0, <1>21 DEF RollbackHeader, CanRollback, Idle, MemoryHeld, Holds, Sealing
<1>22. CASE RollbackHeaderFails
  BY <1>0, <1>22 DEF RollbackHeaderFails, CanRollback, Idle, MemoryHeld, Holds, Sealing
<1>23. CASE RollbackRecord
  BY <1>0, <1>23 DEF RollbackRecord, MemoryHeld, HasRowsAt, Sealing
<1>24. CASE RollbackRecordFails
  BY <1>0, Landed, <1>24 DEF RollbackRecordFails, Idle, MemoryHeld, Holds, HasRowsAt,
     Sealing
<1>25. CASE RollbackRows
  BY <1>0, <1>25 DEF RollbackRows, RollbackAdopt, MemoryHeld, Holds, RollingBack, VerbKnows
<1>26. CASE RollbackRowsFails
  BY <1>0, <1>26 DEF RollbackRowsFails, RollbackAdopt, MemoryHeld, Holds, RollingBack,
     VerbKnows
<1>27. CASE Stop
  BY <1>0, <1>27 DEF Stop, GoDown, Idle, MemoryHeld, Sealing
<1>28. CASE Reset
  BY <1>0, <1>28 DEF Reset, GoDown, Idle, MemoryHeld, Sealing
<1>29. CASE BootStageRollback
  BY <1>0, <1>29 DEF BootStageRollback, MemoryHeld, Sealing
<1>30. CASE UNCHANGED vars
  BY <1>0, <1>30 DEF vars, MemoryHeld, Holds, Sealing, HasRowsAt
<1> QED
  BY <1>1, <1>2, <1>3, <1>4, <1>5, <1>6, <1>7, <1>8, <1>9, <1>10, <1>11, <1>12, <1>13,
     <1>14, <1>15, <1>16, <1>17, <1>18, <1>19, <1>20, <1>21, <1>22, <1>23, <1>24, <1>25,
     <1>26, <1>27, <1>28, <1>29, <1>30
     DEF Next, Start, Seal, Commit, Rollback

\* A seeded node's memory is its record.
LEMMA MemoryInit == Init => MemoryInv
<1> SUFFICES ASSUME Init PROVE MemoryHeld
  BY OrderInit DEF MemoryInv
<1> QED
  BY DEF Init, MemoryHeld, Holds

\* A write verb that returned Err left the primary as it was: between verbs the
\* stored primary is the one the manager knows.  (seal, commit and rollback of
\* SystemBankManager over the write order of RecordSelectorStore.)
THEOREM ErrKeepsPrimary == Spec => []ErrLeavesPrimary
<1>1. MemoryInv => ErrLeavesPrimary
  BY DEF MemoryInv, MemoryHeld, Holds, ErrLeavesPrimary
<1> QED
  BY <1>1, MemoryInit, MemoryStep, PTL DEF Spec

----------------------------------------------------------------------------
(* Generations from a counter name one activation each.                    *)

\* A generation in the store and the activation it was written for.
SealOf(x) == <<x.gen, x.seal>>
ManagerSeals == IF ManagerIds = {} THEN {} ELSE {SealOf(rows), SealOf(committed)}
Pairs == {SealOf(primary), SealOf(secondary), <<header.gen, header.tx.seal>>} \cup ManagerSeals

OneSeal == \A p \in Pairs : /\ p[1] <= counter
                            /\ \A q \in Pairs : p[1] = q[1] => p[2] = q[2]

SealInv == OrderInv /\ (CounterRecord => OneSeal)

\* Every write but an activation's first pairs a generation with the activation
\* it is already paired with.
LEMMA PairsKept ==
    ASSUME OrderInv, [Next]_vars,
           ~\E i \in Ids, e \in Entry : SealRecord(i, e) \/ SealRecordFails(i, e)
    PROVE  Pairs' \subseteq Pairs /\ counter' = counter
<1>0. Fields /\ StoreType /\ RunType /\ RecordOrder /\ VerbKnows /\ HeaderPlaced
  BY NumTypes DEF OrderInv
<1>h. ASSUME UNCHANGED <<primary, secondary, counter, rows, committed>>,
              <<header'.gen, header'.tx.seal>> \in Pairs
       PROVE  Pairs' \subseteq Pairs /\ counter' = counter
  BY <1>h DEF Pairs, ManagerSeals
<1>1. CASE Load
  <2>1. UNCHANGED <<primary, secondary, counter, rows, committed>>
    BY <1>1 DEF Load
  <2>2. BootStageTx.seal = primary.seal
    BY <1>0 DEF BootStageTx
  <2>3. header' \in {header, [gen |-> primary.gen, tx |-> BootStageTx]}
    BY <1>1 DEF Load
  <2> QED
    BY <1>h, <2>1, <2>2, <2>3 DEF Pairs, SealOf
<1>2. CASE LoadUnrecorded
  <2>1. UNCHANGED <<primary, secondary, counter, rows, committed>>
    BY <1>2 DEF LoadUnrecorded
  <2>2. BootStageTx.seal = primary.seal
    BY <1>0 DEF BootStageTx
  <2>3. header' \in {header, [gen |-> primary.gen, tx |-> BootStageTx]}
    BY <1>2, FailedWrite DEF LoadUnrecorded
  <2> QED
    BY <1>h, <2>1, <2>2, <2>3 DEF Pairs, SealOf
<1>3. CASE ObserveUncounted
  BY <1>0, <1>3 DEF ObserveUncounted, store, ManagerSeals, Pairs
<1>4. CASE ObserveCounted
  BY <1>0, <1>4 DEF Fields, Up, TxType, ObserveCounted, CountedTx, ManagerSeals, Pairs,
     HasRowsAt, RoutesEverything, Sealing, RollingBack, VerbKnows, HeaderPlaced
<1>5. CASE ObserveFails
  <2>1. UNCHANGED <<primary, secondary, counter, rows, committed>>
    BY <1>5 DEF ObserveFails
  <2>2. mgr.gen = header.gen /\ CountedTx.seal = header.tx.seal
    BY <1>0, <1>5 DEF ObserveFails, CountedTx, HeaderPlaced, VerbKnows
  <2>3. header' \in {header, [gen |-> mgr.gen, tx |-> CountedTx]}
    BY <1>5, FailedWrite DEF ObserveFails
  <2> QED
    BY <1>h, <2>1, <2>2, <2>3 DEF Pairs, SealOf
<1>6. CASE SealRows
  BY <1>0, <1>6 DEF SealRows, SealedRows, SealOf, ManagerSeals, Pairs, Sealing, VerbKnows
<1>7. CASE SealRowsFails
  BY <1>0, FailedWrite, <1>7 DEF SealRowsFails, SealedRows, SealOf, ManagerSeals, Pairs,
     Sealing, VerbKnows
<1>8. CASE SealUndo
  BY <1>0, <1>8 DEF SealUndo, ManagerSeals, Pairs
<1>9. CASE SealUndoFails
  BY <1>0, FailedWrite, <1>9 DEF SealUndoFails, ManagerSeals, Pairs
<1>10. CASE SealHeader
  BY <1>0, <1>10 DEF SealHeader, SealOf, ManagerSeals, Pairs, Sealing, VerbKnows
<1>11. CASE SealHeaderFails
  BY <1>0, FailedWrite, <1>11 DEF SealHeaderFails, SealOf, ManagerSeals, Pairs, Sealing,
     VerbKnows
<1>12. CASE CommitRecord
  BY <1>0, <1>12 DEF CommitRecord, ManagerSeals, Pairs
<1>13. CASE CommitRecordFails
  BY <1>0, FailedWrite, <1>13 DEF CommitRecordFails, ManagerSeals, Pairs
<1>14. CASE CommitRows
  BY <1>0, <1>14 DEF CommitRows, CommittedRows, SealOf, ManagerSeals, Pairs, HasRowsAt,
     RoutesEverything
<1>15. CASE CommitNoRows
  BY <1>0, <1>15 DEF CommitNoRows, store, ManagerSeals, Pairs
<1>16. CASE CommitRowsFails
  <2>1. UNCHANGED <<primary, secondary, counter, rows, header>>
    BY <1>16 DEF CommitRowsFails
  <2>2. committed' \in {committed, CommittedRows}
    BY <1>16, FailedWrite DEF CommitRowsFails
  <2>3. ManagerIds # {} => CommittedRows \in {rows, committed}
    BY <1>0, <1>16 DEF CommitRowsFails, CommittedRows, HasRowsAt, RoutesEverything,
       StoreType, Row
  <2> QED
    BY <2>1, <2>2, <2>3 DEF Pairs, ManagerSeals
<1>17. CASE RollbackNothing
  BY <1>0, <1>17 DEF RollbackNothing, store, ManagerSeals, Pairs
<1>18. CASE RollbackRefused
  BY <1>0, <1>18 DEF RollbackRefused, store, ManagerSeals, Pairs
<1>19. CASE RollbackHeader
  BY <1>0, <1>19 DEF Fields, Up, TxType, MgrType, RollbackHeader, CanRollback, FloorHeader,
     RollbackTx, Idle, SealOf, ManagerSeals, Pairs, HasRowsAt, RoutesEverything, Sealing,
     RollingBack, VerbKnows, HeaderPlaced
<1>20. CASE RollbackHeaderFails
  <2>1. UNCHANGED <<primary, secondary, counter, rows, committed>>
    BY <1>20 DEF RollbackHeaderFails
  <2>2. RollbackTx.seal = secondary.seal
    BY <1>0, <1>20 DEF RollbackTx
  <2>3. header' \in {header, [gen |-> secondary.gen, tx |-> RollbackTx]}
    BY <1>20, FailedWrite DEF RollbackHeaderFails, FloorHeader
  <2> QED
    BY <1>h, <2>1, <2>2, <2>3 DEF Pairs, SealOf
<1>21. CASE RollbackRecord
  BY <1>0, <1>21 DEF RollbackRecord, ManagerSeals, Pairs
<1>22. CASE RollbackRecordFails
  BY <1>0, FailedWrite, <1>22 DEF RollbackRecordFails, ManagerSeals, Pairs
<1>23. CASE RollbackRows
  BY <1>0, <1>23 DEF RollbackRows, FloorRows, ManagerSeals, Pairs, HasRowsAt,
     RoutesEverything, RollingBack, VerbKnows
<1>24. CASE RollbackRowsFails
  BY <1>0, FailedWrite, <1>24 DEF RollbackRowsFails, FloorRows, ManagerSeals, Pairs,
     HasRowsAt, RoutesEverything, RollingBack, VerbKnows
<1>25. CASE Stop
  BY <1>0, <1>25 DEF Stop, store, ManagerSeals, Pairs
<1>26. CASE Reset
  BY <1>0, <1>26 DEF Reset, store, ManagerSeals, Pairs
<1>27. CASE BootStageRollback
  BY <1>0, <1>27 DEF BootStageRollback, ManagerSeals, Pairs
<1>28. CASE UNCHANGED vars
  BY <1>28 DEF vars, Pairs, ManagerSeals
<1> QED
  BY <1>1, <1>2, <1>3, <1>4, <1>5, <1>6, <1>7, <1>8, <1>9, <1>10, <1>11, <1>12, <1>13,
     <1>14, <1>15, <1>16, <1>17, <1>18, <1>19, <1>20, <1>21, <1>22, <1>23, <1>24, <1>25,
     <1>26, <1>27, <1>28
     DEF Next, Start, Seal, Commit, Rollback

\* Each write of each verb leaves one activation to a generation.
LEMMA SealStep == SealInv /\ [Next]_vars => SealInv'
<1> SUFFICES ASSUME SealInv, [Next]_vars, CounterRecord PROVE OneSeal'
  BY OrderStep DEF SealInv
<1>0. Fields /\ StoreType /\ OneSeal
  BY NumTypes DEF SealInv, OrderInv
<1>1. CASE ~\E i \in Ids, e \in Entry : SealRecord(i, e) \/ SealRecordFails(i, e)
  <2>1. Pairs' \subseteq Pairs /\ counter' = counter
    BY <1>1, PairsKept DEF SealInv
  <2> QED
    BY <1>0, <2>1 DEF OneSeal
<1>2. ASSUME NEW i \in Ids, NEW e \in Entry, SealRecord(i, e) \/ SealRecordFails(i, e)
      PROVE  OneSeal'
  <2>1. UNCHANGED <<secondary, rows, committed, header>>
    BY <1>2 DEF SealRecord, SealRecordFails
  <2>2. \/ primary' = primary /\ counter' = counter
        \/ SealOf(primary)' = <<counter + 1, seals + 1>> /\ counter' = counter + 1
    <3>1. CASE SealRecord(i, e)
      BY <1>0, <3>1, IssuedNew DEF SealRecord, SealOf
    <3>2. CASE SealRecordFails(i, e)
      <4>1. \/ primary' = primary
            \/ primary'.gen = counter + 1 /\ primary'.seal = seals + 1
        BY <1>0, <3>2, IssuedNew, FailedWrite DEF SealRecordFails
      <4>2. counter' = Larger(counter, primary'.gen) /\ primary.gen <= counter
        BY <1>0, <3>2 DEF SealRecordFails, SealInv, OrderInv, RecordOrder
      <4> QED
        BY <1>0, <4>1, <4>2 DEF Fields, Larger, SealOf
    <3> QED
      BY <1>2, <3>1, <3>2
  <2>3. CASE primary' = primary /\ counter' = counter
    <3>1. Pairs' = Pairs
      BY <2>1, <2>3 DEF Pairs, ManagerSeals
    <3> QED
      BY <1>0, <2>3, <3>1 DEF OneSeal
  <2>4. CASE SealOf(primary)' = <<counter + 1, seals + 1>> /\ counter' = counter + 1
    <3>1. Pairs' \subseteq Pairs \cup {<<counter + 1, seals + 1>>}
      BY <2>1, <2>4 DEF Pairs, ManagerSeals
    <3>2. \A p \in Pairs : p[1] \in Nat /\ p[1] <= counter
      BY <1>0 DEF Fields, OneSeal, Pairs, SealOf, ManagerSeals
    <3>3. \A p \in Pairs' : p \in Pairs \/ (p[1] = counter + 1 /\ p[2] = seals + 1)
      BY <3>1
    <3>4. \A p \in Pairs : p[1] # counter + 1 /\ p[1] <= counter + 1
      BY <1>0, <3>2 DEF Fields
    <3> QED
      BY <1>0, <2>4, <3>3, <3>4 DEF Fields, OneSeal
  <2> QED
    BY <2>2, <2>3, <2>4
<1> QED
  BY <1>1, <1>2

\* A seeded node has one generation.
LEMMA SealInit == Init => SealInv
<1> SUFFICES ASSUME Init PROVE OneSeal
  BY OrderInit DEF SealInv
<1>1. Pairs \subseteq {<<1, 0>>} /\ counter = 1
  BY DEF Init, Pairs, SealOf, ManagerSeals, NoTx, Tx
<1> QED
  BY <1>1 DEF OneSeal

\* Manager rows found at the primary's generation are those of the activation
\* that made it, at every write.  (activate, commit and rollback of
\* RecordSelectorStore over a record with a generation counter.)
THEOREM RowsTied == Spec => []RowsOfTheirSeal
<1>1. SealInv => RowsOfTheirSeal
  <2> SUFFICES ASSUME CounterRecord, OneSeal, ManagerIds # {}, rows.gen = primary.gen
               PROVE  rows.seal = primary.seal
    BY DEF SealInv, RowsOfTheirSeal
  <2>1. SealOf(rows) \in Pairs /\ SealOf(primary) \in Pairs
    BY DEF Pairs, ManagerSeals
  <2> QED
    BY <2>1 DEF OneSeal, SealOf
<1> QED
  BY <1>1, SealInit, SealStep, PTL DEF Spec

\* A header found at the primary's generation was recorded for that trial and no
\* earlier one.  (The header's generation in RecordSelectorStore.)
THEOREM HeaderTied == Spec => []HeaderOfItsTrial
<1>1. SealInv => HeaderOfItsTrial
  <2> SUFFICES ASSUME CounterRecord, OneSeal, header.gen = primary.gen
               PROVE  header.tx.seal = primary.seal
    BY DEF SealInv, HeaderOfItsTrial
  <2>1. <<header.gen, header.tx.seal>> \in Pairs /\ SealOf(primary) \in Pairs
    BY DEF Pairs
  <2> QED
    BY <2>1 DEF OneSeal, SealOf
<1> QED
  BY <1>1, SealInit, SealStep, PTL DEF Spec

----------------------------------------------------------------------------
(* The floor and what boots out of trial, manager rows included.           *)

Floor(S) == Restriction(past.floor, S)

\* The record's floor, and memory, are the vector of the last commit verdict.
FloorHeld ==
    /\ secondary.rows = Floor(RecordIds)
    /\ op.pc \notin {"down", "commit_rows"} => mgr.committed = past.floor
    /\ op.pc = "commit_rows" => mgr.current = past.floor
    /\ Sealing /\ ~op.wasTrial => mgr.current = past.floor

\* The side files at the generations of the record hold its manager rows: the
\* floor's in `committed`, a trial's in `rows`, and `rows` at the floor's
\* generation are the floor's.
RowsHeld ==
    ManagerIds # {} =>
        /\ op.pc # "commit_rows" => committed.gen = secondary.gen
        /\ committed.gen = secondary.gen => committed.rows = Floor(ManagerIds)
        /\ op.pc = "commit_rows" =>
              /\ rows.gen = op.gen \/ committed.gen = op.gen
              /\ rows.gen = op.gen => rows.rows = Floor(ManagerIds)
        /\ ~Sealing /\ RecordInTrial => rows.gen = primary.gen
        /\ ~Sealing /\ ~RecordInTrial /\ rows.gen = primary.gen => rows.rows = Floor(ManagerIds)
        /\ Sealing /\ ~op.wasTrial /\ op.pc # "seal_header" /\ rows.gen = secondary.gen =>
              rows.rows = Floor(ManagerIds)
        /\ op.pc = "seal_header" =>
              rows.gen = primary.gen /\ rows.rows = Restriction(mgr.pending, ManagerIds)

\* What memory runs is what the store reads.
CurrentRead ==
    op.pc \in {"observe", "bail", "serving", "commit_rows", "rollback_record"} =>
        mgr.current = ReadPrimary

FloorInv == MemoryInv /\ (RowsKept => FloorHeld /\ RowsHeld /\ CurrentRead)

\* With no manager rows, what a read answers is the record's.
LEMMA RecordAlone ==
    ASSUME ManagerIds = {}, NEW v \in [Ids -> Entry], NEW m
    PROVE  Union(Restriction(v, RecordIds), m) = v
BY DEF Union, Restriction, Ids

\* The reads answer the floor.
FloorReads == /\ ReadSecondary = past.floor
              /\ ~RecordInTrial => ReadPrimary = past.floor

\* The secondary reads as the floor and, out of trial, so does the primary.
LEMMA FloorRead ==
    TypeOK /\ RecordOrder /\ VerbKnows /\ FloorHeld /\ RowsHeld => FloorReads
<1> SUFFICES ASSUME TypeOK, RecordOrder, VerbKnows, FloorHeld, RowsHeld PROVE FloorReads
  OBVIOUS
<1>1. Fields /\ past.floor \in [Ids -> Entry]
  BY NumTypes DEF Fields, PastType
<1>2. secondary.rows = Floor(RecordIds) /\ (~RecordInTrial => primary.rows = Floor(RecordIds))
  BY <1>1 DEF FloorHeld, RecordInTrial, RecordOrder, Fields
<1>3. CASE ManagerIds = {}
  BY <1>1, <1>2, <1>3, RecordAlone DEF FloorReads, ReadSecondary, ReadPrimary, Floor
<1>4. CASE ManagerIds # {}
  <2>0. Union(Floor(RecordIds), Floor(ManagerIds)) = past.floor
    BY <1>1, UnionOf DEF Floor
  <2>1. ReadSecondary = Union(secondary.rows, Floor(ManagerIds))
    BY <1>1, <1>4 DEF RowsHeld, VerbKnows, ReadSecondary
  <2>2. ~RecordInTrial => ReadPrimary = Union(primary.rows, Floor(ManagerIds))
    BY <1>1, <1>4 DEF RowsHeld, VerbKnows, ReadPrimary, RecordInTrial, Fields
  <2> QED
    BY <1>2, <2>0, <2>1, <2>2 DEF FloorReads
<1> QED
  BY <1>3, <1>4

\* The same of the next state.
LEMMA FloorReadNext ==
    (TypeOK /\ RecordOrder /\ VerbKnows /\ FloorHeld /\ RowsHeld)' => FloorReads'
BY FloorRead, PTL

\* A loss of power in a seal or a commit is told apart where rows are in side files.
LEMMA RowsKeptStop ==
    ASSUME TypeOK, Fault(PowerAt), RowsKept', ManagerIds # {}
    PROVE  ~Sealing /\ op.pc # "commit_rows"
<1>1. PowerAt \notin {"power_seal", "power_commit"}
  BY FaultStep, TypeParts DEF RunType, RowsKept, Saw, Telling, RoutesEverything
<1> QED
  BY <1>1 DEF PowerAt, Sealing

\* The floor is kept through each write of each verb.
LEMMA FloorStep == FloorInv /\ [Next]_vars => FloorInv'
<1> SUFFICES ASSUME FloorInv, [Next]_vars, RowsKept'
             PROVE  (FloorHeld /\ RowsHeld /\ CurrentRead)'
  BY MemoryStep DEF FloorInv
<1>0. /\ Fields /\ StoreType /\ RunType /\ TypeOK /\ RecordOrder /\ VerbKnows
      /\ Contained' /\ RowsKept' /\ MemoryHeld
      /\ FloorHeld /\ RowsHeld /\ CurrentRead
  BY NumTypes, SeenGrows DEF FloorInv, MemoryInv, OrderInv, RowsKept, Contained, Saw
<1>a. (TypeOK /\ RecordOrder /\ VerbKnows)' /\ FloorReads
  BY <1>0, MemoryStep, FloorRead DEF FloorInv, MemoryInv, OrderInv
<1>b. ASSUME FloorHeld', RowsHeld' PROVE FloorReads'
  BY <1>a, <1>b, FloorReadNext

<1>1. CASE Load
  <2>1. FloorHeld'
    BY <1>0, <1>a, <1>1 DEF Load, Adopt, Idle, FloorHeld, FloorReads, Floor, Sealing
  <2>2. RowsHeld'
    BY <1>0, <1>a, <1>1 DEF Load, Idle, RowsHeld, Floor, Sealing, RecordInTrial
  <2>3. CurrentRead'
    BY <1>0, <1>a, <1>b, <2>1, <2>2, <1>1 DEF Load, Adopt, CurrentRead, ReadPrimary,
       NewestRows
  <2> QED
    BY <2>1, <2>2, <2>3
<1>2. CASE LoadUnrecorded
  <2>1. FloorHeld'
    BY <1>0, <1>a, <1>2 DEF LoadUnrecorded, Adopt, BootStageActed, FloorHeld, FloorReads,
       Floor
  <2>2. RowsHeld'
    BY <1>0, <1>a, <1>2 DEF LoadUnrecorded, Idle, RowsHeld, Floor, Sealing, RecordInTrial
  <2>3. CurrentRead'
    BY <1>0, <1>a, <1>b, <2>1, <2>2, <1>2 DEF LoadUnrecorded, Adopt, CurrentRead,
       ReadPrimary, NewestRows
  <2> QED
    BY <2>1, <2>2, <2>3
<1>3. CASE ObserveUncounted
  <2>1. op'.pc \in {"bail", "serving"} /\ past'.floor = past.floor
    BY <1>0, <1>3, AfterCountPast DEF Fields, ObserveUncounted, Idle
  <2>2. UNCHANGED <<primary, secondary, rows, committed, mgr>> /\ op.pc = "observe"
    BY <1>3 DEF ObserveUncounted, store
  <2> QED
    BY <1>0, <2>1, <2>2 DEF FloorHeld, RowsHeld, CurrentRead, Floor, Sealing, RecordInTrial,
       ReadPrimary, NewestRows
<1>4. CASE ObserveCounted
  <2>1. FloorHeld'
    BY <1>0, <1>a, <1>4 DEF ObserveCounted, AfterCount, Idle, FloorHeld, Floor, Sealing
  <2>2. RowsHeld'
    BY <1>0, <1>a, <1>4 DEF ObserveCounted, AfterCount, Idle, RowsHeld, Floor, Sealing,
       RecordInTrial
  <2>3. CurrentRead'
    BY <1>0, <1>a, <1>b, <2>1, <2>2, <1>4 DEF ObserveCounted, CurrentRead, ReadPrimary,
       NewestRows
  <2> QED
    BY <2>1, <2>2, <2>3
<1>5. CASE ObserveFails
  <2>1. FloorHeld'
    BY <1>0, <1>a, <1>5 DEF ObserveFails, Idle, FloorHeld, Floor, Sealing
  <2>2. RowsHeld'
    BY <1>0, <1>a, <1>5 DEF ObserveFails, Idle, RowsHeld, Floor, Sealing, RecordInTrial
  <2>3. CurrentRead'
    BY <1>0, <1>a, <1>b, <2>1, <2>2, <1>5 DEF ObserveFails, CurrentRead, ReadPrimary,
       NewestRows
  <2> QED
    BY <2>1, <2>2, <2>3
<1>6. ASSUME NEW i \in Ids, NEW e \in Entry, SealRecord(i, e)
      PROVE (FloorHeld /\ RowsHeld /\ CurrentRead)'
  <2>1. FloorHeld'
    BY <1>0, <1>a, <1>6 DEF SealRecord, MayActivate, FloorHeld, FloorReads, CurrentRead,
       Floor
  <2>2. RowsHeld'
    BY <1>0, <1>a, <1>6 DEF SealRecord, MayActivate, RowsHeld, Floor, Sealing, RecordInTrial
  <2>3. CurrentRead'
    BY <1>0, <1>a, <1>b, <2>1, <2>2, <1>6 DEF SealRecord, CurrentRead
  <2> QED
    BY <2>1, <2>2, <2>3
<1>7. ASSUME NEW i \in Ids, NEW e \in Entry, SealRecordFails(i, e)
      PROVE (FloorHeld /\ RowsHeld /\ CurrentRead)'
  <2>1. FloorHeld'
    BY <1>0, <1>a, <1>7 DEF SealRecordFails, FloorHeld, Floor, Sealing
  <2>2. RowsHeld'
    BY <1>0, <1>a, Landed, <1>7 DEF SealRecordFails, MayActivate, RowsHeld, Floor, Sealing,
       RecordInTrial
  <2>3. CurrentRead'
    BY <1>0, <1>a, <1>b, <2>1, <2>2, Landed, <1>7 DEF SealRecordFails, CurrentRead,
       ReadPrimary, NewestRows
  <2> QED
    BY <2>1, <2>2, <2>3
<1>8. CASE SealRows
  <2>1. FloorHeld'
    BY <1>0, <1>a, <1>8 DEF SealRows, FloorHeld, Floor, Sealing
  <2>2. RowsHeld'
    BY <1>0, <1>a, <1>8 DEF SealRows, SealedRows, RowsHeld, Floor, Sealing, VerbKnows
  <2>3. CurrentRead'
    BY <1>0, <1>a, <1>b, <2>1, <2>2, <1>8 DEF SealRows, CurrentRead
  <2> QED
    BY <2>1, <2>2, <2>3
<1>9. CASE SealRowsFails
  <2>1. FloorHeld'
    BY <1>0, <1>a, <1>9 DEF SealRowsFails, Idle, FloorHeld, Floor, Sealing
  <2>2. RowsHeld'
    BY <1>0, <1>a, Landed, ToldFault, <1>9 DEF SealRowsFails, RowsHeld, Floor, Sealing
  <2>3. CurrentRead'
    BY <1>0, <1>a, <1>b, <2>1, <2>2, ToldFault, <1>9 DEF SealRowsFails, CurrentRead
  <2> QED
    BY <2>1, <2>2, <2>3
<1>10. CASE SealUndo
  <2>1. FloorHeld'
    BY <1>0, <1>a, <1>10 DEF SealUndo, Idle, FloorHeld, Floor, Sealing
  <2>2. RowsHeld'
    BY <1>0, <1>a, <1>10 DEF SealUndo, Idle, RowsHeld, Floor, RecordInTrial, VerbKnows
  <2>3. CurrentRead'
    <3>1. mgr' = mgr /\ mgr.current = past.floor /\ past' = past
      BY <1>0, <1>10 DEF SealUndo, FloorHeld, Sealing, VerbKnows
    <3>2. ~RecordInTrial'
      BY <1>10 DEF SealUndo, RecordInTrial
    <3> QED
      BY <1>b, <2>1, <2>2, <3>1, <3>2 DEF FloorReads, CurrentRead
  <2> QED
    BY <2>1, <2>2, <2>3
<1>11. CASE SealUndoFails
  <2>1. FloorHeld'
    BY <1>0, <1>a, <1>11 DEF SealUndoFails, Idle, FloorHeld, Floor, Sealing
  <2>2. RowsHeld'
    BY <1>0, <1>a, ToldFault, <1>11 DEF SealUndoFails
  <2>3. CurrentRead'
    BY <1>0, <1>a, <1>b, <2>1, <2>2, ToldFault, <1>11 DEF SealUndoFails
  <2> QED
    BY <2>1, <2>2, <2>3
<1>12. CASE SealHeader
  <2>1. FloorHeld'
    BY <1>0, <1>a, <1>12 DEF SealHeader, SealAdopt, Idle, FloorHeld, Floor, Sealing
  <2>2. RowsHeld'
    BY <1>0, <1>a, <1>12 DEF Fields, SealHeader, SealAdopt, RowsHeld, Floor, RecordInTrial,
       VerbKnows
  <2>3. CurrentRead'
    <3>1. UNCHANGED <<primary, rows, committed>> /\ mgr'.current = mgr.pending
      BY <1>0, <1>12 DEF SealHeader, SealAdopt
    <3>2. mgr.pending \in [Ids -> Entry] /\ primary.rows = Restriction(mgr.pending, RecordIds)
      BY <1>0, <1>12 DEF SealHeader, Fields, Up, MgrType, MemoryHeld
    <3>3. ReadPrimary' = ReadPrimary
      BY <3>1 DEF ReadPrimary, NewestRows
    <3>4. ReadPrimary = mgr.pending
      <4>1. CASE ManagerIds = {}
        BY <3>2, <4>1, RecordAlone DEF ReadPrimary
      <4>2. CASE ManagerIds # {}
        BY <1>0, <1>12, <3>2, <4>2, UnionOf DEF SealHeader, RowsHeld, ReadPrimary
      <4> QED
        BY <4>1, <4>2
    <3> QED
      BY <3>1, <3>3, <3>4 DEF CurrentRead
  <2> QED
    BY <2>1, <2>2, <2>3
<1>13. CASE SealHeaderFails
  <2>1. FloorHeld'
    BY <1>0, <1>a, <1>13 DEF SealHeaderFails, SealAdopt, Idle, FloorHeld, Floor, Sealing
  <2>2. RowsHeld'
    BY <1>0, <1>a, <1>13 DEF Fields, SealHeaderFails, SealAdopt, RowsHeld, Floor,
       RecordInTrial, VerbKnows
  <2>3. CurrentRead'
    <3>1. UNCHANGED <<primary, rows, committed>> /\ mgr'.current = mgr.pending
      BY <1>0, <1>13 DEF SealHeaderFails, SealAdopt
    <3>2. mgr.pending \in [Ids -> Entry] /\ primary.rows = Restriction(mgr.pending, RecordIds)
      BY <1>0, <1>13 DEF SealHeaderFails, Fields, Up, MgrType, MemoryHeld
    <3>3. ReadPrimary' = ReadPrimary
      BY <3>1 DEF ReadPrimary, NewestRows
    <3>4. ReadPrimary = mgr.pending
      <4>1. CASE ManagerIds = {}
        BY <3>2, <4>1, RecordAlone DEF ReadPrimary
      <4>2. CASE ManagerIds # {}
        BY <1>0, <1>13, <3>2, <4>2, UnionOf DEF SealHeaderFails, RowsHeld, ReadPrimary
      <4> QED
        BY <4>1, <4>2
    <3> QED
      BY <3>1, <3>3, <3>4 DEF CurrentRead
  <2> QED
    BY <2>1, <2>2, <2>3
<1>14. CASE CommitRecord
  <2>0. /\ UNCHANGED <<primary, rows, committed, mgr>> /\ secondary' = primary
        /\ op'.pc = "commit_rows" /\ op'.gen = primary.gen /\ op.pc = "serving"
    BY <1>14 DEF CommitRecord, Idle
  <2>a. past'.floor = mgr.current /\ mgr.current = ReadPrimary
    BY <1>0, <2>0, <1>14 DEF CommitRecord, CurrentRead
  <2>b. mgr.current \in [Ids -> Entry] /\ primary.rows = Restriction(mgr.current, RecordIds)
    BY <1>0, <2>a, ReadsParts, ReadsType
  <2>1. FloorHeld'
    BY <2>0, <2>a, <2>b DEF FloorHeld, Floor
  <2>2. RowsHeld'
    <3> SUFFICES ASSUME ManagerIds # {} PROVE RowsHeld'
      BY DEF RowsHeld
    <3>1. rows.gen = primary.gen \/ committed.gen = primary.gen
      BY <1>0, <2>0 DEF RowsHeld, Sealing, RecordInTrial
    <3>2. rows.gen = primary.gen => rows.rows = Restriction(mgr.current, ManagerIds)
      <4>1. ASSUME NEW r \in [RecordIds -> Entry], NEW m \in [ManagerIds -> Entry]
            PROVE  Restriction(Union(r, m), ManagerIds) = m
        BY IdsAssumption DEF Restriction, Union, Ids
      <4> QED
        BY <1>0, <2>a, <4>1 DEF ReadPrimary, StoreType, Row
    <3>3. committed.gen = primary.gen => committed.rows = Restriction(mgr.current, ManagerIds)
      <4> SUFFICES ASSUME committed.gen = primary.gen
                   PROVE  committed.rows = Restriction(mgr.current, ManagerIds)
        OBVIOUS
      <4>1. ~RecordInTrial /\ committed.rows = Floor(ManagerIds)
        BY <1>0, <2>0 DEF RowsHeld, RecordInTrial
      <4> QED
        BY <1>a, <2>a, <4>1 DEF FloorReads, Floor
    <3> QED
      BY <2>0, <2>a, <3>1, <3>2, <3>3 DEF RowsHeld, Floor, RecordInTrial
  <2>3. CurrentRead'
    BY <2>0, <2>a DEF CurrentRead, ReadPrimary, NewestRows
  <2> QED
    BY <2>1, <2>2, <2>3
<1>15. CASE CommitRecordFails
  <2>1. FloorHeld'
    BY <1>0, <1>a, Landed, <1>15 DEF CommitRecordFails, FloorHeld, Floor, Sealing
  <2>2. RowsHeld'
    BY <1>0, <1>a, Landed, <1>15 DEF CommitRecordFails, RowsHeld, Floor, Sealing,
       RecordInTrial
  <2>3. CurrentRead'
    BY <1>0, <1>a, <1>b, <2>1, <2>2, <1>15 DEF CommitRecordFails, CurrentRead, ReadPrimary,
       NewestRows
  <2> QED
    BY <2>1, <2>2, <2>3
<1>16. CASE CommitRows
  <2>1. FloorHeld'
    BY <1>0, <1>a, <1>16 DEF CommitRows, FloorHeld, Floor
  <2>2. RowsHeld'
    BY <1>0, <1>a, <1>16 DEF CommitRows, Idle, CommittedRows, RowsHeld, Floor,
       RecordInTrial, VerbKnows
  <2>3. CurrentRead'
    BY <1>0, <1>a, <1>b, <2>1, <2>2, <1>16 DEF CommitRows, CurrentRead, FloorReads,
       RecordInTrial, VerbKnows
  <2> QED
    BY <2>1, <2>2, <2>3
<1>17. CASE CommitNoRows
  <2>1. HasRowsAt(op.gen)
    BY <1>0, <1>17 DEF CommitNoRows, RowsHeld, HasRowsAt, RoutesEverything
  <2> QED
    BY <1>17, <2>1 DEF CommitNoRows
<1>18. CASE CommitRowsFails
  <2>1. FloorHeld'
    BY <1>0, <1>a, ToldFault, <1>18 DEF CommitRowsFails
  <2>2. RowsHeld'
    BY <1>0, <1>a, ToldFault, <1>18 DEF CommitRowsFails
  <2>3. CurrentRead'
    BY <1>0, <1>a, <1>b, <2>1, <2>2, <1>18 DEF CommitRowsFails, CurrentRead, FloorReads,
       RecordInTrial, VerbKnows
  <2> QED
    BY <2>1, <2>2, <2>3
<1>19. CASE RollbackNothing
  <2>1. FloorHeld'
    BY <1>0, <1>a, <1>19 DEF RollbackNothing, store, FloorHeld, Floor, Sealing
  <2>2. RowsHeld'
    BY <1>0, <1>a, <1>19 DEF RollbackNothing, store, RowsHeld, Floor, Sealing, RecordInTrial
  <2>3. CurrentRead'
    BY <1>0, <1>a, <1>b, <2>1, <2>2, <1>19 DEF RollbackNothing, store, CurrentRead,
       ReadPrimary, NewestRows
  <2> QED
    BY <2>1, <2>2, <2>3
<1>20. CASE RollbackRefused
  <2>1. FloorHeld'
    BY <1>0, <1>a, <1>20 DEF RollbackRefused, CanRollback, Idle, store, FloorHeld, Floor,
       Sealing
  <2>2. RowsHeld'
    BY <1>0, <1>a, <1>20 DEF RollbackRefused, CanRollback, Idle, store, RowsHeld, Floor,
       Sealing, RecordInTrial
  <2>3. CurrentRead'
    BY <1>0, <1>a, <1>b, <2>1, <2>2, <1>20 DEF RollbackRefused, CanRollback, store,
       CurrentRead, ReadPrimary, NewestRows
  <2> QED
    BY <2>1, <2>2, <2>3
<1>21. CASE RollbackHeader
  <2>1. FloorHeld'
    BY <1>0, <1>a, <1>21 DEF RollbackHeader, CanRollback, Idle, FloorHeld, Floor, Sealing
  <2>2. RowsHeld'
    BY <1>0, <1>a, <1>21 DEF RollbackHeader, CanRollback, Idle, RowsHeld, Floor, Sealing,
       RecordInTrial
  <2>3. CurrentRead'
    BY <1>0, <1>a, <1>b, <2>1, <2>2, <1>21 DEF RollbackHeader, CanRollback, CurrentRead,
       ReadPrimary, NewestRows
  <2> QED
    BY <2>1, <2>2, <2>3
<1>22. CASE RollbackHeaderFails
  <2>1. FloorHeld'
    BY <1>0, <1>a, <1>22 DEF RollbackHeaderFails, CanRollback, Idle, FloorHeld, Floor,
       Sealing
  <2>2. RowsHeld'
    BY <1>0, <1>a, <1>22 DEF RollbackHeaderFails, CanRollback, Idle, RowsHeld, Floor,
       Sealing, RecordInTrial
  <2>3. CurrentRead'
    BY <1>0, <1>a, <1>b, <2>1, <2>2, <1>22 DEF RollbackHeaderFails, CanRollback,
       CurrentRead, ReadPrimary, NewestRows
  <2> QED
    BY <2>1, <2>2, <2>3
<1>23. CASE RollbackRecord
  <2>1. FloorHeld'
    BY <1>0, <1>a, <1>23 DEF RollbackRecord, FloorHeld, Floor, Sealing
  <2>2. RowsHeld'
    BY <1>0, <1>a, <1>23 DEF RollbackRecord, RowsHeld, Floor, Sealing, RecordInTrial
  <2>3. CurrentRead'
    BY <1>0, <1>a, <1>b, <2>1, <2>2, <1>23 DEF RollbackRecord, CurrentRead
  <2> QED
    BY <2>1, <2>2, <2>3
<1>24. CASE RollbackRecordFails
  <2>1. FloorHeld'
    BY <1>0, <1>a, <1>24 DEF RollbackRecordFails, Idle, FloorHeld, Floor, Sealing
  <2>2. RowsHeld'
    BY <1>0, <1>a, Landed, <1>24 DEF RollbackRecordFails, Idle, RowsHeld, Floor, Sealing,
       RecordInTrial
  <2>3. CurrentRead'
    BY <1>0, <1>a, <1>b, <2>1, <2>2, Landed, <1>24 DEF RollbackRecordFails, CurrentRead,
       ReadPrimary, NewestRows
  <2> QED
    BY <2>1, <2>2, <2>3
<1>25. CASE RollbackRows
  <2>1. FloorHeld'
    BY <1>0, <1>a, <1>25 DEF RollbackRows, RollbackAdopt, FloorHeld, Floor
  <2>2. RowsHeld'
    BY <1>0, <1>a, <1>25 DEF RollbackRows, RollbackAdopt, FloorRows, Idle, RowsHeld, Floor,
       RecordInTrial, VerbKnows
  <2>3. CurrentRead'
    BY <1>0, <1>a, <1>b, <2>1, <2>2, <1>25 DEF RollbackRows, RollbackAdopt, CurrentRead,
       FloorReads, FloorHeld, RecordInTrial, VerbKnows
  <2> QED
    BY <2>1, <2>2, <2>3
<1>26. CASE RollbackRowsFails
  <2>1. FloorHeld'
    BY <1>0, <1>a, <1>26 DEF RollbackRowsFails, RollbackAdopt, FloorHeld, Floor
  <2>2. RowsHeld'
    BY <1>0, <1>a, Landed, <1>26 DEF RollbackRowsFails, RollbackAdopt, Idle, RowsHeld,
       Floor, Sealing, RecordInTrial
  <2>3. CurrentRead'
    BY <1>0, <1>a, <1>b, <2>1, <2>2, <1>26 DEF RollbackRowsFails, RollbackAdopt,
       CurrentRead, FloorReads, FloorHeld, RecordInTrial, VerbKnows
  <2> QED
    BY <2>1, <2>2, <2>3
<1>27. CASE Stop
  <2>1. FloorHeld'
    BY <1>0, <1>a, <1>27 DEF Stop, GoDown, Idle, store, FloorHeld, Floor, Sealing
  <2>2. RowsHeld'
    BY <1>0, <1>a, RowsKeptStop, <1>27 DEF Stop, GoDown, Idle, store, RowsHeld, Floor,
       RecordInTrial
  <2>3. CurrentRead'
    BY <1>0, <1>a, <1>b, <2>1, <2>2, <1>27 DEF Stop, GoDown, Idle, CurrentRead
  <2> QED
    BY <2>1, <2>2, <2>3
<1>28. CASE Reset
  <2>1. FloorHeld'
    BY <1>0, <1>a, <1>28 DEF Reset, GoDown, Idle, store, FloorHeld, Floor, Sealing
  <2>2. RowsHeld'
    BY <1>0, <1>a, <1>28 DEF Reset, GoDown, Idle, store, RowsHeld, Floor, Sealing,
       RecordInTrial
  <2>3. CurrentRead'
    BY <1>0, <1>a, <1>b, <2>1, <2>2, <1>28 DEF Reset, GoDown, Idle, CurrentRead
  <2> QED
    BY <2>1, <2>2, <2>3
<1>29. CASE BootStageRollback
  <2>1. FloorHeld'
    BY <1>0, <1>a, <1>29 DEF BootStageRollback, FloorHeld, Floor, Sealing
  <2>2. RowsHeld'
    BY <1>0, <1>a, <1>29 DEF BootStageRollback, RowsHeld, Floor, Sealing, RecordInTrial
  <2>3. CurrentRead'
    BY <1>0, <1>a, <1>b, <2>1, <2>2, <1>29 DEF BootStageRollback, CurrentRead
  <2> QED
    BY <2>1, <2>2, <2>3
<1>30. CASE UNCHANGED vars
  BY <1>0, <1>30 DEF vars, FloorHeld, RowsHeld, CurrentRead, Floor, Sealing, RecordInTrial,
     ReadPrimary, NewestRows
<1> QED
  BY <1>1, <1>2, <1>3, <1>4, <1>5, <1>6, <1>7, <1>8, <1>9, <1>10, <1>11, <1>12, <1>13,
     <1>14, <1>15, <1>16, <1>17, <1>18, <1>19, <1>20, <1>21, <1>22, <1>23, <1>24, <1>25,
     <1>26, <1>27, <1>28, <1>29, <1>30
     DEF Next, Start, Seal, Commit, Rollback

\* A seeded node boots its floor.
LEMMA FloorInit == Init => FloorInv
<1> SUFFICES ASSUME Init PROVE FloorHeld /\ RowsHeld /\ CurrentRead
  BY MemoryInit DEF FloorInv
<1>1. /\ op.pc = "serving" /\ primary.gen = 1 /\ secondary.gen = 1 /\ rows.gen = 1
      /\ committed.gen = 1 /\ mgr.committed = past.floor /\ mgr.current = past.floor
      /\ primary.rows = Floor(RecordIds) /\ secondary.rows = Floor(RecordIds)
      /\ rows.rows = Floor(ManagerIds) /\ committed.rows = Floor(ManagerIds)
  BY DEF Init, Idle, Floor
<1>2. FloorHeld /\ RowsHeld
  BY <1>1 DEF FloorHeld, RowsHeld
<1>3. FloorReads
  BY <1>2, OrderInit, FloorRead DEF OrderInv
<1> QED
  BY <1>1, <1>2, <1>3 DEF CurrentRead, FloorReads, RecordInTrial

\* What the floor's invariant says of the reads.
LEMMA FloorInvReads == FloorInv /\ RowsKept => FloorReads
BY FloorRead DEF FloorInv, MemoryInv, OrderInv

\* The rollback floor is the vector the last commit verdict was given for, manager
\* rows included.  (read_secondary over what commit, activate and rollback write.)
THEOREM FloorKept == Spec => []FloorIntact
<1>1. FloorInv => FloorIntact
  BY FloorInvReads DEF FloorIntact, FloorReads
<1> QED
  BY <1>1, FloorInit, FloorStep, PTL DEF Spec

\* A node out of trial boots the floor, and no row of a trial that was given up.
\* (read_primary over what rollback and the boot stage leave.)
THEOREM FloorBoots == Spec => []OutOfTrialBootsFloor
<1>1. FloorInv => OutOfTrialBootsFloor
  BY FloorInvReads DEF OutOfTrialBootsFloor, FloorReads
<1> QED
  BY <1>1, FloorInit, FloorStep, PTL DEF Spec

\* Between verbs the manager holds the vector and the floor a restart would read.
\* (seal, commit and rollback persist first and move memory only on success.)
THEOREM MemoryIsStore == Spec => []MemoryMatchesStore
<1>1. FloorInv => MemoryMatchesStore
  BY FloorInvReads DEF MemoryMatchesStore, FloorReads, FloorInv, FloorHeld, CurrentRead
<1> QED
  BY <1>1, FloorInit, FloorStep, PTL DEF Spec

----------------------------------------------------------------------------
(* The count of trial boots.                                               *)

\* The activations the headers were recorded for; the one being sealed is new.
SealsKnown ==
    /\ header.tx.seal <= seals
    /\ Up => mgr.tx.seal <= seals
    /\ Sealing => /\ header.tx.seal < primary.seal /\ mgr.tx.seal < primary.seal
                  /\ op.tx.armed = boot /\ op.tx.boots = 0

\* A count in boot b, s boots after arming: at most s, and less while b is uncounted.
CountWithin(tx, b, s) ==
    /\ tx.boots <= s
    /\ b \notin {tx.armed, tx.counted} => tx.boots < s \/ s = MaxTrialBoots

\* The stored count of the standing trial, and the one in memory.
HeaderCount ==
    RecordInTrial /\ header.tx.armed # 0 /\ header.tx.seal = primary.seal
      /\ ReadPrimary # ReadSecondary => CountWithin(header.tx, boot, past.since)
MemoryCount ==
    Up /\ RecordInTrial /\ InTrial /\ mgr.tx.armed # 0 /\ mgr.tx.seal = primary.seal
      => CountWithin(mgr.tx, boot, past.since)
\* The manager was just loaded.
Loaded == op.pc = "observe" => mgr.current = ReadPrimary /\ mgr.committed = ReadSecondary

CountInv == OrderInv /\ SealsKnown /\ HeaderCount /\ MemoryCount /\ Loaded

\* The reads follow the record and the side files.
LEMMA ReadsKept ==
    UNCHANGED <<primary, secondary, rows, committed>>
      => UNCHANGED <<ReadPrimary, ReadSecondary, RecordInTrial>>
BY DEF ReadPrimary, ReadSecondary, NewestRows, RecordInTrial

\* Counting this boot.
LEMMA CountOne ==
    ASSUME NEW b \in Nat, NEW s \in Nat, NEW m \in Nat, b <= s, s <= m, b < s \/ s = m
    PROVE  Smaller(b + 1, m) <= s
BY DEF Smaller

\* A boot that is not counted yet.
LEMMA CountBoot ==
    ASSUME NEW b \in Nat, NEW s \in Nat, NEW m \in Nat, b <= s, s <= m
    PROVE  b <= Smaller(s + 1, m) /\ (b < Smaller(s + 1, m) \/ Smaller(s + 1, m) = m)
BY DEF Smaller

\* A boot leaves a count within.
LEMMA WithinDown ==
    ASSUME TypeOK, NEW tx \in TxType, CountWithin(tx, boot, past.since), NEW b, GoDown(b)
    PROVE  CountWithin(tx, boot', past'.since)
<1>1. /\ past.since \in Nat /\ past.since <= MaxTrialBoots /\ tx.boots \in Nat
      /\ MaxTrialBoots \in Nat /\ past \in PastType
  BY NumTypes, MaxTrialBootsAssumption DEF Fields, PastType, TxType
<1>2. boot' = b /\ past'.since = IF b = boot THEN past.since
                                            ELSE Smaller(past.since + 1, MaxTrialBoots)
  BY <1>1 DEF GoDown, PastType
<1>3. CASE b = boot
  BY <1>2, <1>3 DEF CountWithin
<1>4. CASE b # boot
  BY <1>1, <1>2, <1>4, CountBoot DEF CountWithin
<1> QED
  BY <1>3, <1>4

\* Counting the boot leaves the count within.
LEMMA WithinCounted ==
    ASSUME TypeOK, Up, ~Counted, CountWithin(mgr.tx, boot, past.since)
    PROVE  CountWithin(CountedTx, boot, past.since)
<1>1. /\ past.since \in Nat /\ past.since <= MaxTrialBoots /\ mgr.tx.boots \in Nat
      /\ MaxTrialBoots \in Nat /\ mgr.tx \in TxType
  BY NumTypes, MaxTrialBootsAssumption DEF Fields, PastType, TxType
<1>2. CountedTx.boots = Smaller(mgr.tx.boots + 1, MaxTrialBoots) /\ CountedTx.counted = boot
  BY <1>1 DEF CountedTx, TxType
<1>3. CountedTx.boots <= past.since
  BY <1>1, <1>2, CountOne DEF CountWithin, Counted
<1> QED
  BY <1>2, <1>3 DEF CountWithin

\* The activations of the headers the actions write.
LEMMA TxSeals ==
    ASSUME Fields
    PROVE  /\ BootStageTx.seal = primary.seal /\ NoTx.seal = 0 /\ NoTx.armed = 0
           /\ Up => CountedTx.seal = mgr.tx.seal /\ RollbackTx.seal = secondary.seal
<1>1. BootStageTx.seal = primary.seal /\ NoTx.seal = 0 /\ NoTx.armed = 0
  BY DEF BootStageTx, NoTx, Tx
<1>2. Up => CountedTx.seal = mgr.tx.seal
  BY DEF CountedTx
<1>3. Up => RollbackTx.seal = secondary.seal
  BY DEF RollbackTx
<1> QED
  BY <1>1, <1>2, <1>3

\* The step of SealsKnown.
LEMMA SealsStep == ASSUME OrderInv, SealsKnown, [Next]_vars PROVE SealsKnown'
<1>0. Fields /\ StoreType /\ RunType /\ RecordOrder /\ VerbKnows /\ SealsKnown
  BY NumTypes DEF OrderInv

<1>1. CASE Load
  <2>1. op'.pc = "observe" /\ UNCHANGED <<primary, seals>>
    BY <1>1 DEF Load, Idle
  <2>2. /\ header' \in {header, [gen |-> primary.gen, tx |-> BootStageTx]}
        /\ mgr'.tx \in {header.tx, BootStageTx, NoTx}
    BY <1>1 DEF Load, Adopt
  <2> QED
    BY <1>0, <2>1, <2>2, TxSeals DEF Fields, SealsKnown, Sealing, RecordOrder
<1>2. CASE LoadUnrecorded
  <2>1. op'.pc = "observe" /\ UNCHANGED <<primary, seals>>
    BY <1>2 DEF LoadUnrecorded, Idle
  <2>2. /\ header' \in {header, [gen |-> primary.gen, tx |-> BootStageTx]}
        /\ mgr'.tx = NoTx
    BY <1>2, FailedWrite DEF LoadUnrecorded, Adopt
  <2> QED
    BY <1>0, <2>1, <2>2, TxSeals DEF Fields, SealsKnown, Sealing, RecordOrder
<1>3. CASE ObserveUncounted
  BY <1>0, <1>3 DEF Up, ObserveUncounted, AfterCount, Idle, store, SealsKnown, Sealing
<1>4. CASE ObserveCounted
  BY <1>0, <1>4 DEF Fields, Up, MgrType, TxType, ObserveCounted, AfterCount, Idle,
     CountedTx, SealsKnown, Sealing
<1>5. CASE ObserveFails
  <2>1. op'.pc = "serving" /\ UNCHANGED <<mgr, seals>> /\ op.pc = "observe"
    BY <1>5 DEF ObserveFails, Idle
  <2>2. header' \in {header, [gen |-> mgr.gen, tx |-> CountedTx]}
    BY <1>5, FailedWrite DEF ObserveFails
  <2> QED
    BY <1>0, <2>1, <2>2, TxSeals DEF Up, SealsKnown, Sealing
<1>6. ASSUME NEW i \in Ids, NEW e \in Entry, SealRecord(i, e)
      PROVE SealsKnown'
  BY <1>0, <1>6 DEF Fields, Up, TxType, SealRecord, MayActivate, Tx, SealsKnown
<1>7. ASSUME NEW i \in Ids, NEW e \in Entry, SealRecordFails(i, e)
      PROVE SealsKnown'
  BY <1>0, <1>7 DEF Fields, Up, TxType, SealRecordFails, MayActivate, SealsKnown, Sealing
<1>8. CASE SealRows
  BY <1>0, <1>8 DEF Up, SealRows, SealsKnown, Sealing
<1>9. CASE SealRowsFails
  BY <1>0, <1>9 DEF Up, SealRowsFails, Idle, SealsKnown, Sealing
<1>10. CASE SealUndo
  BY <1>0, <1>10 DEF Up, SealUndo, Idle, SealsKnown, Sealing
<1>11. CASE SealUndoFails
  BY <1>0, <1>11 DEF Up, SealUndoFails, Idle, SealsKnown, Sealing
<1>12. CASE SealHeader
  BY <1>0, <1>12 DEF SealHeader, SealAdopt, Idle, SealsKnown, Sealing, RecordOrder,
     VerbKnows
<1>13. CASE SealHeaderFails
  BY <1>0, FailedWrite, <1>13 DEF SealHeaderFails, SealAdopt, Idle, SealsKnown, Sealing,
     RecordOrder, VerbKnows
<1>14. CASE CommitRecord
  BY <1>0, <1>14 DEF Up, CommitRecord, Idle, SealsKnown, Sealing
<1>15. CASE CommitRecordFails
  BY <1>0, <1>15 DEF Up, CommitRecordFails, SealsKnown, Sealing
<1>16. CASE CommitRows
  BY <1>0, <1>16 DEF Up, CommitRows, Idle, SealsKnown, Sealing
<1>17. CASE CommitNoRows
  BY <1>0, <1>17 DEF Up, CommitNoRows, Idle, store, SealsKnown, Sealing
<1>18. CASE CommitRowsFails
  BY <1>0, <1>18 DEF Up, CommitRowsFails, Idle, SealsKnown, Sealing
<1>19. CASE RollbackNothing
  BY <1>0, <1>19 DEF Up, RollbackNothing, store, SealsKnown, Sealing
<1>20. CASE RollbackRefused
  BY <1>0, <1>20 DEF Up, RollbackRefused, CanRollback, Idle, store, SealsKnown, Sealing
<1>21. CASE RollbackHeader
  <2>1. op'.pc = "rollback_record" /\ UNCHANGED <<mgr, seals>> /\ Up
    BY <1>21 DEF RollbackHeader, CanRollback, Idle, Up
  <2>2. header' = [gen |-> secondary.gen, tx |-> RollbackTx]
    BY <1>21 DEF RollbackHeader, FloorHeader
  <2> QED
    BY <1>0, <2>1, <2>2, TxSeals DEF Fields, SealsKnown, Sealing, RecordOrder
<1>22. CASE RollbackHeaderFails
  <2>1. op'.pc = "serving" /\ UNCHANGED <<mgr, seals>> /\ Up
    BY <1>22 DEF RollbackHeaderFails, CanRollback, Idle, Up
  <2>2. header' \in {header, [gen |-> secondary.gen, tx |-> RollbackTx]}
    BY <1>22, FailedWrite DEF RollbackHeaderFails, FloorHeader
  <2> QED
    BY <1>0, <2>1, <2>2, TxSeals DEF Fields, SealsKnown, Sealing, RecordOrder
<1>23. CASE RollbackRecord
  BY <1>0, <1>23 DEF Up, RollbackRecord, SealsKnown, Sealing
<1>24. CASE RollbackRecordFails
  BY <1>0, <1>24 DEF Up, RollbackRecordFails, Idle, SealsKnown, Sealing
<1>25. CASE RollbackRows
  BY <1>0, <1>25 DEF RollbackRows, RollbackAdopt, Idle, SealsKnown, Sealing, RollingBack,
     RecordOrder, VerbKnows
<1>26. CASE RollbackRowsFails
  BY <1>0, <1>26 DEF RollbackRowsFails, RollbackAdopt, Idle, SealsKnown, Sealing,
     RollingBack, RecordOrder, VerbKnows
<1>27. CASE Stop
  BY <1>0, <1>27 DEF Up, Stop, GoDown, Idle, store, SealsKnown, Sealing
<1>28. CASE Reset
  BY <1>0, <1>28 DEF Up, Reset, GoDown, Idle, store, SealsKnown, Sealing
<1>29. CASE BootStageRollback
  BY <1>0, <1>29 DEF Up, BootStageRollback, SealsKnown, Sealing
<1>30. CASE UNCHANGED vars
  BY <1>0, <1>30 DEF vars, SealsKnown, Sealing, Up
<1> QED
  BY <1>1, <1>2, <1>3, <1>4, <1>5, <1>6, <1>7, <1>8, <1>9, <1>10, <1>11, <1>12, <1>13,
     <1>14, <1>15, <1>16, <1>17, <1>18, <1>19, <1>20, <1>21, <1>22, <1>23, <1>24, <1>25,
     <1>26, <1>27, <1>28, <1>29, <1>30
     DEF Next, Start, Seal, Commit, Rollback

\* Each step leaves the counts within the boots since arming.
LEMMA CountStep == CountInv /\ [Next]_vars => CountInv'
<1> SUFFICES ASSUME CountInv, [Next]_vars PROVE (HeaderCount /\ MemoryCount /\ Loaded)'
  BY OrderStep, SealsStep DEF CountInv
<1>0. /\ Fields /\ StoreType /\ RunType /\ TypeOK /\ RecordOrder /\ VerbKnows /\ HeaderPlaced
      /\ SealsKnown /\ HeaderCount /\ MemoryCount /\ Loaded /\ RecordOrder'
  BY NumTypes, OrderStep DEF CountInv, OrderInv
<1>1. CASE Load
  <2>1. HeaderCount'
    <3>1. UNCHANGED <<primary, secondary, rows, committed, boot, past>>
      BY <1>1 DEF Load
    <3>2. header' = header \/ ReadPrimary = ReadSecondary
      BY <1>1 DEF Load, BootStageActed
    <3> QED
      BY <1>0, <3>1, <3>2, ReadsKept DEF HeaderCount, RecordInTrial
  <2>2. MemoryCount'
    <3>1. /\ UNCHANGED <<primary, secondary, boot, past>>
          /\ mgr'.current = ReadPrimary /\ mgr'.committed = ReadSecondary
      BY <1>1 DEF Load, Adopt
    <3>2. mgr'.tx \in {header.tx, NoTx} \/ ReadPrimary = ReadSecondary
      BY <1>1 DEF Load, Adopt, BootStageActed
    <3> QED
      BY <1>0, <3>1, <3>2, TxSeals DEF MemoryCount, HeaderCount, InTrial, RecordInTrial
  <2>3. Loaded'
    BY <1>0, ReadsKept, <1>1 DEF Load, Adopt, Loaded
  <2> QED
    BY <2>1, <2>2, <2>3
<1>2. CASE LoadUnrecorded
  <2>1. HeaderCount'
    BY <1>0, ReadsKept, <1>2 DEF LoadUnrecorded, BootStageActed, HeaderCount
  <2>2. MemoryCount'
    BY <1>0, <1>2 DEF LoadUnrecorded, Adopt, NoTx, Tx, MemoryCount
  <2>3. Loaded'
    BY <1>0, ReadsKept, <1>2 DEF LoadUnrecorded, Adopt, Loaded
  <2> QED
    BY <2>1, <2>2, <2>3
<1>3. CASE ObserveUncounted
  <2>1. HeaderCount'
    BY <1>0, ReadsKept, <1>3 DEF Fields, PastType, ObserveUncounted, AfterCount, store,
       HeaderCount
  <2>2. MemoryCount'
    BY <1>0, <1>3 DEF Fields, Up, PastType, ObserveUncounted, AfterCount, store,
       RecordInTrial, MemoryCount, InTrial
  <2>3. Loaded'
    BY <1>0, <1>3 DEF ObserveUncounted, AfterCount, Idle, Loaded
  <2> QED
    BY <2>1, <2>2, <2>3
<1>4. CASE ObserveCounted
  <2>1. /\ UNCHANGED <<primary, secondary, rows, committed, boot>> /\ op.pc = "observe"
        /\ header' = [gen |-> mgr.gen, tx |-> CountedTx]
        /\ ~Counted /\ InTrial /\ mgr.tx.armed # 0
    BY <1>4 DEF ObserveCounted, Armed
  <2>2. /\ mgr'.tx = CountedTx /\ mgr'.current = mgr.current /\ mgr'.committed = mgr.committed
        /\ CountedTx.seal = mgr.tx.seal
    BY <1>0, <1>4, <2>1, TxSeals DEF ObserveCounted, Up
  <2>3. past'.since = past.since /\ op'.pc \in {"bail", "serving"}
    BY <1>0, <1>4, AfterCountPast DEF ObserveCounted, Fields
  <2>4. RecordInTrial /\ mgr.tx.seal = primary.seal => CountWithin(CountedTx, boot, past.since)
    BY <1>0, <2>1, WithinCounted DEF MemoryCount, Up
  <2> QED
    BY <2>1, <2>2, <2>3, <2>4, ReadsKept DEF HeaderCount, MemoryCount, Loaded
<1>5. CASE ObserveFails
  <2>1. HeaderCount'
    <3>1. /\ UNCHANGED <<primary, secondary, rows, committed, boot, mgr>> /\ op.pc = "observe"
          /\ ~Counted /\ InTrial /\ mgr.tx.armed # 0
      BY <1>5 DEF ObserveFails, Armed
    <3>2. header' \in {header, [gen |-> mgr.gen, tx |-> CountedTx]}
      BY <1>5, FailedWrite DEF ObserveFails
    <3>3. past'.since = past.since
      BY <1>0, <1>5 DEF ObserveFails
    <3>4. RecordInTrial /\ CountedTx.seal = primary.seal => CountWithin(CountedTx, boot, past.since)
      BY <1>0, <3>1, TxSeals, WithinCounted DEF MemoryCount, Up
    <3> QED
      BY <1>0, <3>1, <3>2, <3>3, <3>4, ReadsKept DEF HeaderCount, RecordInTrial
  <2>2. MemoryCount'
    BY <1>0, <1>5 DEF Up, ObserveFails, RecordInTrial, MemoryCount, InTrial
  <2>3. Loaded'
    BY <1>0, <1>5 DEF ObserveFails, Idle, Loaded
  <2> QED
    BY <2>1, <2>2, <2>3
<1>6. ASSUME NEW i \in Ids, NEW e \in Entry, SealRecord(i, e)
      PROVE (HeaderCount /\ MemoryCount /\ Loaded)'
  <2>1. HeaderCount'
    BY <1>0, <1>6 DEF Fields, SealRecord, SealsKnown, HeaderCount
  <2>2. MemoryCount'
    BY <1>0, <1>6 DEF Fields, Up, SealRecord, MayActivate, SealsKnown, MemoryCount
  <2>3. Loaded'
    BY <1>0, <1>6 DEF SealRecord, Loaded
  <2> QED
    BY <2>1, <2>2, <2>3
<1>7. ASSUME NEW i \in Ids, NEW e \in Entry, SealRecordFails(i, e)
      PROVE (HeaderCount /\ MemoryCount /\ Loaded)'
  <2>1. HeaderCount'
    BY <1>0, ReadsKept, FailedWrite, <1>7 DEF Fields, SealRecordFails, SealsKnown,
       RecordInTrial, HeaderCount
  <2>2. MemoryCount'
    BY <1>0, FailedWrite, <1>7 DEF Fields, Up, SealRecordFails, SealsKnown, RecordInTrial,
       MemoryCount, InTrial
  <2>3. Loaded'
    BY <1>0, <1>7 DEF SealRecordFails, MayActivate, Loaded
  <2> QED
    BY <2>1, <2>2, <2>3
<1>8. CASE SealRows
  <2>1. HeaderCount'
    BY <1>0, <1>8 DEF Fields, SealRows, SealsKnown, Sealing, HeaderCount
  <2>2. MemoryCount'
    BY <1>0, <1>8 DEF Fields, SealRows, SealsKnown, Sealing, MemoryCount
  <2>3. Loaded'
    BY <1>0, <1>8 DEF SealRows, Loaded
  <2> QED
    BY <2>1, <2>2, <2>3
<1>9. CASE SealRowsFails
  <2>1. HeaderCount'
    BY <1>0, <1>9 DEF Fields, SealRowsFails, SealsKnown, Sealing, HeaderCount
  <2>2. MemoryCount'
    BY <1>0, <1>9 DEF Fields, SealRowsFails, SealsKnown, Sealing, MemoryCount
  <2>3. Loaded'
    BY <1>0, <1>9 DEF SealRowsFails, Idle, Loaded
  <2> QED
    BY <2>1, <2>2, <2>3
<1>10. CASE SealUndo
  <2>1. HeaderCount'
    BY <1>0, <1>10 DEF SealUndo, RecordInTrial, HeaderCount
  <2>2. MemoryCount'
    BY <1>0, <1>10 DEF SealUndo, RecordInTrial, MemoryCount
  <2>3. Loaded'
    BY <1>0, <1>10 DEF SealUndo, Idle, Loaded
  <2> QED
    BY <2>1, <2>2, <2>3
<1>11. CASE SealUndoFails
  <2>1. HeaderCount'
    BY <1>0, FailedWrite, <1>11 DEF Fields, SealUndoFails, SealsKnown, Sealing,
       RecordInTrial, HeaderCount
  <2>2. MemoryCount'
    BY <1>0, FailedWrite, <1>11 DEF Fields, SealUndoFails, SealsKnown, Sealing,
       RecordInTrial, MemoryCount
  <2>3. Loaded'
    BY <1>0, <1>11 DEF SealUndoFails, Idle, Loaded
  <2> QED
    BY <2>1, <2>2, <2>3
<1>12. CASE SealHeader
  <2>1. HeaderCount'
    BY <1>0, <1>12 DEF Fields, PastType, SealHeader, SealsKnown, Sealing, HeaderCount,
       CountWithin
  <2>2. MemoryCount'
    BY <1>0, <1>12 DEF Fields, PastType, SealHeader, SealAdopt, SealsKnown, Sealing,
       MemoryCount, CountWithin
  <2>3. Loaded'
    BY <1>0, <1>12 DEF SealHeader, SealAdopt, Idle, Loaded
  <2> QED
    BY <2>1, <2>2, <2>3
<1>13. CASE SealHeaderFails
  <2>1. HeaderCount'
    BY <1>0, FailedWrite, <1>13 DEF Fields, PastType, SealHeaderFails, SealsKnown, Sealing,
       HeaderCount, CountWithin
  <2>2. MemoryCount'
    BY <1>0, <1>13 DEF Fields, PastType, SealHeaderFails, SealAdopt, SealsKnown, Sealing,
       MemoryCount, CountWithin
  <2>3. Loaded'
    BY <1>0, <1>13 DEF SealHeaderFails, SealAdopt, Idle, Loaded
  <2> QED
    BY <2>1, <2>2, <2>3
<1>14. CASE CommitRecord
  <2>1. HeaderCount'
    BY <1>0, <1>14 DEF CommitRecord, RecordInTrial, HeaderCount
  <2>2. MemoryCount'
    BY <1>0, <1>14 DEF CommitRecord, RecordInTrial, MemoryCount
  <2>3. Loaded'
    BY <1>0, <1>14 DEF CommitRecord, Idle, Loaded
  <2> QED
    BY <2>1, <2>2, <2>3
<1>15. CASE CommitRecordFails
  <2>1. HeaderCount'
    BY <1>0, ReadsKept, FailedWrite, <1>15 DEF CommitRecordFails, RecordInTrial, HeaderCount
  <2>2. MemoryCount'
    BY <1>0, FailedWrite, <1>15 DEF Up, CommitRecordFails, RecordInTrial, MemoryCount,
       InTrial
  <2>3. Loaded'
    BY <1>0, <1>15 DEF CommitRecordFails, Loaded
  <2> QED
    BY <2>1, <2>2, <2>3
<1>16. CASE CommitRows
  <2>1. HeaderCount'
    BY <1>0, <1>16 DEF CommitRows, VerbKnows, RecordInTrial, HeaderCount
  <2>2. MemoryCount'
    BY <1>0, <1>16 DEF CommitRows, VerbKnows, RecordInTrial, MemoryCount
  <2>3. Loaded'
    BY <1>0, <1>16 DEF CommitRows, Idle, Loaded
  <2> QED
    BY <2>1, <2>2, <2>3
<1>17. CASE CommitNoRows
  <2>1. HeaderCount'
    BY <1>0, <1>17 DEF CommitNoRows, store, VerbKnows, RecordInTrial, HeaderCount
  <2>2. MemoryCount'
    BY <1>0, <1>17 DEF CommitNoRows, store, VerbKnows, RecordInTrial, MemoryCount
  <2>3. Loaded'
    BY <1>0, <1>17 DEF CommitNoRows, Idle, Loaded
  <2> QED
    BY <2>1, <2>2, <2>3
<1>18. CASE CommitRowsFails
  <2>1. HeaderCount'
    BY <1>0, <1>18 DEF CommitRowsFails, VerbKnows, RecordInTrial, HeaderCount
  <2>2. MemoryCount'
    BY <1>0, <1>18 DEF CommitRowsFails, VerbKnows, RecordInTrial, MemoryCount
  <2>3. Loaded'
    BY <1>0, <1>18 DEF CommitRowsFails, Idle, Loaded
  <2> QED
    BY <2>1, <2>2, <2>3
<1>19. CASE RollbackNothing
  <2>1. HeaderCount'
    BY <1>0, ReadsKept, <1>19 DEF RollbackNothing, store, HeaderCount
  <2>2. MemoryCount'
    BY <1>0, <1>19 DEF RollbackNothing, MemoryCount, InTrial
  <2>3. Loaded'
    BY <1>0, <1>19 DEF RollbackNothing, Loaded
  <2> QED
    BY <2>1, <2>2, <2>3
<1>20. CASE RollbackRefused
  <2>1. HeaderCount'
    BY <1>0, ReadsKept, <1>20 DEF RollbackRefused, store, HeaderCount
  <2>2. MemoryCount'
    BY <1>0, <1>20 DEF Up, RollbackRefused, CanRollback, store, RecordInTrial, MemoryCount
  <2>3. Loaded'
    BY <1>0, <1>20 DEF RollbackRefused, Idle, Loaded
  <2> QED
    BY <2>1, <2>2, <2>3
<1>21. CASE RollbackHeader
  <2>1. HeaderCount'
    <3>1. UNCHANGED <<primary, secondary>> /\ header' = [gen |-> secondary.gen, tx |-> RollbackTx]
      BY <1>21 DEF RollbackHeader, FloorHeader
    <3>2. RollbackTx.seal = secondary.seal
      BY <1>0, <1>21, TxSeals DEF RollbackHeader, CanRollback, Up
    <3> QED
      BY <1>0, <3>1, <3>2 DEF HeaderCount, RecordInTrial, RecordOrder, Fields
  <2>2. MemoryCount'
    BY <1>0, <1>21 DEF Up, RollbackHeader, CanRollback, MemoryCount
  <2>3. Loaded'
    BY <1>0, <1>21 DEF RollbackHeader, Idle, Loaded
  <2> QED
    BY <2>1, <2>2, <2>3
<1>22. CASE RollbackHeaderFails
  <2>1. HeaderCount'
    <3>1. /\ UNCHANGED <<primary, secondary, rows, committed, boot, past>>
          /\ header' \in {header, [gen |-> secondary.gen, tx |-> RollbackTx]}
      BY <1>22, FailedWrite DEF RollbackHeaderFails, FloorHeader
    <3>2. RollbackTx.seal = secondary.seal
      BY <1>0, <1>22, TxSeals DEF RollbackHeaderFails, CanRollback, Up
    <3>3. CASE header' = header
      BY <1>0, <3>1, <3>3, ReadsKept DEF HeaderCount, RecordInTrial
    <3>4. CASE header' # header
      BY <1>0, <3>1, <3>2, <3>4 DEF HeaderCount, RecordInTrial, RecordOrder, Fields
    <3> QED
      BY <3>3, <3>4
  <2>2. MemoryCount'
    BY <1>0, <1>22 DEF Up, RollbackHeaderFails, CanRollback, MemoryCount
  <2>3. Loaded'
    BY <1>0, <1>22 DEF RollbackHeaderFails, Idle, Loaded
  <2> QED
    BY <2>1, <2>2, <2>3
<1>23. CASE RollbackRecord
  <2>1. HeaderCount'
    BY <1>0, <1>23 DEF RollbackRecord, RecordInTrial, HeaderCount
  <2>2. MemoryCount'
    BY <1>0, <1>23 DEF RollbackRecord, RecordInTrial, MemoryCount
  <2>3. Loaded'
    BY <1>0, <1>23 DEF RollbackRecord, Loaded
  <2> QED
    BY <2>1, <2>2, <2>3
<1>24. CASE RollbackRecordFails
  <2>1. HeaderCount'
    BY <1>0, ReadsKept, FailedWrite, <1>24 DEF RollbackRecordFails, RecordInTrial,
       HeaderCount
  <2>2. MemoryCount'
    BY <1>0, FailedWrite, <1>24 DEF Up, RollbackRecordFails, RecordInTrial, MemoryCount,
       InTrial
  <2>3. Loaded'
    BY <1>0, <1>24 DEF RollbackRecordFails, Idle, Loaded
  <2> QED
    BY <2>1, <2>2, <2>3
<1>25. CASE RollbackRows
  <2>1. HeaderCount'
    BY <1>0, <1>25 DEF RollbackRows, VerbKnows, RecordInTrial, HeaderCount
  <2>2. MemoryCount'
    BY <1>0, <1>25 DEF RollbackRows, VerbKnows, RecordInTrial, MemoryCount
  <2>3. Loaded'
    BY <1>0, <1>25 DEF RollbackRows, RollbackAdopt, Idle, Loaded
  <2> QED
    BY <2>1, <2>2, <2>3
<1>26. CASE RollbackRowsFails
  <2>1. HeaderCount'
    BY <1>0, <1>26 DEF RollbackRowsFails, VerbKnows, RecordInTrial, HeaderCount
  <2>2. MemoryCount'
    BY <1>0, <1>26 DEF RollbackRowsFails, VerbKnows, RecordInTrial, MemoryCount
  <2>3. Loaded'
    BY <1>0, <1>26 DEF RollbackRowsFails, RollbackAdopt, Idle, Loaded
  <2> QED
    BY <2>1, <2>2, <2>3
<1>27. CASE Stop
  <2>1. HeaderCount'
    <3>1. UNCHANGED <<primary, secondary, rows, committed, header>>
      BY <1>27 DEF Stop, store
    <3>2. PICK b : GoDown(b)
      BY <1>27 DEF Stop
    <3>3. header.tx \in TxType
      BY <1>0 DEF Fields
    <3> QED
      BY <1>0, <3>1, <3>2, <3>3, ReadsKept, WithinDown DEF HeaderCount, RecordInTrial
  <2>2. MemoryCount'
    BY <1>0, <1>27 DEF Up, Stop, GoDown, Idle, MemoryCount
  <2>3. Loaded'
    BY <1>0, <1>27 DEF Stop, GoDown, Idle, Loaded
  <2> QED
    BY <2>1, <2>2, <2>3
<1>28. CASE Reset
  <2>1. HeaderCount'
    <3>1. UNCHANGED <<primary, secondary, rows, committed, header>>
      BY <1>28 DEF Reset, store
    <3>2. PICK b : GoDown(b)
      BY <1>28 DEF Reset
    <3>3. header.tx \in TxType
      BY <1>0 DEF Fields
    <3> QED
      BY <1>0, <3>1, <3>2, <3>3, ReadsKept, WithinDown DEF HeaderCount, RecordInTrial
  <2>2. MemoryCount'
    BY <1>0, <1>28 DEF Up, Reset, GoDown, Idle, MemoryCount
  <2>3. Loaded'
    BY <1>0, <1>28 DEF Reset, GoDown, Idle, Loaded
  <2> QED
    BY <2>1, <2>2, <2>3
<1>29. CASE BootStageRollback
  <2>1. HeaderCount'
    BY <1>0, <1>29 DEF BootStageRollback, RecordInTrial, HeaderCount
  <2>2. MemoryCount'
    BY <1>0, <1>29 DEF Up, BootStageRollback, MemoryCount
  <2>3. Loaded'
    BY <1>0, <1>29 DEF BootStageRollback, Loaded
  <2> QED
    BY <2>1, <2>2, <2>3
<1>30. CASE UNCHANGED vars
  BY <1>0, <1>30, ReadsKept DEF vars, HeaderCount, MemoryCount, Loaded, Up, InTrial
<1> QED
  BY <1>1, <1>2, <1>3, <1>4, <1>5, <1>6, <1>7, <1>8, <1>9, <1>10, <1>11, <1>12, <1>13,
     <1>14, <1>15, <1>16, <1>17, <1>18, <1>19, <1>20, <1>21, <1>22, <1>23, <1>24, <1>25,
     <1>26, <1>27, <1>28, <1>29, <1>30
     DEF Next, Start, Seal, Commit, Rollback

\* A seeded node is not in trial.
LEMMA CountInit == Init => CountInv
<1> SUFFICES ASSUME Init PROVE SealsKnown /\ HeaderCount /\ MemoryCount /\ Loaded
  BY OrderInit DEF CountInv
<1>1. /\ op.pc = "serving" /\ primary.gen = secondary.gen /\ seals = 0
      /\ header.tx.seal = 0 /\ mgr.tx.seal = 0
  BY DEF Init, Idle, NoTx, Tx
<1> QED
  BY <1>1 DEF SealsKnown, HeaderCount, MemoryCount, Loaded, RecordInTrial, Sealing

\* However often the process restarts within a boot, the count of the standing
\* trial never exceeds the boots since it was armed.  (observe_node_boot.)
THEOREM BootsCountOnce == Spec => []EachBootCountsOnce
<1>1. CountInv => EachBootCountsOnce
  BY DEF CountInv, MemoryCount, CountWithin, Up, EachBootCountsOnce
<1> QED
  BY <1>1, CountInit, CountStep, PTL DEF Spec

----------------------------------------------------------------------------
(* The bail-out at the trial boot limit.                                   *)

\* Failures that cut the bail-out's own rollback, or leave a trace, are excepted.
Uncut == ~Saw({"rollback", "power_rollback"}) /\ Contained

\* The trial the limit was reached for is one that was sealed.
DueKnown == past.due <= seals /\ (Sealing => past.due < primary.seal)

\* The header the start-up counts is the stored one.
LoadedTx == op.pc = "observe" /\ InTrial /\ header.gen = primary.gen => mgr.tx = header.tx

\* While the trial stands its header says so, until the rollback replaces it.
Due == RecordInTrial /\ past.due = primary.seal
DueHeld ==
    Uncut /\ Due =>
        /\ Up /\ op.pc # "observe" => past.tried
        /\ op.pc # "rollback_record" =>
              /\ header.gen = primary.gen /\ header.tx.armed # 0 /\ header.tx.boots >= Limit
              /\ ReadPrimary # ReadSecondary

DueInv == CountInv /\ DueKnown /\ LoadedTx /\ DueHeld

\* A loss of power or a failed write in a rollback is remembered.
LEMMA CutTold ==
    ASSUME TypeOK, Uncut'
    PROVE  ~Fault("rollback") /\ ~(Fault(PowerAt) /\ op.pc \in {"rollback_record", "rollback_rows"})
<1>1. ~Fault("rollback") /\ ~Fault("power_rollback")
  BY FaultStep, TypeParts DEF RunType, Uncut, Saw, Telling
<1>2. op.pc \in {"rollback_record", "rollback_rows"} => PowerAt = "power_rollback"
  BY DEF PowerAt
<1> QED
  BY <1>1, <1>2

\* The limit is reached, or nothing happened.
LEMMA AfterCountDue ==
    ASSUME past \in PastType, NEW n, AfterCount(n)
    PROVE  \/ n >= Limit /\ past'.due = mgr.tx.seal /\ past'.tried = TRUE
           \/ ~(n >= Limit) /\ past' = past
<1>1. ASSUME n >= Limit PROVE past'.due = mgr.tx.seal /\ past'.tried = TRUE
  BY <1>1 DEF AfterCount, PastType
<1>2. ASSUME ~(n >= Limit) PROVE past' = past
  BY <1>2 DEF AfterCount
<1> QED
  BY <1>1, <1>2

\* Every start-up after the limit was reached counts or rolls back.
LEMMA DueStep == DueInv /\ [Next]_vars => DueInv'
<1> SUFFICES ASSUME DueInv, [Next]_vars PROVE (DueKnown /\ LoadedTx /\ DueHeld)'
  BY CountStep DEF DueInv
<1>0. /\ Fields /\ StoreType /\ RunType /\ TypeOK /\ RecordOrder /\ VerbKnows /\ HeaderPlaced
      /\ SealsKnown /\ Loaded /\ DueKnown /\ LoadedTx /\ DueHeld /\ RecordOrder'
      /\ past.due \in Nat
  BY NumTypes, OrderStep DEF DueInv, CountInv, OrderInv, Fields, PastType
<1>a. Uncut' => Uncut /\ Contained'
  BY <1>0, SeenGrows DEF Uncut, Contained, Saw
<1>1. CASE Load
  <2>1. DueKnown'
    BY <1>0, <1>1 DEF Load, Idle, Sealing, DueKnown
  <2>2. LoadedTx'
    BY <1>0, <1>1 DEF Load, Adopt, LoadedTx, Attributed
  <2>3. DueHeld'
    BY <1>0, <1>a, ReadsKept, <1>1 DEF Load, BootStageActed, Idle, DueHeld, Due
  <2> QED
    BY <2>1, <2>2, <2>3
<1>2. CASE LoadUnrecorded
  <2>1. DueKnown'
    BY <1>0, <1>2 DEF LoadUnrecorded, Idle, Sealing, DueKnown
  <2>2. LoadedTx'
    BY <1>0, <1>2 DEF LoadUnrecorded, Adopt, BootStageActed, LoadedTx, InTrial
  <2>3. DueHeld'
    BY <1>0, <1>a, <1>2 DEF LoadUnrecorded, BootStageActed, RecordInTrial, DueHeld, Due
  <2> QED
    BY <2>1, <2>2, <2>3
<1>3. CASE ObserveUncounted
  <2>1. /\ UNCHANGED <<primary, secondary, rows, committed, header, mgr, seals, faults>>
        /\ op.pc = "observe" /\ op'.pc \in {"bail", "serving"}
    <3>1. op'.pc \in {"bail", "serving"}
      BY <1>0, <1>3, AfterCountPast DEF Fields, ObserveUncounted, Idle
    <3> QED
      BY <1>3, <3>1 DEF ObserveUncounted, store
  <2>2. \/ Armed /\ mgr.tx.boots >= Limit /\ past'.due = mgr.tx.seal /\ past'.tried = TRUE
        \/ ~(Armed /\ mgr.tx.boots >= Limit) /\ past' = past
    BY <1>0, <1>3, AfterCountDue DEF Fields, ObserveUncounted
  <2>3. Armed => mgr.tx = header.tx /\ header.gen = primary.gen /\ ReadPrimary # ReadSecondary
    BY <1>0, <2>1 DEF HeaderPlaced, LoadedTx, Loaded, Armed, InTrial
  <2>4. DueKnown' /\ LoadedTx'
    BY <1>0, <2>1, <2>2 DEF DueKnown, SealsKnown, LoadedTx, Sealing, Up
  <2>5. DueHeld'
    <3>1. CASE Armed /\ mgr.tx.boots >= Limit /\ past'.due = mgr.tx.seal /\ past'.tried = TRUE
      BY <2>1, <2>3, <3>1, ReadsKept DEF DueHeld, Armed
    <3>2. CASE ~(Armed /\ mgr.tx.boots >= Limit) /\ past' = past
      <4>1. ~(Uncut /\ Due)
        BY <1>0, <2>1, <3>2 DEF DueHeld, LoadedTx, Loaded, Armed, InTrial
      <4> QED
        BY <1>a, <2>1, <3>2, <4>1 DEF DueHeld, Due, RecordInTrial
    <3> QED
      BY <2>2, <3>1, <3>2
  <2> QED
    BY <2>4, <2>5
<1>4. CASE ObserveCounted
  <2>1. /\ UNCHANGED <<primary, secondary, rows, committed, seals, faults>> /\ Armed
        /\ op.pc = "observe" /\ op'.pc \in {"bail", "serving"}
        /\ header' = [gen |-> mgr.gen, tx |-> CountedTx]
    <3>1. op'.pc \in {"bail", "serving"}
      BY <1>0, <1>4, AfterCountPast DEF Fields, ObserveCounted
    <3> QED
      BY <1>4, <3>1 DEF ObserveCounted
  <2>2. \/ CountedTx.boots >= Limit /\ past'.due = mgr.tx.seal /\ past'.tried = TRUE
        \/ ~(CountedTx.boots >= Limit) /\ past' = past
    BY <1>0, <1>4, AfterCountDue DEF Fields, ObserveCounted
  <2>3. mgr.tx = header.tx /\ mgr.gen = primary.gen /\ ReadPrimary # ReadSecondary
    BY <1>0, <2>1 DEF HeaderPlaced, VerbKnows, LoadedTx, Loaded, Armed, InTrial
  <2>4. DueKnown' /\ LoadedTx'
    BY <1>0, <2>1, <2>2 DEF DueKnown, SealsKnown, LoadedTx, Sealing, Up
  <2>5. CountedTx.armed # 0
    BY <1>0, <2>1 DEF CountedTx, Armed
  <2>6. mgr.tx.boots >= Limit => CountedTx.boots >= Limit
    BY <1>0, <2>1, LimitAssumption, MaxTrialBootsAssumption DEF CountedTx, Fields, Up,
       TxType, Smaller
  <2>7. DueHeld'
    <3>1. CASE CountedTx.boots >= Limit /\ past'.due = mgr.tx.seal /\ past'.tried = TRUE
      BY <2>1, <2>3, <2>5, <3>1, ReadsKept DEF DueHeld
    <3>2. CASE ~(CountedTx.boots >= Limit) /\ past' = past
      <4>1. ~(Uncut /\ Due)
        BY <1>0, <2>1, <2>3, <2>6, <3>2 DEF DueHeld
      <4> QED
        BY <1>a, <2>1, <3>2, <4>1 DEF DueHeld, Due, RecordInTrial
    <3> QED
      BY <2>2, <3>1, <3>2
  <2> QED
    BY <2>4, <2>7
<1>5. CASE ObserveFails
  <2>1. DueKnown'
    BY <1>0, <1>5 DEF ObserveFails, Idle, Sealing, DueKnown
  <2>2. LoadedTx'
    BY <1>0, <1>5 DEF ObserveFails, Idle, LoadedTx
  <2>3. DueHeld'
    BY <1>0, <1>a, ReadsKept, Landed, <1>5 DEF Fields, PastType, ObserveFails, DueHeld, Due
  <2> QED
    BY <2>1, <2>2, <2>3
<1>6. ASSUME NEW i \in Ids, NEW e \in Entry, SealRecord(i, e)
      PROVE (DueKnown /\ LoadedTx /\ DueHeld)'
  <2>1. DueKnown'
    BY <1>0, <1>6 DEF Fields, SealRecord, DueKnown
  <2>2. LoadedTx'
    BY <1>0, <1>6 DEF SealRecord, LoadedTx
  <2>3. DueHeld'
    BY <1>0, <1>a, <1>6 DEF Fields, SealRecord, DueHeld, Due, DueKnown
  <2> QED
    BY <2>1, <2>2, <2>3
<1>7. ASSUME NEW i \in Ids, NEW e \in Entry, SealRecordFails(i, e)
      PROVE (DueKnown /\ LoadedTx /\ DueHeld)'
  <2>1. DueKnown'
    BY <1>0, <1>7 DEF Fields, SealRecordFails, MayActivate, Sealing, DueKnown
  <2>2. LoadedTx'
    BY <1>0, <1>7 DEF SealRecordFails, MayActivate, LoadedTx
  <2>3. DueHeld'
    BY <1>0, <1>a, ReadsKept, Landed, <1>7 DEF Up, SealRecordFails, DueHeld, Due
  <2> QED
    BY <2>1, <2>2, <2>3
<1>8. CASE SealRows
  <2>1. DueKnown'
    BY <1>0, <1>8 DEF SealRows, Sealing, DueKnown
  <2>2. LoadedTx'
    BY <1>0, <1>8 DEF SealRows, LoadedTx
  <2>3. DueHeld'
    BY <1>0, <1>a, <1>8 DEF SealRows, Sealing, DueHeld, Due, DueKnown
  <2> QED
    BY <2>1, <2>2, <2>3
<1>9. CASE SealRowsFails
  <2>1. DueKnown'
    BY <1>0, <1>9 DEF SealRowsFails, Sealing, DueKnown
  <2>2. LoadedTx'
    BY <1>0, <1>9 DEF SealRowsFails, Idle, LoadedTx
  <2>3. DueHeld'
    BY <1>0, <1>a, <1>9 DEF SealRowsFails, Sealing, DueHeld, Due, DueKnown
  <2> QED
    BY <2>1, <2>2, <2>3
<1>10. CASE SealUndo
  <2>1. DueKnown'
    BY <1>0, <1>10 DEF SealUndo, Idle, Sealing, DueKnown
  <2>2. LoadedTx'
    BY <1>0, <1>10 DEF SealUndo, Idle, LoadedTx
  <2>3. DueHeld'
    BY <1>0, <1>a, <1>10 DEF SealUndo, RecordInTrial, DueHeld, Due
  <2> QED
    BY <2>1, <2>2, <2>3
<1>11. CASE SealUndoFails
  <2>1. DueKnown'
    BY <1>0, <1>11 DEF SealUndoFails, Idle, Sealing, DueKnown
  <2>2. LoadedTx'
    BY <1>0, <1>11 DEF SealUndoFails, Idle, LoadedTx
  <2>3. DueHeld'
    BY <1>0, <1>a, Landed, <1>11 DEF SealUndoFails, Sealing, DueHeld, Due, DueKnown
  <2> QED
    BY <2>1, <2>2, <2>3
<1>12. CASE SealHeader
  <2>1. DueKnown'
    BY <1>0, <1>12 DEF SealHeader, Sealing, DueKnown
  <2>2. LoadedTx'
    BY <1>0, <1>12 DEF SealHeader, SealAdopt, LoadedTx
  <2>3. DueHeld'
    BY <1>0, <1>a, <1>12 DEF SealHeader, Sealing, DueHeld, Due, DueKnown
  <2> QED
    BY <2>1, <2>2, <2>3
<1>13. CASE SealHeaderFails
  <2>1. DueKnown'
    BY <1>0, <1>13 DEF SealHeaderFails, Sealing, DueKnown
  <2>2. LoadedTx'
    BY <1>0, <1>13 DEF SealHeaderFails, SealAdopt, Idle, LoadedTx
  <2>3. DueHeld'
    BY <1>0, <1>a, <1>13 DEF SealHeaderFails, Sealing, DueHeld, Due, DueKnown
  <2> QED
    BY <2>1, <2>2, <2>3
<1>14. CASE CommitRecord
  <2>1. DueKnown'
    BY <1>0, <1>14 DEF CommitRecord, Idle, Sealing, DueKnown
  <2>2. LoadedTx'
    BY <1>0, <1>14 DEF CommitRecord, Idle, LoadedTx
  <2>3. DueHeld'
    BY <1>0, <1>a, <1>14 DEF CommitRecord, RecordInTrial, DueHeld, Due
  <2> QED
    BY <2>1, <2>2, <2>3
<1>15. CASE CommitRecordFails
  <2>1. DueKnown'
    BY <1>0, <1>15 DEF CommitRecordFails, Sealing, DueKnown
  <2>2. LoadedTx'
    BY <1>0, <1>15 DEF CommitRecordFails, LoadedTx
  <2>3. DueHeld'
    BY <1>0, <1>a, ReadsKept, Landed, <1>15 DEF Up, CommitRecordFails, DueHeld, Due
  <2> QED
    BY <2>1, <2>2, <2>3
<1>16. CASE CommitRows
  <2>1. DueKnown'
    BY <1>0, <1>16 DEF CommitRows, Idle, Sealing, DueKnown
  <2>2. LoadedTx'
    BY <1>0, <1>16 DEF CommitRows, Idle, LoadedTx
  <2>3. DueHeld'
    BY <1>0, <1>a, <1>16 DEF CommitRows, VerbKnows, RecordInTrial, DueHeld, Due
  <2> QED
    BY <2>1, <2>2, <2>3
<1>17. CASE CommitNoRows
  <2>1. DueKnown'
    BY <1>0, <1>17 DEF CommitNoRows, Idle, Sealing, DueKnown
  <2>2. LoadedTx'
    BY <1>0, <1>17 DEF CommitNoRows, Idle, LoadedTx
  <2>3. DueHeld'
    BY <1>0, <1>a, <1>17 DEF CommitNoRows, store, VerbKnows, RecordInTrial, DueHeld, Due
  <2> QED
    BY <2>1, <2>2, <2>3
<1>18. CASE CommitRowsFails
  <2>1. DueKnown'
    BY <1>0, <1>18 DEF CommitRowsFails, Idle, Sealing, DueKnown
  <2>2. LoadedTx'
    BY <1>0, <1>18 DEF CommitRowsFails, Idle, LoadedTx
  <2>3. DueHeld'
    BY <1>0, <1>a, <1>18 DEF CommitRowsFails, VerbKnows, RecordInTrial, DueHeld, Due
  <2> QED
    BY <2>1, <2>2, <2>3
<1>19. CASE RollbackNothing
  <2>1. DueKnown'
    BY <1>0, <1>19 DEF RollbackNothing, Sealing, DueKnown
  <2>2. LoadedTx'
    BY <1>0, <1>19 DEF RollbackNothing, LoadedTx
  <2>3. DueHeld'
    BY <1>0, <1>a, ReadsKept, <1>19 DEF Up, RollbackNothing, store, DueHeld, Due
  <2> QED
    BY <2>1, <2>2, <2>3
<1>20. CASE RollbackRefused
  <2>1. DueKnown'
    BY <1>0, <1>20 DEF RollbackRefused, Idle, Sealing, DueKnown
  <2>2. LoadedTx'
    BY <1>0, <1>20 DEF RollbackRefused, Idle, LoadedTx
  <2>3. DueHeld'
    BY <1>0, <1>a, ReadsKept, <1>20 DEF Up, RollbackRefused, CanRollback, store, DueHeld,
       Due
  <2> QED
    BY <2>1, <2>2, <2>3
<1>21. CASE RollbackHeader
  <2>1. DueKnown'
    BY <1>0, <1>21 DEF RollbackHeader, Idle, Sealing, DueKnown
  <2>2. LoadedTx'
    BY <1>0, <1>21 DEF RollbackHeader, Idle, LoadedTx
  <2>3. DueHeld'
    BY <1>0, <1>a, <1>21 DEF Up, RollbackHeader, CanRollback, Idle, DueHeld, Due
  <2> QED
    BY <2>1, <2>2, <2>3
<1>22. CASE RollbackHeaderFails
  <2>1. DueKnown'
    BY <1>0, <1>22 DEF RollbackHeaderFails, Idle, Sealing, DueKnown
  <2>2. LoadedTx'
    BY <1>0, <1>22 DEF RollbackHeaderFails, Idle, LoadedTx
  <2>3. DueHeld'
    BY <1>0, <1>a, ReadsKept, Landed, <1>22 DEF Up, RollbackHeaderFails, CanRollback,
       DueHeld, Due
  <2> QED
    BY <2>1, <2>2, <2>3
<1>23. CASE RollbackRecord
  <2>1. DueKnown'
    BY <1>0, <1>23 DEF RollbackRecord, Sealing, DueKnown
  <2>2. LoadedTx'
    BY <1>0, <1>23 DEF RollbackRecord, LoadedTx
  <2>3. DueHeld'
    BY <1>0, <1>a, <1>23 DEF RollbackRecord, RecordInTrial, DueHeld, Due
  <2> QED
    BY <2>1, <2>2, <2>3
<1>24. CASE RollbackRecordFails
  <2>1. DueKnown'
    BY <1>0, <1>24 DEF RollbackRecordFails, Idle, Sealing, DueKnown
  <2>2. LoadedTx'
    BY <1>0, <1>24 DEF RollbackRecordFails, Idle, LoadedTx
  <2>3. DueHeld'
    BY <1>0, <1>a, CutTold, <1>24 DEF RollbackRecordFails, DueHeld
  <2> QED
    BY <2>1, <2>2, <2>3
<1>25. CASE RollbackRows
  <2>1. DueKnown'
    BY <1>0, <1>25 DEF RollbackRows, RollbackAdopt, Idle, Sealing, DueKnown
  <2>2. LoadedTx'
    BY <1>0, <1>25 DEF RollbackRows, RollbackAdopt, Idle, LoadedTx
  <2>3. DueHeld'
    BY <1>0, <1>a, <1>25 DEF RollbackRows, VerbKnows, RecordInTrial, DueHeld, Due
  <2> QED
    BY <2>1, <2>2, <2>3
<1>26. CASE RollbackRowsFails
  <2>1. DueKnown'
    BY <1>0, <1>26 DEF RollbackRowsFails, RollbackAdopt, Idle, Sealing, DueKnown
  <2>2. LoadedTx'
    BY <1>0, <1>26 DEF RollbackRowsFails, RollbackAdopt, Idle, LoadedTx
  <2>3. DueHeld'
    BY <1>0, <1>a, <1>26 DEF RollbackRowsFails, VerbKnows, RecordInTrial, DueHeld, Due
  <2> QED
    BY <2>1, <2>2, <2>3
<1>27. CASE Stop
  <2>1. DueKnown'
    BY <1>0, <1>27 DEF Stop, GoDown, Idle, Sealing, DueKnown
  <2>2. LoadedTx'
    BY <1>0, <1>27 DEF Stop, GoDown, Idle, LoadedTx
  <2>3. DueHeld'
    BY <1>0, <1>a, ReadsKept, CutTold, <1>27 DEF Up, Stop, GoDown, Idle, store,
       RecordInTrial, DueHeld, Due
  <2> QED
    BY <2>1, <2>2, <2>3
<1>28. CASE Reset
  <2>1. DueKnown'
    BY <1>0, <1>28 DEF Reset, GoDown, Idle, Sealing, DueKnown
  <2>2. LoadedTx'
    BY <1>0, <1>28 DEF Reset, GoDown, Idle, LoadedTx
  <2>3. DueHeld'
    BY <1>0, <1>a, ReadsKept, <1>28 DEF Fields, Up, PastType, Reset, GoDown, Idle, store,
       DueHeld, Due
  <2> QED
    BY <2>1, <2>2, <2>3
<1>29. CASE BootStageRollback
  <2>1. DueKnown'
    BY <1>0, <1>29 DEF BootStageRollback, Sealing, DueKnown
  <2>2. LoadedTx'
    BY <1>0, <1>29 DEF BootStageRollback, LoadedTx
  <2>3. DueHeld'
    BY <1>0, <1>a, <1>29 DEF BootStageRollback, RecordInTrial, DueHeld, Due
  <2> QED
    BY <2>1, <2>2, <2>3
<1>30. CASE UNCHANGED vars
  BY <1>0, <1>a, <1>30, ReadsKept DEF vars, DueKnown, LoadedTx, DueHeld, Due, Up, InTrial,
     Sealing
<1> QED
  BY <1>1, <1>2, <1>3, <1>4, <1>5, <1>6, <1>7, <1>8, <1>9, <1>10, <1>11, <1>12, <1>13,
     <1>14, <1>15, <1>16, <1>17, <1>18, <1>19, <1>20, <1>21, <1>22, <1>23, <1>24, <1>25,
     <1>26, <1>27, <1>28, <1>29, <1>30
     DEF Next, Start, Seal, Commit, Rollback

\* A seeded node has no trial due.
LEMMA DueInit == Init => DueInv
<1> SUFFICES ASSUME Init PROVE DueKnown /\ LoadedTx /\ DueHeld
  BY CountInit DEF DueInv
<1>1. op.pc = "serving" /\ primary.gen = secondary.gen /\ seals = 0 /\ past.due = 0
  BY DEF Init, Idle
<1> QED
  BY <1>1 DEF DueKnown, LoadedTx, DueHeld, Due, RecordInTrial, Sealing

\* Once a trial has reached the limit, every later start-up tries to count or to roll
\* back before the node serves, unless a failure cut the bail-out's own rollback.
\* (MachineRegistry::observe_node_boot.)
THEOREM BailOutIsRetried == Spec => []BailOutRetriedUnlessCut
<1>1. DueInv => BailOutRetriedUnlessCut
  BY DEF DueInv, DueHeld, Due, Uncut, Up, BailOutRetriedUnlessCut, BailOutRetried
<1> QED
  BY <1>1, DueInit, DueStep, PTL DEF Spec

----------------------------------------------------------------------------
(* What is activated, and the refinement of BootVector.                    *)

\* No activation fails where it leaves its staging pending: the record's write, and
\* the rows write of a first activation.
SealsSucceed == Faults \cap {"activate", "rows"} = {}

\* What differs from the floor was activated in the standing trial; outside a seal
\* nothing else is pending.
Activated(v) == \A i \in Ids : v[i] # past.floor[i] => i \in past.joined
JoinedHeld ==
    /\ op.pc # "seal_undo"
    /\ Sealing => Activated(mgr.pending)
    /\ ~Sealing \/ RoutesEverything => Activated(ReadPrimary)
    /\ Up /\ ~Sealing => mgr.pending = mgr.current

JoinInv == /\ FloorInv /\ faults.seen \subseteq Faults
           /\ RowsKept => JoinedHeld

\* Only failures that may happen are seen.
LEMMA SeenStep ==
    ASSUME TypeOK, faults.seen \subseteq Faults, [Next]_vars PROVE faults'.seen \subseteq Faults
<1>1. ASSUME NEW kind, Fault(kind) PROVE faults'.seen \subseteq Faults
  BY <1>1 DEF Fault
<1> QED
  BY <1>1 DEF vars, store, Next, Start, Seal, Commit, Rollback, Load, LoadUnrecorded,
     ObserveUncounted, ObserveCounted, ObserveFails, SealRecord, SealRecordFails, SealRows,
     SealRowsFails, SealUndo, SealUndoFails, SealHeader, SealHeaderFails, CommitRecord,
     CommitRecordFails, CommitRows, CommitNoRows, CommitRowsFails, RollbackNothing,
     RollbackRefused, RollbackHeader, RollbackHeaderFails, RollbackRecord,
     RollbackRecordFails, RollbackRows, RollbackRowsFails, Stop, Reset, BootStageRollback

\* A store that routes every component reads its record.
RecordRead == RoutesEverything => ReadPrimary = primary.rows /\ ReadSecondary = secondary.rows

\* With every component routed to the record, the reads are the record's rows.
LEMMA RecordReads == StoreType => RecordRead
<1> SUFFICES ASSUME StoreType, ManagerIds = {}
             PROVE  ReadPrimary = primary.rows /\ ReadSecondary = secondary.rows
  BY DEF RecordRead, RoutesEverything
<1>1. primary.rows \in [RecordIds -> Entry] /\ secondary.rows \in [RecordIds -> Entry]
  BY DEF StoreType, Row
<1>2. ASSUME NEW r \in [RecordIds -> Entry], NEW m PROVE Union(r, m) = r
  BY DEF Union, Ids
<1> QED
  BY <1>1, <1>2 DEF ReadPrimary, ReadSecondary

\* The same of the next state.
LEMMA RecordReadsNext == StoreType' => RecordRead'
BY RecordReads, PTL

\* Each write of each verb leaves only what was activated in trial.
LEMMA JoinStep == ASSUME SealsSucceed PROVE JoinInv /\ [Next]_vars => JoinInv'
<1> SUFFICES ASSUME JoinInv, [Next]_vars, RowsKept' PROVE JoinedHeld'
  BY FloorStep, SeenStep DEF JoinInv, FloorInv, MemoryInv, OrderInv
<1>0. /\ Fields /\ StoreType /\ RunType /\ TypeOK /\ RecordOrder /\ VerbKnows
      /\ Contained' /\ RowsKept' /\ MemoryHeld
      /\ FloorHeld /\ RowsHeld /\ CurrentRead /\ JoinedHeld
  BY NumTypes, SeenGrows DEF JoinInv, FloorInv, MemoryInv, OrderInv, RowsKept, Contained,
     Saw
<1>a. (StoreType /\ VerbKnows /\ FloorHeld /\ RowsHeld /\ CurrentRead /\ FloorReads)' /\ FloorReads
  BY <1>0, FloorStep, FloorRead, FloorReadNext, TypeParts DEF JoinInv, FloorInv, MemoryInv,
     OrderInv
<1>b. ~Fault("activate") /\ ~Fault("rows")
  BY SealsSucceed DEF SealsSucceed, Fault
<1>1. CASE Load
  BY <1>0, <1>a, <1>b, <1>1 DEF Load, Adopt, Idle, Sealing, JoinedHeld, Activated,
     CurrentRead
<1>2. CASE LoadUnrecorded
  BY <1>0, <1>a, <1>b, <1>2 DEF LoadUnrecorded, Adopt, Idle, Sealing, JoinedHeld, Activated,
     CurrentRead
<1>3. CASE ObserveUncounted
  <2>1. op'.pc \in {"bail", "serving"} /\ past'.floor = past.floor /\ past'.joined = past.joined
    BY <1>0, <1>3, AfterCountPast DEF Fields, ObserveUncounted, Idle
  <2>2. UNCHANGED <<primary, secondary, rows, committed, mgr>> /\ op.pc = "observe"
    BY <1>3 DEF ObserveUncounted, store
  <2> QED
    BY <1>0, <2>1, <2>2, ReadsKept DEF JoinedHeld, Activated, Sealing, Up
<1>4. CASE ObserveCounted
  BY <1>0, <1>a, <1>b, <1>4 DEF Up, ObserveCounted, AfterCount, Idle, Sealing, JoinedHeld,
     Activated, CurrentRead
<1>5. CASE ObserveFails
  BY <1>0, <1>a, <1>b, <1>5 DEF Up, ObserveFails, Idle, Sealing, JoinedHeld, Activated,
     CurrentRead
<1>6. ASSUME NEW i \in Ids, NEW e \in Entry, SealRecord(i, e)
      PROVE JoinedHeld'
  <2>1. /\ op.pc = "serving" /\ op'.pc = "seal_rows" /\ mgr \in MgrType
        /\ mgr'.pending = [mgr.pending EXCEPT ![i] = e]
        /\ primary'.rows = Restriction(mgr'.pending, RecordIds)
    <3>1. op.pc = "serving" /\ mgr \in MgrType
      BY <1>0, <1>6 DEF SealRecord, MayActivate, Fields, Up
    <3> QED
      BY <1>6, <3>1 DEF SealRecord, Staged
  <2>2. /\ past'.floor = past.floor
        /\ past'.joined = {i} \cup (IF RecordInTrial THEN past.joined ELSE {})
    BY <1>0, <1>6 DEF SealRecord
  <2>3. mgr.pending \in [Ids -> Entry] /\ mgr.pending = ReadPrimary /\ Activated(ReadPrimary)
    BY <1>0, <2>1 DEF MgrType, JoinedHeld, CurrentRead, Sealing, Up
  <2>4. ~RecordInTrial => mgr.pending = past.floor
    BY <1>a, <2>3 DEF FloorReads
  <2>5. Activated(mgr.pending)'
    BY <2>1, <2>2, <2>3, <2>4 DEF Activated
  <2>6. RoutesEverything => ReadPrimary' = mgr'.pending
    <3>1. mgr'.pending \in [Ids -> Entry]
      BY <2>1, <2>3
    <3>2. RoutesEverything => Restriction(mgr'.pending, RecordIds) = mgr'.pending
      BY <3>1 DEF Restriction, RoutesEverything, Ids
    <3> QED
      BY <1>a, <2>1, <3>2, RecordReadsNext DEF RecordRead
  <2>7. RoutesEverything => Activated(ReadPrimary)'
    BY <2>5, <2>6 DEF Activated
  <2>8. Sealing' /\ Up' /\ op'.pc # "seal_undo"
    BY <2>1 DEF Sealing, Up
  <2> QED
    BY <2>5, <2>7, <2>8 DEF JoinedHeld
<1>7. ASSUME NEW i \in Ids, NEW e \in Entry, SealRecordFails(i, e)
      PROVE JoinedHeld'
  BY <1>0, <1>a, <1>b, <1>7 DEF SealRecordFails
<1>8. CASE SealRows
  <2>1. /\ UNCHANGED <<primary, mgr, past>> /\ op'.pc = "seal_header" /\ op.pc = "seal_rows"
    BY <1>0, <1>8 DEF SealRows
  <2>2. RoutesEverything => ReadPrimary' = ReadPrimary
    BY <1>0, <1>a, <2>1, RecordReads, RecordReadsNext DEF RecordRead
  <2> QED
    BY <1>0, <2>1, <2>2 DEF JoinedHeld, Activated, Sealing
<1>9. CASE SealRowsFails
  BY <1>0, <1>a, <1>b, ToldFault, <1>9 DEF SealRowsFails
<1>10. CASE SealUndo
  BY <1>0, <1>a, <1>b, <1>10 DEF SealUndo, JoinedHeld
<1>11. CASE SealUndoFails
  BY <1>0, <1>a, <1>b, <1>11 DEF SealUndoFails, JoinedHeld
<1>12. CASE SealHeader
  BY <1>0, <1>a, <1>b, <1>12 DEF SealHeader, SealAdopt, Idle, Sealing, JoinedHeld,
     Activated, CurrentRead
<1>13. CASE SealHeaderFails
  BY <1>0, <1>a, <1>b, <1>13 DEF SealHeaderFails, SealAdopt, Idle, Sealing, JoinedHeld,
     Activated, CurrentRead
<1>14. CASE CommitRecord
  BY <1>0, <1>a, <1>b, <1>14 DEF Up, CommitRecord, Idle, Sealing, RecordInTrial, JoinedHeld,
     Activated, FloorReads
<1>15. CASE CommitRecordFails
  BY <1>0, <1>a, <1>b, <1>15 DEF Up, CommitRecordFails, Sealing, JoinedHeld, Activated,
     CurrentRead
<1>16. CASE CommitRows
  BY <1>0, <1>a, <1>b, <1>16 DEF Fields, Up, CommitRows, Idle, VerbKnows, RecordInTrial,
     JoinedHeld, Activated, FloorReads
<1>17. CASE CommitNoRows
  BY <1>0, <1>a, <1>b, <1>17 DEF Fields, Up, CommitNoRows, Idle, store, VerbKnows,
     RecordInTrial, JoinedHeld, Activated, FloorReads
<1>18. CASE CommitRowsFails
  BY <1>0, <1>a, <1>b, <1>18 DEF Fields, Up, CommitRowsFails, Idle, VerbKnows,
     RecordInTrial, JoinedHeld, Activated, FloorReads
<1>19. CASE RollbackNothing
  BY <1>0, <1>a, <1>b, <1>19 DEF RollbackNothing, Sealing, JoinedHeld, Activated,
     CurrentRead
<1>20. CASE RollbackRefused
  BY <1>0, <1>a, <1>b, <1>20 DEF Up, RollbackRefused, CanRollback, Idle, Sealing,
     JoinedHeld, Activated, CurrentRead
<1>21. CASE RollbackHeader
  BY <1>0, <1>a, <1>b, <1>21 DEF Up, RollbackHeader, CanRollback, Idle, Sealing, JoinedHeld,
     Activated, CurrentRead
<1>22. CASE RollbackHeaderFails
  BY <1>0, <1>a, <1>b, <1>22 DEF Up, RollbackHeaderFails, CanRollback, Idle, Sealing,
     JoinedHeld, Activated, CurrentRead
<1>23. CASE RollbackRecord
  BY <1>0, <1>a, <1>b, <1>23 DEF Up, RollbackRecord, Sealing, RecordInTrial, JoinedHeld,
     Activated, FloorReads
<1>24. CASE RollbackRecordFails
  BY <1>0, <1>a, <1>b, <1>24 DEF Up, RollbackRecordFails, Idle, Sealing, JoinedHeld,
     Activated, CurrentRead
<1>25. CASE RollbackRows
  BY <1>0, <1>a, <1>b, <1>25 DEF RollbackRows, RollbackAdopt, Idle, VerbKnows,
     RecordInTrial, JoinedHeld, Activated, FloorReads
<1>26. CASE RollbackRowsFails
  BY <1>0, <1>a, <1>b, <1>26 DEF RollbackRowsFails, RollbackAdopt, Idle, VerbKnows,
     RecordInTrial, JoinedHeld, Activated, FloorReads
<1>27. CASE Stop
  BY <1>0, <1>a, <1>b, ReadsKept, RowsKeptStop, <1>27 DEF Up, Stop, GoDown, Idle, store,
     Sealing, JoinedHeld, Activated, RoutesEverything
<1>28. CASE Reset
  BY <1>0, <1>a, <1>b, ReadsKept, <1>28 DEF Up, Reset, GoDown, Idle, store, Sealing,
     JoinedHeld, Activated
<1>29. CASE BootStageRollback
  BY <1>0, <1>a, <1>b, <1>29 DEF Up, BootStageRollback, Sealing, RecordInTrial, JoinedHeld,
     Activated, FloorReads
<1>30. CASE UNCHANGED vars
  BY <1>0, <1>30, ReadsKept DEF vars, JoinedHeld, Activated, Sealing, Up
<1> QED
  BY <1>1, <1>2, <1>3, <1>4, <1>5, <1>6, <1>7, <1>8, <1>9, <1>10, <1>11, <1>12, <1>13,
     <1>14, <1>15, <1>16, <1>17, <1>18, <1>19, <1>20, <1>21, <1>22, <1>23, <1>24, <1>25,
     <1>26, <1>27, <1>28, <1>29, <1>30
     DEF Next, Start, Seal, Commit, Rollback

\* A seeded node has nothing activated.
LEMMA JoinInit == Init => JoinInv
<1> SUFFICES ASSUME Init PROVE JoinedHeld
  <2>1. Init => faults.seen = {}
    BY DEF Init
  <2> QED
    BY <2>1, FloorInit DEF JoinInv
<1>1. ReadPrimary = past.floor
  <2>1. FloorHeld /\ RowsHeld /\ ~RecordInTrial
    <3>1. RowsKept
      BY DEF Init, RowsKept, Contained, Saw
    <3> QED
      BY <3>1, FloorInit DEF FloorInv, Init, RecordInTrial
  <2> QED
    BY <2>1, OrderInit, FloorRead DEF OrderInv, FloorReads
<1>2. op.pc = "serving" /\ mgr.pending = mgr.current
  BY DEF Init, Idle
<1> QED
  BY <1>1, <1>2 DEF JoinedHeld, Activated, Sealing

\* A component that boots something else than its floor was activated, with Ok, in
\* the standing trial, while the floor's rows survive and no activation fails where
\* it leaves its staging pending.  (SystemBankManager's pending selection; the
\* manager rows of activate.)
THEOREM TrialActivated ==
    ASSUME SealsSucceed PROVE Spec => [](RowsKept => TrialIsActivated)
<1>1. JoinInv => (RowsKept => TrialIsActivated)
  <2> SUFFICES ASSUME JoinInv, RowsKept, Settled PROVE Activated(ReadPrimary) /\ FloorReads
    BY DEF TrialIsActivated, Activated, FloorReads
  <2> QED
    BY FloorInvReads DEF JoinInv, JoinedHeld, Sealing, Settled
<1> QED
  BY <1>1, JoinInit, JoinStep, PTL DEF Spec

\* The failures that leave a trace in a store that routes every component.
Traceless == Faults \cap {"activate", "rows", "rows_in_trial", "undo", "committed", "fsync"} = {}

\* Without them the floor's rows are never lost.
LEMMA TracelessKept ==
    ASSUME Traceless, RoutesEverything PROVE JoinInv => RowsKept /\ SealsSucceed
BY DEF Traceless, SealsSucceed, JoinInv, RowsKept, Contained, Saw

\* One step of the store is one activation, one commit or one restore of the vectors
\* it reads, or none.
LEMMA VectorStep ==
    ASSUME Traceless, RoutesEverything, JoinInv, [Next]_vars
    PROVE  [Vector!Next]_<<ReadPrimary, ReadSecondary>>
<1>0. /\ RowsKept /\ Fields /\ StoreType /\ StoreType' /\ FloorReads
      /\ FloorHeld /\ CurrentRead /\ JoinedHeld
  BY TracelessKept, FloorInvReads, NumTypes, TypeStep, TypeParts DEF JoinInv, FloorInv,
     MemoryInv, OrderInv
<1>1. /\ ReadPrimary = primary.rows /\ ReadSecondary = secondary.rows
      /\ ReadPrimary' = primary'.rows /\ ReadSecondary' = secondary'.rows
  BY <1>0, RecordReads, RecordReadsNext DEF RecordRead
<1>2. ASSUME UNCHANGED <<primary, secondary>> PROVE UNCHANGED <<ReadPrimary, ReadSecondary>>
  BY <1>1, <1>2
<1>3. ASSUME primary' = secondary, secondary' = secondary PROVE Vector!Restore
  BY <1>1, <1>3 DEF Vector!Restore
<1>4. ASSUME secondary' = primary, primary' = primary PROVE Vector!Commit
  BY <1>1, <1>4 DEF Vector!Commit
<1>5. ASSUME NEW i \in Ids, NEW e \in Entry, SealRecord(i, e)
      PROVE Vector!Activate(i, e)
  <2>1. op.pc = "serving" /\ mgr \in MgrType /\ mgr.current[i] = mgr.committed[i]
    BY <1>0, <1>5 DEF SealRecord, MayActivate, Fields, Up
  <2>2. mgr.pending = ReadPrimary /\ mgr.current = ReadPrimary /\ mgr.committed = ReadSecondary
    BY <1>0, <2>1 DEF JoinedHeld, CurrentRead, FloorHeld, FloorReads, Sealing, Up
  <2>3. primary'.rows = Restriction([mgr.pending EXCEPT ![i] = e], RecordIds)
        /\ secondary' = secondary
    BY <1>5 DEF SealRecord, Staged
  <2>4. Restriction([mgr.pending EXCEPT ![i] = e], RecordIds) = [mgr.pending EXCEPT ![i] = e]
    BY <2>1 DEF Restriction, MgrType, RoutesEverything, Ids
  <2> QED
    BY <1>1, <2>1, <2>2, <2>3, <2>4 DEF Vector!Activate
<1>6. \A old, new, x : x \in FailedRecord(old, new) => x = old
  <2>1. "fsync" \notin faults'.seen
    BY SeenStep DEF JoinInv, FloorInv, MemoryInv, OrderInv, Traceless
  <2> QED
    BY <2>1, FailedWrite
<1>7. \/ \E i \in Ids, e \in Entry : SealRecord(i, e)
      \/ primary' = secondary /\ secondary' = secondary
      \/ secondary' = primary /\ primary' = primary
      \/ UNCHANGED <<primary, secondary>>
  <2>1. CASE Start
    BY <2>1 DEF Start, Load, LoadUnrecorded, ObserveUncounted, ObserveCounted, ObserveFails,
       store
  <2>2. CASE Seal
    BY <1>6, <2>2 DEF Seal, SealRecordFails, SealRows, SealRowsFails, SealUndo,
       SealUndoFails, SealHeader, SealHeaderFails
  <2>3. CASE Commit
    BY <1>6, <2>3 DEF Commit, CommitRecord, CommitRecordFails, CommitRows, CommitNoRows,
       CommitRowsFails, store
  <2>4. CASE Rollback
    BY <1>6, <2>4 DEF Rollback, RollbackNothing, RollbackRefused, RollbackHeader,
       RollbackHeaderFails, RollbackRecord, RollbackRecordFails, RollbackRows,
       RollbackRowsFails, store
  <2>5. CASE Stop \/ Reset \/ BootStageRollback
    BY <2>5 DEF Stop, Reset, BootStageRollback, store
  <2>6. CASE UNCHANGED vars
    BY <2>6 DEF vars
  <2> QED
    BY <2>1, <2>2, <2>3, <2>4, <2>5, <2>6 DEF Next
<1> QED
  BY <1>2, <1>3, <1>4, <1>5, <1>7 DEF Vector!Next

\* A store that routes every component shows two whole vectors that change by one
\* activation, one commit or one restore at a time, although each verb takes several
\* writes and any of them may be cut.  (The reference FileSelectorStore.)
THEOREM VectorRefined ==
    ASSUME Traceless, RoutesEverything PROVE Spec => VectorSpec
<1>1. SealsSucceed
  BY DEF Traceless, SealsSucceed
<1>2. Init => Vector!Init
  <2> SUFFICES ASSUME Init PROVE Vector!Init
    OBVIOUS
  <2>1. StoreType /\ primary = secondary
    BY TypeInit, TypeParts, OrderInit DEF Init
  <2> QED
    BY <2>1, RecordReads, ReadsType DEF Vector!Init, RecordRead
<1>3. JoinInv /\ [Next]_vars => JoinInv'
  BY <1>1, JoinStep
<1>4. JoinInv /\ [Next]_vars => [Vector!Next]_<<ReadPrimary, ReadSecondary>>
  BY VectorStep
<1> QED
  BY <1>2, <1>3, <1>4, JoinInit, PTL DEF Spec, VectorSpec, Vector!Spec

=============================================================================
