--------------------------- MODULE NvRegionProofs ---------------------------
(***************************************************************************)
(* PowerLossSafe for a region of any size: as long as fewer than           *)
(* NumSectors writes in a row lose power and the sequence number does not  *)
(* wrap, a read answers the last acknowledged record or one in doubt.      *)
(***************************************************************************)
EXTENDS NvRegion, FiniteSetTheorems, TLAPS

\* The two bounds the argument needs.
Bounded == MaxTornRun < NumSectors /\ MaxWrites < SeqModulus /\ 1 < SeqModulus /\ 1 <= MaxWrites

USE NumSectorsAssumption, SeqModulusAssumption, MaxWritesAssumption,
    MaxTornRunAssumption, NoRecordAssumption

(***************************************************************************)
(* The indices of a region: NumSectors of them.                            *)
(***************************************************************************)
LEMMA IndexFinite == IsFiniteSet(Index) /\ Cardinality(Index) = NumSectors
<1>1. 0 \in Int /\ NumSectors - 1 \in Int
  OBVIOUS
<1>2. /\ IsFiniteSet(0 .. NumSectors - 1)
      /\ Cardinality(0 .. NumSectors - 1)
            = IF 0 > NumSectors - 1 THEN 0 ELSE (NumSectors - 1) - 0 + 1
  BY <1>1, FS_Interval
<1> QED
  BY <1>2 DEF Index

(***************************************************************************)
(* The sequence number write_record issues is above every header, and has  *)
(* not wrapped.                                                            *)
(***************************************************************************)
LEMMA NextSeqAbove ==
    ASSUME Bounded, RotationInv, writes < MaxWrites,
           NEW m \in SeqNo, IsMaxSeq(m)
    PROVE  /\ NextSeq(m) = m + 1
           /\ NextSeq(m) \in SeqNo
           /\ NextSeq(m) <= writes + 1
           /\ \A i \in Written : sector[i].seq < NextSeq(m)
<1>1. m <= writes
  BY DEF RotationInv, HeadersDistinct, TypeOK, IsMaxSeq, SeqNo
<1>2. NextSeq(m) = m + 1 /\ NextSeq(m) \in SeqNo
  BY <1>1 DEF Bounded, NextSeq, SeqNo, RotationInv, TypeOK
<1>3. \A i \in Written : sector[i].seq \in Nat /\ sector[i].seq <= m
  BY DEF RotationInv, TypeOK, Sector, SeqNo, Written, IsMaxSeq
<1> QED
  BY <1>1, <1>2, <1>3 DEF SeqNo, RotationInv, TypeOK

(***************************************************************************)
(* The heart of the rotation: while fewer than NumSectors - 1 writes in a  *)
(* row have lost power, the sector write_record picks is neither the one   *)
(* that holds the acknowledged record nor the one a read would answer from.*)
(***************************************************************************)
LEMMA TargetSparesAcked ==
    ASSUME Bounded, RotationInv, tornRun < MaxTornRun,
           NEW t \in Index, IsTarget(t),
           NEW a \in Index, HoldsAcked(a)
    PROVE  t # a
<1> SUFFICES ASSUME t = a
             PROVE  FALSE
  OBVIOUS
<1>1. a \in Written
  BY DEF HoldsAcked, Valid, Written
<1>2. Written = Index
  BY <1>1 DEF IsTarget
<1>3. \A j \in Index \ {a} : sector[j].seq > sector[a].seq
  <2> SUFFICES ASSUME NEW j \in Index \ {a}
               PROVE  sector[j].seq > sector[a].seq
    OBVIOUS
  <2>1. sector[a].seq <= sector[j].seq
    BY <1>2 DEF IsTarget, RotationInv, TypeOK, Sector, SeqNo
  <2>2. sector[a].seq # sector[j].seq
    BY <1>2 DEF RotationInv, HeadersDistinct
  <2> QED
    BY <2>1, <2>2 DEF RotationInv, TypeOK, Sector, SeqNo
<1>4. Index \ {a} \subseteq Above(a)
  BY <1>2, <1>3 DEF Above
<1>5. Above(a) \subseteq Index
  BY DEF Above, Written
<1>6. IsFiniteSet(Above(a))
  BY <1>5, IndexFinite, FS_Subset
<1>7. Cardinality(Index \ {a}) = NumSectors - 1
  BY IndexFinite, FS_RemoveElement
<1>8. Cardinality(Index \ {a}) <= Cardinality(Above(a))
  BY <1>4, <1>6, FS_Subset
<1>9. Cardinality(Above(a)) \in Nat
  BY <1>6, FS_CardinalityType
<1> QED
  BY <1>7, <1>8, <1>9 DEF HoldsAcked, Bounded, RotationInv, TypeOK

(***************************************************************************)
(* Nor is it, while the acknowledged record is in place, the sector a read *)
(* answers from.                                                           *)
(***************************************************************************)
LEMMA TargetSparesBest ==
    ASSUME Bounded, RotationInv, tornRun < MaxTornRun,
           NEW t \in Index, IsTarget(t),
           NEW b \in Index, IsBest(b)
    PROVE  t # b
<1>1. PICK a \in Index : HoldsAcked(a)
  BY DEF RotationInv
<1>2. t # a
  BY <1>1, TargetSparesAcked
<1> SUFFICES ASSUME t = b
             PROVE  FALSE
  OBVIOUS
<1>3. Written = Index
  BY DEF IsTarget, IsBest, Valid, Written
<1>4. sector[t].seq <= sector[a].seq /\ sector[a].seq <= sector[b].seq
  BY <1>1, <1>3 DEF IsTarget, IsBest, HoldsAcked, RotationInv, TypeOK, Sector, SeqNo
<1> QED
  BY <1>2, <1>3, <1>4 DEF RotationInv, TypeOK, HeadersDistinct, Sector, SeqNo

(***************************************************************************)
(* A write that returns Ok re-establishes the invariant around the sector  *)
(* it wrote.                                                               *)
(***************************************************************************)
LEMMA WriteKeeps ==
    ASSUME Bounded, RotationInv, NEW r \in Records, WriteRecord(r)
    PROVE  RotationInv'
<1>1. PICK t \in Index, m \in SeqNo :
          /\ IsTarget(t)
          /\ IsMaxSeq(m)
          /\ sector' = [sector EXCEPT ![t] = Frame(m, r, TRUE)]
  BY DEF WriteRecord
<1>2. /\ writes < MaxWrites /\ acked' = r /\ inDoubt' = {}
      /\ tornRun' = 0 /\ writes' = writes + 1
  BY DEF WriteRecord
<1>3. /\ NextSeq(m) = m + 1 /\ NextSeq(m) \in SeqNo /\ NextSeq(m) <= writes + 1
      /\ \A i \in Written : sector[i].seq < NextSeq(m)
  BY <1>1, <1>2, NextSeqAbove
<1>4. sector \in [Index -> Sector] /\ writes \in Nat
  BY DEF RotationInv, TypeOK
<1>5. /\ sector'[t] = Frame(m, r, TRUE)
      /\ \A i \in Index : i # t => sector'[i] = sector[i]
  BY <1>1, <1>4
<1>6. TypeOK'
  <2>1. Frame(m, r, TRUE) \in Sector
    BY <1>3 DEF Frame, Sector
  <2>2. sector' \in [Index -> Sector]
    BY <1>1, <1>4, <2>1
  <2>3. tornRun' \in 0 .. MaxTornRun /\ writes' \in 0 .. MaxWrites
    BY <1>2, <1>4
  <2> QED
    BY <1>2, <2>2, <2>3 DEF TypeOK
<1>7. Written' = Written \cup {t}
  BY <1>5, <1>4 DEF Written, Frame
<1>8. \A i \in Index : i # t /\ i \in Written' => sector'[i].seq < sector'[t].seq
  BY <1>3, <1>5, <1>7 DEF Frame
<1>9. HeadersDistinct'
  <2>1. ASSUME NEW i \in Written', NEW j \in Written', i # j
        PROVE  sector'[i].seq # sector'[j].seq
    <3>1. i \in Index /\ j \in Index
      BY DEF Written
    <3>2. sector'[i].seq \in Nat /\ sector'[j].seq \in Nat /\ sector'[t].seq \in Nat
      BY <1>6, <3>1 DEF TypeOK, Sector, SeqNo
    <3>3. CASE i = t
      BY <3>1, <3>2, <3>3, <2>1, <1>8
    <3>4. CASE j = t
      BY <3>1, <3>2, <3>4, <2>1, <1>8
    <3>5. CASE i # t /\ j # t
      <4>1. i \in Written /\ j \in Written
        BY <3>5, <1>7
      <4> QED
        BY <4>1, <3>1, <3>5, <2>1, <1>5 DEF RotationInv, HeadersDistinct
    <3> QED
      BY <3>3, <3>4, <3>5
  <2>2. ASSUME NEW i \in Written'
        PROVE  sector'[i].seq <= writes'
    <3>1. i \in Index
      BY DEF Written
    <3>2. CASE i = t
      BY <3>2, <1>2, <1>3, <1>5 DEF Frame
    <3>3. CASE i # t
      <4>1. i \in Written /\ sector'[i] = sector[i]
        BY <3>1, <3>3, <1>5, <1>7
      <4> QED
        BY <4>1, <3>1, <1>2, <1>4 DEF RotationInv, HeadersDistinct, Sector, SeqNo
    <3> QED
      BY <3>2, <3>3
  <2> QED
    BY <2>1, <2>2 DEF HeadersDistinct
<1>10. HoldsAcked(t)'
  <2>1. Valid(t)' /\ sector'[t].rec = acked'
    BY <1>2, <1>5 DEF Valid, Frame
  <2>2. \A j \in Index : j \in Written' => ~(sector'[j].seq > sector'[t].seq)
    BY <1>6, <1>8 DEF TypeOK, Sector, SeqNo
  <2>3. Above(t)' = {}
    BY <2>2 DEF Above, Written
  <2>4. Cardinality(Above(t)') = 0
    BY <2>3, FS_EmptySet
  <2>5. \A j \in Index : Valid(j)' => j \in Written'
    BY DEF Valid, Written
  <2> QED
    BY <1>2, <2>1, <2>2, <2>4, <2>5 DEF HoldsAcked
<1>11. IsBest(t)'
  <2>1. Valid(t)' /\ \A j \in Index : Valid(j)' => j \in Written'
    BY <1>5 DEF Valid, Written, Frame
  <2>2. t <= t
    BY DEF Index
  <2> QED
    BY <1>8, <2>1, <2>2 DEF IsBest
<1> QED
  BY <1>6, <1>9, <1>10, <1>11 DEF RotationInv

(***************************************************************************)
(* A write that loses power leaves the acknowledged record where it was,   *)
(* with at most one more sector above it.                                  *)
(***************************************************************************)
LEMMA TornKeeps ==
    ASSUME Bounded, RotationInv, NEW r \in Records, TornWrite(r)
    PROVE  RotationInv'
<1>1. PICK t \in Index, m \in SeqNo :
          /\ IsTarget(t)
          /\ IsMaxSeq(m)
          /\ \E s \in {Frame(m, r, TRUE), Frame(m, r, FALSE), Empty, sector[t]} :
                sector' = [sector EXCEPT ![t] = s]
  BY DEF TornWrite
<1>2. PICK s \in {Frame(m, r, TRUE), Frame(m, r, FALSE), Empty, sector[t]} :
          sector' = [sector EXCEPT ![t] = s]
  BY <1>1
<1>3. /\ writes < MaxWrites /\ tornRun < MaxTornRun /\ acked' = acked
      /\ inDoubt' = inDoubt \cup {r} /\ tornRun' = tornRun + 1 /\ writes' = writes + 1
  BY DEF TornWrite
<1>4. /\ NextSeq(m) = m + 1 /\ NextSeq(m) \in SeqNo /\ NextSeq(m) <= writes + 1
      /\ \A i \in Written : sector[i].seq < NextSeq(m)
  BY <1>1, <1>3, NextSeqAbove
<1>5. /\ sector \in [Index -> Sector] /\ writes \in Nat /\ tornRun \in Nat
      /\ acked \in Records /\ inDoubt \subseteq Records
  BY DEF RotationInv, TypeOK
<1>6. /\ sector'[t] = s
      /\ \A i \in Index : i # t => sector'[i] = sector[i]
  BY <1>2, <1>5
<1>7. s \in Sector
  <2>1. Frame(m, r, TRUE) \in Sector /\ Frame(m, r, FALSE) \in Sector
    BY <1>4 DEF Frame, Sector
  <2>2. Empty \in Sector
    BY DEF Empty, Sector, SeqNo
  <2> QED
    BY <2>1, <2>2, <1>2, <1>5
<1>8. TypeOK'
  BY <1>2, <1>3, <1>5, <1>7 DEF TypeOK
<1>9. s.magic => \/ s.seq = NextSeq(m) /\ s.rec = r
                 \/ s = sector[t] /\ t \in Written
  BY <1>2, <1>5, <1>7 DEF Frame, Empty, Written
<1>10. HeadersDistinct'
  <2>1. ASSUME NEW i \in Written', NEW j \in Written', i # j
        PROVE  sector'[i].seq # sector'[j].seq
    <3>1. i \in Index /\ j \in Index
      BY DEF Written
    <3>2. \A k \in Written' : k # t => k \in Written /\ sector'[k] = sector[k]
      BY <1>6 DEF Written
    <3>3. \A k \in Written : sector[k].seq \in Nat
      BY <1>5 DEF Written, Sector, SeqNo
    <3>4. CASE i # t /\ j # t
      BY <3>2, <3>4, <2>1 DEF RotationInv, HeadersDistinct
    <3>5. ASSUME NEW k \in Written', k # t, t \in Written'
          PROVE  sector'[k].seq # sector'[t].seq
      <4>1. s.magic
        BY <3>5, <1>6 DEF Written
      <4>2. CASE s.seq = NextSeq(m)
        BY <4>2, <3>5, <3>2, <3>3, <1>4, <1>6 DEF SeqNo
      <4>3. CASE s = sector[t] /\ t \in Written
        BY <4>3, <3>5, <3>2, <1>6 DEF RotationInv, HeadersDistinct
      <4> QED
        BY <4>1, <4>2, <4>3, <1>9
    <3> QED
      BY <3>4, <3>5, <2>1
  <2>2. ASSUME NEW i \in Written'
        PROVE  sector'[i].seq <= writes'
    <3>1. i \in Index /\ sector'[i].magic
      BY DEF Written
    <3>2. CASE i # t
      <4>1. i \in Written /\ sector'[i] = sector[i]
        BY <3>1, <3>2, <1>6 DEF Written
      <4> QED
        BY <4>1, <3>1, <1>3, <1>5 DEF RotationInv, HeadersDistinct, Sector, SeqNo
    <3>3. CASE i = t
      <4>1. s.magic /\ sector'[i] = s
        BY <3>1, <3>3, <1>6
      <4>2. CASE s.seq = NextSeq(m)
        BY <4>1, <4>2, <1>3, <1>4
      <4>3. CASE s = sector[t] /\ t \in Written
        BY <4>1, <4>3, <1>3, <1>5 DEF RotationInv, HeadersDistinct, Sector, SeqNo
      <4> QED
        BY <4>1, <4>2, <4>3, <1>9
    <3> QED
      BY <3>2, <3>3
  <2> QED
    BY <2>1, <2>2 DEF HeadersDistinct
<1>11. \E a \in Index : HoldsAcked(a)'
  <2>1. PICK a \in Index : HoldsAcked(a)
    BY DEF RotationInv
  <2>2. t # a
    BY <1>1, <1>3, <2>1, TargetSparesAcked
  <2>3. sector'[a] = sector[a]
    BY <2>2, <1>6
  <2>4. Valid(a)' /\ sector'[a].rec = acked'
    BY <2>1, <2>3, <1>3 DEF HoldsAcked, Valid
  <2>5. ASSUME NEW j \in Index, Valid(j)', sector'[j].seq > sector'[a].seq
        PROVE  sector'[j].rec \in inDoubt'
    <3>1. CASE j # t
      <4>1. sector'[j] = sector[j]
        BY <3>1, <1>6
      <4>2. Valid(j) /\ sector[j].seq > sector[a].seq
        BY <4>1, <2>3, <2>5 DEF Valid
      <4> QED
        BY <4>1, <4>2, <2>1, <1>3 DEF HoldsAcked
    <3>2. CASE j = t
      <4>1. s.magic /\ s.crc /\ sector'[j] = s
        BY <3>2, <2>5, <1>6 DEF Valid
      <4>2. CASE s.rec = r
        BY <4>1, <4>2, <1>3
      <4>3. CASE s = sector[t]
        <5>1. Valid(t) /\ sector[t].seq > sector[a].seq
          BY <4>1, <4>3, <2>3, <2>5, <3>2 DEF Valid
        <5> QED
          BY <5>1, <4>1, <4>3, <2>1, <1>3 DEF HoldsAcked
      <4> QED
        BY <4>1, <4>2, <4>3, <1>9
    <3> QED
      BY <3>1, <3>2
  <2>6. Cardinality(Above(a)') <= tornRun'
    <3>1. Above(a)' \subseteq Above(a) \cup {t}
      BY <1>6, <2>3 DEF Above, Written
    <3>2. Above(a) \subseteq Index
      BY DEF Above, Written
    <3>3. IsFiniteSet(Above(a))
      BY <3>2, IndexFinite, FS_Subset
    <3>4. /\ IsFiniteSet(Above(a) \cup {t})
          /\ Cardinality(Above(a) \cup {t})
                = IF t \in Above(a) THEN Cardinality(Above(a)) ELSE Cardinality(Above(a)) + 1
      BY <3>3, FS_AddElement
    <3>5. IsFiniteSet(Above(a)') /\ Cardinality(Above(a)') <= Cardinality(Above(a) \cup {t})
      BY <3>1, <3>4, FS_Subset
    <3>6. Cardinality(Above(a)) \in Nat /\ Cardinality(Above(a)') \in Nat
      BY <3>3, <3>5, FS_CardinalityType
    <3>7. Cardinality(Above(a)) <= tornRun
      BY <2>1 DEF HoldsAcked
    <3> QED
      BY <3>4, <3>5, <3>6, <3>7, <1>3, <1>5
  <2> QED
    BY <2>4, <2>5, <2>6 DEF HoldsAcked
<1>12. \E b \in Index : IsBest(b)'
  <2>1. PICK b \in Index : IsBest(b)
    BY DEF RotationInv
  <2>2. t # b
    BY <1>1, <1>3, <2>1, TargetSparesBest
  <2>3. sector'[b] = sector[b]
    BY <2>2, <1>6
  <2>4. CASE s = Frame(m, r, TRUE)
    <3>1. \A j \in Index : j # t /\ Valid(j)' => sector'[j].seq < sector'[t].seq
      BY <2>4, <1>4, <1>6 DEF Valid, Written, Frame
    <3>2. Valid(t)' /\ t <= t
      BY <2>4, <1>6 DEF Valid, Frame, Index
    <3>3. IsBest(t)'
      BY <3>1, <3>2 DEF IsBest
    <3> QED
      BY <3>3
  <2>5. CASE ~(s.magic /\ s.crc)
    BY <2>1, <2>2, <2>3, <2>5, <1>6 DEF IsBest, Valid
  <2>6. CASE s = sector[t]
    BY <2>1, <2>6, <1>2, <1>5, <1>6 DEF IsBest, Valid
  <2>7. ~Frame(m, r, FALSE).crc /\ ~Empty.magic
    BY DEF Frame, Empty
  <2> QED
    BY <2>4, <2>5, <2>6, <2>7, <1>2
<1> QED
  BY <1>8, <1>10, <1>11, <1>12 DEF RotationInv

(***************************************************************************)
(* The provisioned region satisfies the invariant.                         *)
(***************************************************************************)
LEMMA InitKeeps == Bounded /\ Init => RotationInv
<1> SUFFICES ASSUME Bounded, Init
             PROVE  RotationInv
  OBVIOUS
<1>1. PICK r \in Records :
        /\ sector = [i \in Index |-> IF i = 0
                                     THEN [magic |-> TRUE, seq |-> NextSeq(0),
                                           crc |-> TRUE, rec |-> r]
                                     ELSE Empty]
        /\ acked = r
  BY DEF Init
<1>2. NextSeq(0) = 1 /\ NextSeq(0) \in SeqNo /\ 0 \in SeqNo /\ 0 \in Index
  BY DEF NextSeq, SeqNo, Bounded, Index
<1>3. /\ sector[0].magic /\ sector[0].crc /\ sector[0].seq = 1 /\ sector[0].rec = acked
      /\ \A i \in Index : i # 0 => ~sector[i].magic
  BY <1>1, <1>2 DEF Empty
<1>4. TypeOK
  BY <1>1, <1>2 DEF Init, TypeOK, Sector, Empty, Bounded
<1>5. Written = {0}
  BY <1>2, <1>3 DEF Written
<1>6. HeadersDistinct
  BY <1>3, <1>5 DEF HeadersDistinct, Init
<1>7. Above(0) = {}
  BY <1>3, <1>5 DEF Above
<1>8. HoldsAcked(0)
  BY <1>3, <1>7, FS_EmptySet DEF HoldsAcked, Valid, Init
<1>9. IsBest(0)
  BY <1>2, <1>3 DEF IsBest, Valid
<1> QED
  BY <1>2, <1>4, <1>6, <1>8, <1>9 DEF RotationInv

(***************************************************************************)
(* A read in a state of the invariant answers the acknowledged record or   *)
(* one in doubt.                                                           *)
(***************************************************************************)
LEMMA RotationInvSafe == RotationInv => PowerLossSafe
<1> SUFFICES ASSUME RotationInv
             PROVE  PowerLossSafe
  OBVIOUS
<1>1. PICK a \in Index : HoldsAcked(a)
  BY DEF RotationInv
<1> DEFINE c == CHOOSE i \in Index : IsBest(i)
<1>2. c \in Index /\ IsBest(c)
  BY DEF RotationInv
<1>3. ReadRecord = sector[c].rec
  BY <1>2 DEF ReadRecord, IsBest
<1> HIDE DEF c
<1>4. Valid(a) /\ Valid(c)
  BY <1>1, <1>2 DEF HoldsAcked, IsBest
<1>5. sector[a].seq \in Nat /\ sector[c].seq \in Nat
  BY <1>1, <1>2 DEF RotationInv, TypeOK, Sector, SeqNo
<1>6. CASE sector[c].seq > sector[a].seq
  BY <1>1, <1>2, <1>3, <1>4, <1>6 DEF HoldsAcked, PowerLossSafe
<1>7. CASE sector[c].seq = sector[a].seq
  <2>1. a \in Written /\ c \in Written
    BY <1>1, <1>2, <1>4 DEF Valid, Written
  <2>2. a = c
    BY <2>1, <1>7 DEF RotationInv, HeadersDistinct
  <2> QED
    BY <2>2, <1>1, <1>3 DEF HoldsAcked, PowerLossSafe
<1>8. ~(sector[c].seq < sector[a].seq)
  BY <1>2, <1>4, <1>5 DEF IsBest
<1> QED
  BY <1>5, <1>6, <1>7, <1>8

(***************************************************************************)
(* The rotation invariant holds in every behaviour of the region in which  *)
(* fewer than NumSectors writes in a row lose power and no sequence number *)
(* wraps.                                                                  *)
(***************************************************************************)
THEOREM RotationCorrect == Bounded => (Spec => []RotationInv)
<1> SUFFICES ASSUME Bounded
             PROVE  Spec => []RotationInv
  OBVIOUS
<1>1. Init => RotationInv
  BY InitKeeps
<1>2. RotationInv /\ [Next]_vars => RotationInv'
  <2> SUFFICES ASSUME RotationInv, [Next]_vars
               PROVE  RotationInv'
    OBVIOUS
  <2>1. ASSUME NEW r \in Records, WriteRecord(r)
        PROVE  RotationInv'
    BY <2>1, WriteKeeps
  <2>2. ASSUME NEW r \in Records, TornWrite(r)
        PROVE  RotationInv'
    BY <2>2, TornKeeps
  <2>3. CASE UNCHANGED vars
    BY <2>3 DEF vars, RotationInv, TypeOK, HeadersDistinct, HoldsAcked, IsBest,
                Valid, Above, Written
  <2> QED
    BY <2>1, <2>2, <2>3 DEF Next
<1> QED
  BY <1>1, <1>2, PTL DEF Spec

(***************************************************************************)
(* Power-loss safety of read_record / write_record for a region of any     *)
(* number of sectors and any set of records.                               *)
(***************************************************************************)
THEOREM PowerLossSafety == Bounded => (Spec => []PowerLossSafe)
<1> SUFFICES ASSUME Bounded
             PROVE  Spec => []PowerLossSafe
  OBVIOUS
<1>1. Spec => []RotationInv
  BY RotationCorrect
<1>2. RotationInv => PowerLossSafe
  BY RotationInvSafe
<1> QED
  BY <1>1, <1>2, PTL
=============================================================================
