------------------------------ MODULE NvRegion ------------------------------
(***************************************************************************)
(* One rotated region of the NV store (crates/nv-store/src/store.rs): a    *)
(* record lives in one of NumSectors sectors, each write goes to the next  *)
(* sector under the next sequence number, and a read takes the sector with *)
(* the highest sequence number whose CRC holds.                            *)
(*                                                                         *)
(* A sector is what the two scans can tell apart: whether its magic is     *)
(* there, the sequence number of its header, whether its CRC holds, and    *)
(* the record it carries.  A write that loses power leaves the sector      *)
(* untouched, erased, or with the new header over a body whose CRC fails.  *)
(***************************************************************************)
EXTENDS Naturals, FiniteSets

CONSTANTS NumSectors,   \* sectors of the region (2 for boot state, 4 for firmware meta)
          SeqModulus,   \* sequence numbers are modulo this (2^32 in the code)
          Records,      \* the records a caller may write
          NoRecord,     \* what a read answers when no sector is valid
          MaxWrites,    \* bound: writes attempted in a behaviour
          MaxTornRun    \* bound: writes in a row that may lose power

ASSUME NumSectorsAssumption == NumSectors \in Nat \ {0}
ASSUME SeqModulusAssumption == SeqModulus \in Nat \ {0}
ASSUME MaxWritesAssumption == MaxWrites \in Nat
ASSUME MaxTornRunAssumption == MaxTornRun \in Nat
ASSUME NoRecordAssumption == NoRecord \notin Records

VARIABLES sector,    \* the region: sector index -> sector
          acked,     \* the record of the last write that returned Ok
          inDoubt,   \* the records of the writes that lost power since then
          tornRun,   \* how many writes in a row lost power
          writes     \* writes attempted

vars == <<sector, acked, inDoubt, tornRun, writes>>

Index == 0 .. NumSectors - 1
SeqNo == 0 .. SeqModulus - 1

Sector == [magic : BOOLEAN, seq : SeqNo, crc : BOOLEAN, rec : Records \cup {NoRecord}]

\* A sector never written, or erased: no magic.
Empty == [magic |-> FALSE, seq |-> 0, crc |-> FALSE, rec |-> NoRecord]

----------------------------------------------------------------------------
(* read_record: the valid sector with the highest sequence number, the     *)
(* first of them on a tie (the scan replaces its best only by a higher).   *)

Valid(i) == sector[i].magic /\ sector[i].crc

IsBest(i) ==
    /\ i \in Index
    /\ Valid(i)
    /\ \A j \in Index : Valid(j) => \/ sector[j].seq < sector[i].seq
                                    \/ sector[j].seq = sector[i].seq /\ i <= j

ReadRecord ==
    IF \E i \in Index : Valid(i)
    THEN sector[CHOOSE i \in Index : IsBest(i)].rec
    ELSE NoRecord

----------------------------------------------------------------------------
(* write_record: the scan looks at the raw headers only (magic and         *)
(* sequence number); the CRC is not verified.                              *)

Written == {i \in Index : sector[i].magic}

\* Mutant of IsTarget: the highest sequence number instead of the lowest.
IsTargetNewest(t) ==
    /\ t \in Index
    /\ IF Written # Index
       THEN t \notin Written /\ \A i \in Index \ Written : t <= i
       ELSE \A i \in Index : \/ sector[t].seq > sector[i].seq
                             \/ sector[t].seq = sector[i].seq /\ t <= i

\* The first sector without magic, else the first one with the lowest
\* sequence number.
IsTarget(t) ==
    /\ t \in Index
    /\ IF Written # Index
       THEN t \notin Written /\ \A i \in Index \ Written : t <= i
       ELSE \A i \in Index : \/ sector[t].seq < sector[i].seq
                             \/ sector[t].seq = sector[i].seq /\ t <= i

\* The highest sequence number of the headers; max_seq starts at 0.
IsMaxSeq(m) ==
    /\ \A i \in Written : sector[i].seq <= m
    /\ m = 0 \/ \E i \in Written : sector[i].seq = m

\* Mutant of NextSeq: the sequence number is not advanced.
NextSeqSame(m) == m

\* `max_seq.wrapping_add(1)`.
NextSeq(m) == IF m + 1 = SeqModulus THEN 0 ELSE m + 1

\* The new sector, complete or with a body that fails its CRC.
Frame(m, r, crc) == [magic |-> TRUE, seq |-> NextSeq(m), crc |-> crc, rec |-> r]

\* The write and the sync after it return Ok: the record is acknowledged.
WriteRecord(r) ==
    /\ writes < MaxWrites
    /\ \E t \in Index, m \in SeqNo :
          /\ IsTarget(t)
          /\ IsMaxSeq(m)
          /\ sector' = [sector EXCEPT ![t] = Frame(m, r, TRUE)]
    /\ acked' = r
    /\ inDoubt' = {}
    /\ tornRun' = 0
    /\ writes' = writes + 1

\* Power is lost inside the write: the target sector is whole but the caller
\* never learns it, torn behind the new header, erased, or not yet touched.
TornWrite(r) ==
    /\ writes < MaxWrites
    /\ tornRun < MaxTornRun
    /\ \E t \in Index, m \in SeqNo :
          /\ IsTarget(t)
          /\ IsMaxSeq(m)
          /\ \E s \in {Frame(m, r, TRUE), Frame(m, r, FALSE), Empty, sector[t]} :
                sector' = [sector EXCEPT ![t] = s]
    /\ inDoubt' = inDoubt \cup {r}
    /\ tornRun' = tornRun + 1
    /\ writes' = writes + 1
    /\ UNCHANGED acked

----------------------------------------------------------------------------
\* A provisioned region: the first record was written and acknowledged.
Init ==
    /\ \E r \in Records :
          /\ sector = [i \in Index |-> IF i = 0
                                       THEN [magic |-> TRUE, seq |-> NextSeq(0),
                                             crc |-> TRUE, rec |-> r]
                                       ELSE Empty]
          /\ acked = r
    /\ inDoubt = {}
    /\ tornRun = 0
    /\ writes = 1

Next == \E r \in Records : WriteRecord(r) \/ TornWrite(r)

Spec == Init /\ [][Next]_vars

----------------------------------------------------------------------------
\* Every variable keeps its type; sequence numbers keep their width.
TypeOK ==
    /\ sector \in [Index -> Sector]
    /\ acked \in Records
    /\ inDoubt \subseteq Records
    /\ tornRun \in 0 .. MaxTornRun
    /\ writes \in 0 .. MaxWrites

(***************************************************************************)
(* Power-loss safety of the rotation: whatever writes lost power, a read   *)
(* answers the last acknowledged record or one whose write was in flight   *)
(* when the power went - never an older record and never "no record".      *)
(* (read_record over what write_record leaves behind.)                     *)
(***************************************************************************)
PowerLossSafe == ReadRecord \in {acked} \cup inDoubt

----------------------------------------------------------------------------
(* The inductive invariant behind PowerLossSafe.                           *)

\* The sectors whose header is newer than sector a's.
Above(a) == {j \in Written : sector[j].seq > sector[a].seq}

\* Sector a holds the acknowledged record; what is newer is in doubt, and
\* there is at most one newer sector per write that lost power since.
HoldsAcked(a) ==
    /\ Valid(a)
    /\ sector[a].rec = acked
    /\ \A j \in Index : Valid(j) /\ sector[j].seq > sector[a].seq
                           => sector[j].rec \in inDoubt
    /\ Cardinality(Above(a)) <= tornRun

\* No two headers share a sequence number and none has wrapped.
HeadersDistinct ==
    /\ \A i, j \in Written : i # j => sector[i].seq # sector[j].seq
    /\ \A i \in Written : sector[i].seq <= writes

\* What write_record keeps true between two writes, as long as the power is
\* lost in fewer than NumSectors writes in a row: the inductive strengthening
\* of PowerLossSafe.
RotationInv ==
    /\ TypeOK
    /\ HeadersDistinct
    /\ \E a \in Index : HoldsAcked(a)
    /\ \E b \in Index : IsBest(b)
=============================================================================
