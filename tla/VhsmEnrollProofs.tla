-------------------------- MODULE VhsmEnrollProofs --------------------------
(***************************************************************************)
(* Inductive invariants of the enrolments, for the theorems of             *)
(* VhsmServerProofs.  SpentInv is about what bootstrap.yaml records:       *)
(* memory and the file agree but for the save in progress and the saves    *)
(* that failed.  ArmInv is about what it still allows: what the file, the  *)
(* daemon's copy and the backend's copy allow together is within what the  *)
(* guest was given.                                                        *)
(***************************************************************************)
EXTENDS VhsmEnroll, TLAPS

\* A restart, whether or not it can read the stored handles.
Restarts == Restart /\ (UNCHANGED faults \/ Faulty("disk_fault"))

\* Every step of the daemon, the clients and the backend.
EnrolNext == EnrolStep \/ (\E c \in Conns : Leave(c)) \/ Restarts

ConnType == [st : {"closed", "nonce", "write", "rename", "got", "keyed", "certed", "auth"},
             vm : Vms, kind : {"none", "token", "assisted"}, cert : 0..MaxCerts]

\* There is a guest.
LEMMA SomeVmType == SomeVm \in Vms
BY VmsAssumption DEF SomeVm

\* The values that stand for nothing have their types.
LEMMA NoneType == NoConn \in ConnType /\ NoDoc \in Docs /\ OldCert \in 0..1
BY SomeVmType, BoundsAssumption DEF NoConn, ConnType, NoDoc, Docs, Absent, NoCert, OldCert

\* The rest of the type.
RestType ==
    /\ traffic \in Traffics
    /\ file \in Docs /\ mem \in Docs /\ behind \in BOOLEAN
    /\ tmp \subseteq Docs /\ \A d, e \in tmp : d = e
    /\ backend \in [pc : {"idle", "write", "rename"}, doc : Docs, moved : BOOLEAN]
    /\ guest \in [Vms -> [key : 0..MaxCerts, cert : 0..MaxCerts, token : BOOLEAN]]
    /\ issued \in [Vms -> 0..MaxCerts] /\ armed \in [Vms -> 0..MaxArms]
    /\ unsaved \subseteq Vms /\ spoiled \subseteq Spoils
    /\ faults \in 0..MaxFaults /\ restarts \in 0..MaxRestarts
MutexType ==
    /\ conn \in [Conns -> ConnType]
    /\ \A c, d \in Conns : Saving(c) /\ Saving(d) => c = d

\* The type invariant, in two parts.
LEMMA TypeSplit == /\ EnrolTypeOK <=> RestType /\ MutexType
                   /\ EnrolTypeOK' <=> (RestType /\ MutexType)'
BY DEF EnrolTypeOK, RestType, MutexType, ConnType

\* The types hold at first.
LEMMA InitType == EnrolInit => EnrolTypeOK
<1> SUFFICES ASSUME EnrolInit PROVE EnrolTypeOK
  OBVIOUS
<1>1. file \in Docs
  <2>1. \A v \in Vms : (IF v \in Holders THEN Fresh ELSE Absent) \in Absent..MaxCerts
    BY BoundsAssumption DEF Fresh, Absent
  <2> QED
    BY <2>1, NoneType, BoundsAssumption DEF EnrolInit, Docs
<1>2. guest \in [Vms -> [key : 0..MaxCerts, cert : 0..MaxCerts, token : BOOLEAN]]
  <2>1. \A v \in Vms : (v \in Holders) \in BOOLEAN
    OBVIOUS
  <2>2. OldCert \in 0..MaxCerts
    BY NoneType, BoundsAssumption
  <2> HIDE DEF OldCert, Holders
  <2> QED
    BY <2>1, <2>2 DEF EnrolInit
<1>3. issued \in [Vms -> 0..MaxCerts] /\ armed \in [Vms -> 0..MaxArms]
  BY NoneType, BoundsAssumption DEF EnrolInit
<1>4. conn \in [Conns -> ConnType] /\ \A c \in Conns : ~Saving(c)
  BY NoneType DEF EnrolInit, Saving, NoConn
<1>5. backend \in [pc : {"idle", "write", "rename"}, doc : Docs, moved : BOOLEAN]
  BY NoneType DEF EnrolInit, NoArm
<1> QED
  <2>1. RestType
    <3>1. /\ traffic \in Traffics /\ mem \in Docs /\ tmp = {} /\ unsaved = {} /\ spoiled = {}
          /\ faults \in 0..MaxFaults /\ restarts \in 0..MaxRestarts
      BY <1>1, BoundsAssumption DEF EnrolInit
    <3>2. behind \in BOOLEAN
      BY DEF EnrolInit
    <3> QED
      BY <1>1, <1>2, <1>3, <1>5, <3>1, <3>2 DEF RestType
  <2> QED
    BY <1>4, <2>1, TypeSplit DEF MutexType

\* The documents an enrolment or an arm makes.
LEMMA DocType ==
    ASSUME EnrolTypeOK, NEW v \in Vms, NEW doc \in Docs
    PROVE  /\ Minted(v) <= MaxCerts => /\ TokenConsumed(doc, v) \in Docs
                                       /\ PendingConsumed(doc, v) \in Docs
           /\ Reloaded(v) \in Docs
           /\ [doc EXCEPT !.pending = @ \cup {v}] \in Docs
<1>1. issued[v] \in Nat
  BY BoundsAssumption DEF EnrolTypeOK
<1>2. ASSUME Minted(v) <= MaxCerts
      PROVE  Minted(v) \in 0..MaxCerts /\ Minted(v) \in Absent..MaxCerts
  BY <1>1, <1>2, BoundsAssumption DEF Minted, Absent
<1>3. ASSUME Minted(v) <= MaxCerts PROVE TokenConsumed(doc, v) \in Docs
  BY <1>2, <1>3 DEF TokenConsumed, Docs
<1>4. ASSUME Minted(v) <= MaxCerts PROVE PendingConsumed(doc, v) \in Docs
  BY <1>2, <1>4 DEF PendingConsumed, Docs
<1> QED
  BY <1>3, <1>4 DEF Reloaded, EnrolTypeOK, Docs

\* A step that leaves the connections keeps their types.
LEMMA ConnKept == ASSUME MutexType, UNCHANGED conn PROVE MutexType'
BY DEF MutexType, Saving

\* The type of a connection.
LEMMA ConnOpen ==
    ASSUME MutexType, NEW c \in Conns
    PROVE  conn[c] \in ConnType
BY DEF MutexType

\* The end of a connection keeps the types of all.
LEMMA ClosedType == ASSUME MutexType, NEW c \in Conns, Closed(c) PROVE MutexType'
BY NoneType DEF MutexType, Closed, Saving, NoConn

\* A step of one connection keeps the types of all, and the mutex has at most
\* one holder: a save begins when nobody saves.
LEMMA ConnStep ==
    ASSUME MutexType, NEW c \in Conns, NEW k \in ConnType, conn' = [conn EXCEPT ![c] = k],
           k.st \in {"write", "rename"} => Saving(c) \/ LockFree
    PROVE  MutexType'
<1>1. conn' \in [Conns -> ConnType]
  BY DEF MutexType
<1>2. \A d \in Conns : d # c => (Saving(d)' <=> Saving(d))
  BY DEF MutexType, Saving
<1>3. Saving(c)' <=> k.st \in {"write", "rename"}
  BY DEF MutexType, Saving
<1> QED
  BY <1>1, <1>2, <1>3 DEF MutexType, LockFree

\* Every step keeps the types.
LEMMA TypeStep == EnrolTypeOK /\ EnrolNext => EnrolTypeOK'
<1> SUFFICES ASSUME RestType, MutexType, EnrolNext PROVE RestType' /\ MutexType'
  BY TypeSplit
<1> USE BoundsAssumption
<1>1. ASSUME NEW c \in Conns, NEW v \in Vms, Connect(c, v) PROVE RestType' /\ MutexType'
  <2>1. [conn[c] EXCEPT !.st = "nonce", !.vm = v] \in ConnType
    BY ConnOpen DEF ConnType
  <2>2. conn' = [conn EXCEPT ![c] = [conn[c] EXCEPT !.st = "nonce", !.vm = v]]
    BY <1>1 DEF Connect
  <2> QED
    BY <1>1, <2>1, <2>2, ConnStep DEF Connect, history, RestType, ConnType
<1>2. ASSUME NEW c \in Conns, Auth(c) PROVE RestType' /\ MutexType'
  <2>1. [conn[c] EXCEPT !.st = "auth"] \in ConnType
    BY ConnOpen DEF ConnType
  <2>2. Closed(c) \/ conn' = [conn EXCEPT ![c] = [conn[c] EXCEPT !.st = "auth"]]
    BY <1>2 DEF Auth
  <2>3. MutexType'
    BY <2>1, <2>2, ConnStep, ClosedType DEF ConnType
  <2> QED
    BY <1>2, <2>3 DEF Auth, history, RestType
<1>3. ASSUME NEW c \in Conns, NEW kind \in {"token", "assisted"}, NEW doc, LockFree,
             Accepted(c, kind, doc)
      PROVE  MutexType' /\ Minted(conn[c].vm) <= MaxCerts
  <2>1. conn[c].vm \in Vms
    BY ConnOpen DEF ConnType
  <2>2. Minted(conn[c].vm) \in 0..MaxCerts
    BY <1>3, <2>1 DEF Accepted, Minted, RestType
  <2>3. [conn[c] EXCEPT !.st = "write", !.kind = kind, !.cert = Minted(conn[c].vm)] \in ConnType
    BY <2>2, ConnOpen DEF ConnType
  <2> QED
    BY <1>3, <2>3, ConnStep DEF Accepted
<1>4. ASSUME NEW c \in Conns, Enroll(c) PROVE RestType' /\ MutexType'
  <2>1. conn[c].vm \in Vms /\ mem \in Docs
    BY ConnOpen DEF ConnType, RestType
  <2>2. MutexType' /\ mem' \in Docs
    BY <1>3, <1>4, <2>1, DocType, TypeSplit, ClosedType DEF Enroll, Accepted
  <2> QED
    BY <1>4, <2>2 DEF Enroll, history, RestType
<1>5. ASSUME NEW c \in Conns, EnrollAssisted(c) PROVE RestType' /\ MutexType'
  <2>1. conn[c].vm \in Vms /\ Reloaded(conn[c].vm) \in Docs
    BY ConnOpen DEF ConnType, RestType, Reloaded
  <2>2. MutexType' /\ mem' \in Docs
    <3>1. CASE Accepted(c, "assisted", PendingConsumed(Reloaded(conn[c].vm), conn[c].vm))
      BY <1>3, <1>5, <2>1, <3>1, DocType, TypeSplit DEF EnrollAssisted, Accepted
    <3>2. CASE Closed(c) /\ mem' = Reloaded(conn[c].vm)
      BY <2>1, <3>2, ClosedType
    <3> QED
      BY <1>5, <3>1, <3>2 DEF EnrollAssisted
  <2>3. behind' \in BOOLEAN /\ unsaved' \subseteq Vms
    <3>1. behind' \in BOOLEAN
      BY <1>5, Zenon DEF EnrollAssisted
    <3> QED
      BY <1>5, <3>1 DEF EnrollAssisted, RestType
  <2> QED
    BY <1>5, <2>2, <2>3 DEF EnrollAssisted, RestType
<1>6. ASSUME NEW c \in Conns, ReloadFails(c) PROVE RestType' /\ MutexType'
  BY <1>6, ClosedType DEF ReloadFails, Faulty, history, RestType
<1>7. ASSUME NEW c \in Conns, SaveWrite(c) PROVE RestType' /\ MutexType'
  <2>1. [conn[c] EXCEPT !.st = "rename"] \in ConnType
    BY ConnOpen DEF ConnType
  <2>2. MutexType'
    BY <1>7, <2>1, ConnStep DEF SaveWrite, Saving
  <2> QED
    BY <1>7, <2>2 DEF SaveWrite, history, RestType
<1>8. ASSUME NEW c \in Conns, SaveRename(c) PROVE RestType' /\ MutexType'
  <2>1. [conn[c] EXCEPT !.st = "got"] \in ConnType /\ conn[c].vm \in Vms
           /\ conn[c].cert \in 0..MaxCerts
    BY ConnOpen DEF ConnType
  <2>2. conn' = [conn EXCEPT ![c] = NoConn]
           \/ conn' = [conn EXCEPT ![c] = [conn[c] EXCEPT !.st = "got"]]
    BY <1>8 DEF SaveRename
  <2>3. MutexType'
    BY <2>1, <2>2, ConnStep, ClosedType DEF ConnType, Closed
  <2>4. spoiled' \subseteq Spoils
    BY <1>8 DEF SaveRename, RestType, Spoils
  <2>5. (backend.pc # "idle") \in BOOLEAN
    OBVIOUS
  <2>6. backend' \in [pc : {"idle", "write", "rename"}, doc : Docs, moved : BOOLEAN]
    BY <1>8, <2>5 DEF SaveRename, RestType
  <2>7. file' \in Docs /\ issued' \in [Vms -> 0..MaxCerts] /\ unsaved' \subseteq Vms
    BY <1>8, <2>1 DEF SaveRename, RestType
  <2> QED
    BY <1>8, <2>3, <2>4, <2>6, <2>7 DEF SaveRename, RestType
<1>9. ASSUME NEW c \in Conns, SaveFails(c) PROVE RestType' /\ MutexType'
  <2>1. conn[c].vm \in Vms
    BY ConnOpen DEF ConnType
  <2>2. MutexType'
    BY <1>9, ClosedType DEF SaveFails, Refused
  <2>3. spoiled' \subseteq Spoils /\ faults' \in 0..MaxFaults
    <3>1. faults' = faults \/ (faults < MaxFaults /\ faults' = faults + 1)
      BY <1>9 DEF SaveFails, Faulty
    <3>2. spoiled' \subseteq spoiled \cup {"tmp"}
      BY <1>9 DEF SaveFails
    <3> QED
      BY <3>1, <3>2 DEF RestType, Spoils
  <2> QED
    BY <1>9, <2>1, <2>2, <2>3 DEF SaveFails, Refused, RestType
<1>10. ASSUME NEW c \in Conns, ClientSavesKey(c) PROVE RestType' /\ MutexType'
  <2>1. [conn[c] EXCEPT !.st = "keyed"] \in ConnType /\ conn[c].vm \in Vms
           /\ conn[c].cert \in 0..MaxCerts
    BY ConnOpen DEF ConnType
  <2>2. MutexType'
    BY <1>10, <2>1, ConnStep DEF ClientSavesKey, ConnType
  <2>3. guest' \in [Vms -> [key : 0..MaxCerts, cert : 0..MaxCerts, token : BOOLEAN]]
    BY <1>10, <2>1 DEF ClientSavesKey, RestType
  <2> QED
    BY <1>10, <2>2, <2>3 DEF ClientSavesKey, history, RestType
<1>11. ASSUME NEW c \in Conns, ClientSavesCert(c) PROVE RestType' /\ MutexType'
  <2>1. [conn[c] EXCEPT !.st = "certed"] \in ConnType /\ conn[c].vm \in Vms
           /\ conn[c].cert \in 0..MaxCerts
    BY ConnOpen DEF ConnType
  <2>2. Closed(c) \/ conn' = [conn EXCEPT ![c] = [conn[c] EXCEPT !.st = "certed"]]
    BY <1>11 DEF ClientSavesCert
  <2>3. MutexType'
    BY <2>1, <2>2, ConnStep, ClosedType DEF ConnType
  <2>4. guest' \in [Vms -> [key : 0..MaxCerts, cert : 0..MaxCerts, token : BOOLEAN]]
    BY <1>11, <2>1 DEF ClientSavesCert, RestType
  <2> QED
    BY <1>11, <2>3, <2>4 DEF ClientSavesCert, history, RestType
<1>12. ASSUME NEW c \in Conns, ClientDeletesToken(c) PROVE RestType' /\ MutexType'
  <2>1. conn[c].vm \in Vms
    BY ConnOpen DEF ConnType
  <2>2. guest' \in [Vms -> [key : 0..MaxCerts, cert : 0..MaxCerts, token : BOOLEAN]]
    BY <1>12, <2>1 DEF ClientDeletesToken, RestType
  <2> QED
    BY <1>12, <2>2, ClosedType DEF ClientDeletesToken, history, RestType
<1>13. ASSUME NEW c \in Conns, ClientDies(c) PROVE RestType' /\ MutexType'
  BY <1>13, ClosedType DEF ClientDies, RestType, Spoils
<1>14. ASSUME NEW v \in Vms, ArmRead(v) PROVE RestType' /\ MutexType'
  <2>1. backend' \in [pc : {"idle", "write", "rename"}, doc : Docs, moved : BOOLEAN]
    BY <1>14, DocType, TypeSplit DEF ArmRead, RestType
  <2>2. armed' \in [Vms -> 0..MaxArms]
    BY <1>14 DEF ArmRead, RestType
  <2> QED
    BY <1>14, <2>1, <2>2, ConnKept DEF ArmRead, RestType
<1>15. CASE ArmWrite
  BY <1>15, ConnKept DEF ArmWrite, RestType, history
<1>16. CASE ArmRename
  BY <1>16, NoneType, ConnKept DEF ArmRename, NoArm, RestType, Spoils
<1>17. CASE ArmFails
  <2>1. spoiled' \subseteq Spoils /\ faults' \in 0..MaxFaults
    <3>1. faults' = faults \/ (faults < MaxFaults /\ faults' = faults + 1)
      BY <1>17 DEF ArmFails, Faulty
    <3>2. spoiled' \subseteq spoiled \cup {"tmp"}
      BY <1>17 DEF ArmFails
    <3> QED
      BY <3>1, <3>2 DEF RestType, Spoils
  <2>2. backend' \in [pc : {"idle", "write", "rename"}, doc : Docs, moved : BOOLEAN]
    BY <1>17, NoneType DEF ArmFails, NoArm
  <2> QED
    BY <1>17, <2>1, <2>2, ConnKept DEF ArmFails, RestType
<1>18. ASSUME NEW c \in Conns, Leave(c) PROVE RestType' /\ MutexType'
  BY <1>18, ClosedType DEF Leave, history, RestType
<1>19. CASE Restarts
  <2>1. \A c \in Conns : conn'[c] = NoConn \/ (conn'[c] = conn[c] /\ ~Saving(c))
    <3> SUFFICES ASSUME NEW c \in Conns
                 PROVE  conn'[c] = NoConn \/ (conn'[c] = conn[c] /\ ~Saving(c))
      OBVIOUS
    <3>1. conn'[c] = IF conn[c].st \in Answered THEN conn[c] ELSE NoConn
      BY <1>19 DEF Restarts, Restart
    <3>2. CASE conn[c].st \in Answered
      BY <3>1, <3>2 DEF Answered, Saving
    <3> QED
      BY <3>1, <3>2
  <2>2. conn' \in [Conns -> ConnType]
    BY <1>19, NoneType DEF Restarts, Restart, MutexType
  <2>3. MutexType'
    BY <2>1, <2>2 DEF MutexType, Saving, NoConn
  <2> QED
    <3>1. restarts' \in 0..MaxRestarts /\ faults' \in 0..MaxFaults
      BY <1>19, BoundsAssumption DEF Restarts, Restart, Faulty, RestType
    <3> QED
      BY <1>19, <2>3, <3>1 DEF Restarts, Restart, RestType
<1> QED
  BY <1>1, <1>2, <1>4, <1>5, <1>6, <1>7, <1>8, <1>9, <1>10, <1>11, <1>12, <1>13, <1>14,
     <1>15, <1>16, <1>17, <1>18, <1>19 DEF EnrolNext, EnrolStep
----------------------------------------------------------------------------
(* The inductive invariants.                                               *)

\* The records of guest v are the same in two documents.
SameRecords(d, e, v) == d.token[v] = e.token[v] /\ d.enrolled[v] = e.enrolled[v]

SavingFor(v) == \E c \in Conns : Saving(c) /\ conn[c].vm = v

Clean == spoiled \subseteq {"cut"}

\* What is being saved is the guest's next certificate, and memory records it.
SaverRecords ==
    \A c \in Conns : Saving(c) =>
        /\ conn[c].cert = Minted(conn[c].vm)
        /\ conn[c].cert \in {mem.token[conn[c].vm], mem.enrolled[conn[c].vm]}

\* Memory records what the file does of every guest but the one being saved and
\* those whose save failed.
MemAgrees ==
    Clean => \A v \in Vms \ unsaved : SavingFor(v) \/ SameRecords(mem, file, v)

\* So does the document an arm is to write, unless the file was saved since.
ArmAgrees ==
    Clean /\ backend.pc # "idle" /\ ~backend.moved =>
        \A v \in Vms : SameRecords(backend.doc, file, v)

SpentInv == EnrolTypeOK /\ SaverRecords /\ MemAgrees /\ ArmAgrees /\ SpentOnDisk

\* The enrolments of v a document allows, and all that v was given.
Credit(doc, v) == (IF v \in doc.pending THEN 1 ELSE 0) + (IF doc.token[v] = Fresh THEN 1 ELSE 0)
Budget(v) == OldCert + armed[v] + (IF v \in Holders THEN 1 ELSE 0)

Unraced == spoiled \cap {"lost_update", "tmp"} = {}

\* Document d allows no enrolment that e does not.
Within(d, e) ==
    /\ d.pending \subseteq e.pending
    /\ \A v \in Vms : d.token[v] = Fresh => e.token[v] = Fresh

\* What the file still allows is within what was given.
FileWithin == Unraced => \A v \in Vms : issued[v] + Credit(file, v) <= Budget(v)

MemWithin == Unraced => Within(mem, file)

\* What an arm is to write has the tokens of the file and keeps its arms.
ArmWithin ==
    Unraced /\ backend.pc # "idle" /\ ~backend.moved =>
        /\ Within(file, backend.doc)
        /\ \A v \in Vms : issued[v] + Credit(backend.doc, v) <= Budget(v)

\* The enrolment being saved spends a token or an arm that the file still has and
\* memory has no more.
SaverSpends ==
    Unraced => \A c \in Conns : Saving(c) =>
        LET v == conn[c].vm IN
        \/ file.token[v] = Fresh /\ mem.token[v] # Fresh
        \/ v \in file.pending /\ v \notin mem.pending

ArmInv == EnrolTypeOK /\ SaverRecords /\ FileWithin /\ MemWithin /\ ArmWithin /\ SaverSpends

\* A step that touches neither a document nor a save in progress.
Quiet ==
    /\ UNCHANGED <<traffic, file, mem, issued, armed, unsaved>>
    /\ spoiled \subseteq spoiled'
    /\ backend'.doc = backend.doc /\ backend'.moved = backend.moved
    /\ backend'.pc = "idle" <=> backend.pc = "idle"
    /\ \A c \in Conns :
          /\ Saving(c)' <=> Saving(c)
          /\ Saving(c) => conn'[c].vm = conn[c].vm /\ conn'[c].cert = conn[c].cert

\* A connection that is not saving goes where it does not save.
LEMMA QuietConn ==
    ASSUME MutexType, NEW c \in Conns, NEW k, conn' = [conn EXCEPT ![c] = k],
           Saving(c) <=> k.st \in {"write", "rename"},
           Saving(c) => k.vm = conn[c].vm /\ k.cert = conn[c].cert,
           UNCHANGED <<traffic, file, mem, backend, issued, armed, unsaved>>,
           spoiled \subseteq spoiled'
    PROVE  Quiet
BY DEF MutexType, Quiet, Saving

\* The end of a connection that is not saving is quiet.
LEMMA QuietClose ==
    ASSUME MutexType, NEW c \in Conns, Closed(c), ~Saving(c),
           UNCHANGED <<traffic, file, mem, backend, issued, armed, unsaved>>,
           spoiled \subseteq spoiled'
    PROVE  Quiet
<1>1. NoConn.st \notin {"write", "rename"}
  BY DEF NoConn
<1> QED
  BY <1>1, QuietConn DEF Closed

\* The steps that are quiet.
LEMMA QuietSteps ==
    ASSUME MutexType, NEW c \in Conns, NEW v \in Vms,
           \/ Connect(c, v) \/ Auth(c) \/ ReloadFails(c) \/ SaveWrite(c) \/ Leave(c) \/ ArmWrite
           \/ ClientSavesKey(c) \/ ClientSavesCert(c) \/ ClientDeletesToken(c) \/ ClientDies(c)
           \/ Enroll(c) /\ mem.token[conn[c].vm] # Fresh
    PROVE  Quiet
<1>0. conn \in [Conns -> ConnType]
  BY DEF MutexType
<1>1. CASE Connect(c, v)
  <2>1. conn' = [conn EXCEPT ![c] = [conn[c] EXCEPT !.st = "nonce", !.vm = v]]
    BY <1>1 DEF Connect
  <2> QED
    BY <1>0, <1>1, <2>1, QuietConn DEF Connect, Saving, history, ConnType
<1>2. CASE Auth(c)
  <2>1. CASE Closed(c)
    BY <1>2, <2>1, QuietClose DEF Auth, Saving, history
  <2>2. CASE conn' = [conn EXCEPT ![c] = [conn[c] EXCEPT !.st = "auth"]]
    BY <1>0, <1>2, <2>2, QuietConn DEF Auth, Saving, history, ConnType
  <2> QED
    BY <1>2, <2>1, <2>2 DEF Auth
<1>3. CASE ReloadFails(c)
  BY <1>3, QuietClose DEF ReloadFails, Saving, history
<1>4. CASE SaveWrite(c)
  <2>1. conn' = [conn EXCEPT ![c] = [conn[c] EXCEPT !.st = "rename"]]
    BY <1>4 DEF SaveWrite
  <2> DEFINE k == [conn[c] EXCEPT !.st = "rename"]
  <2>2. k.st = "rename" /\ k.vm = conn[c].vm /\ k.cert = conn[c].cert
    BY <1>0 DEF ConnType
  <2>3. /\ Saving(c) /\ UNCHANGED spoiled
        /\ UNCHANGED <<traffic, file, mem, backend, issued, armed, unsaved>>
    BY <1>4 DEF SaveWrite, Saving, history
  <2> HIDE DEF k
  <2> QED
    BY <2>1, <2>2, <2>3, QuietConn DEF k
<1>5. CASE Leave(c)
  BY <1>5, QuietClose DEF Leave, Saving, history
<1>6. CASE ArmWrite
  BY <1>6 DEF ArmWrite, Quiet, Saving, history
<1>7. CASE ClientSavesKey(c)
  <2>1. conn' = [conn EXCEPT ![c] = [conn[c] EXCEPT !.st = "keyed"]]
    BY <1>7 DEF ClientSavesKey
  <2> QED
    BY <1>0, <1>7, <2>1, QuietConn DEF ClientSavesKey, Saving, history, ConnType
<1>8. CASE ClientSavesCert(c)
  <2>1. CASE Closed(c)
    BY <1>8, <2>1, QuietClose DEF ClientSavesCert, Saving, history
  <2>2. CASE conn' = [conn EXCEPT ![c] = [conn[c] EXCEPT !.st = "certed"]]
    BY <1>0, <1>8, <2>2, QuietConn DEF ClientSavesCert, Saving, history, ConnType
  <2> QED
    BY <1>8, <2>1, <2>2 DEF ClientSavesCert
<1>9. CASE ClientDeletesToken(c)
  BY <1>9, QuietClose DEF ClientDeletesToken, Saving, history
<1>10. CASE ClientDies(c)
  BY <1>10, QuietClose DEF ClientDies, Answered, Saving
<1>11. CASE Enroll(c) /\ mem.token[conn[c].vm] # Fresh
  BY <1>11, QuietClose DEF Enroll, Saving, history
<1> QED
  BY <1>1, <1>2, <1>3, <1>4, <1>5, <1>6, <1>7, <1>8, <1>9, <1>10, <1>11
\* The others.
LEMMA LoudOrQuiet ==
    ASSUME MutexType, EnrolNext
    PROVE  \/ Quiet
           \/ \E c \in Conns : \/ Enroll(c) /\ mem.token[conn[c].vm] = Fresh
                               \/ EnrollAssisted(c) \/ SaveRename(c) \/ SaveFails(c)
           \/ \E v \in Vms : ArmRead(v)
           \/ ArmRename \/ ArmFails \/ Restart
<1>1. ASSUME NEW c \in Conns,
             \/ \E v \in Vms : Connect(c, v)
             \/ Auth(c) \/ ReloadFails(c) \/ SaveWrite(c) \/ Leave(c)
             \/ ClientSavesKey(c) \/ ClientSavesCert(c) \/ ClientDeletesToken(c) \/ ClientDies(c)
             \/ Enroll(c) /\ mem.token[conn[c].vm] # Fresh
      PROVE  Quiet
  BY <1>1, QuietSteps, SomeVmType
<1>2. CASE ArmWrite
  BY <1>2 DEF ArmWrite, Quiet, Saving, history
<1> QED
  BY <1>1, <1>2 DEF EnrolNext, EnrolStep, Restarts

\* A quiet step keeps SpentInv.
LEMMA SpentQuiet == SpentInv /\ EnrolTypeOK' /\ Quiet => SpentInv'
<1> SUFFICES ASSUME SpentInv, EnrolTypeOK', Quiet PROVE SpentInv'
  OBVIOUS
<1>1. Clean' => Clean
  BY DEF Quiet, Clean
<1>2. SaverRecords'
  BY DEF SpentInv, SaverRecords, Quiet, Minted
<1>3. \A v \in Vms : SavingFor(v) <=> SavingFor(v)'
  BY DEF SavingFor, Quiet
<1>4. MemAgrees'
  BY <1>1, <1>3 DEF SpentInv, MemAgrees, Quiet, SameRecords
<1>5. ArmAgrees'
  BY <1>1 DEF SpentInv, ArmAgrees, Quiet, SameRecords
<1>6. SpentOnDisk'
  BY <1>1 DEF SpentInv, SpentOnDisk, Quiet, Clean
<1> QED
  BY <1>2, <1>4, <1>5, <1>6 DEF SpentInv

\* An enrolment that is accepted leaves the file alone, and the lock is taken
\* for the guest whose record changed.
LEMMA AcceptedSaves ==
    ASSUME MutexType, LockFree, NEW c \in Conns, NEW kind, NEW doc, Accepted(c, kind, doc)
    PROVE  /\ \A d \in Conns : Saving(d)' <=> d = c
           /\ conn'[c].vm = conn[c].vm /\ conn'[c].cert = Minted(conn[c].vm)
           /\ \A v \in Vms : SavingFor(v)' <=> v = conn[c].vm
<1>0. conn[c] \in ConnType
  BY ConnOpen
<1>1. conn'[c] = [conn[c] EXCEPT !.st = "write", !.kind = kind, !.cert = Minted(conn[c].vm)]
  BY DEF Accepted, MutexType
<1>2. \A d \in Conns : Saving(d)' <=> d = c
  BY <1>0, <1>1 DEF Accepted, MutexType, Saving, LockFree, ConnType
<1>3. conn'[c].vm = conn[c].vm /\ conn'[c].cert = Minted(conn[c].vm)
  BY <1>0, <1>1 DEF ConnType
<1> QED
  BY <1>2, <1>3 DEF SavingFor

\* Nobody saves after the rename.
LEMMA RenameFrees ==
    ASSUME MutexType, NEW c \in Conns, SaveRename(c) PROVE \A d \in Conns : ~Saving(d)'
<1>1. conn' = [conn EXCEPT ![c] = NoConn]
         \/ conn' = [conn EXCEPT ![c] = [conn[c] EXCEPT !.st = "got"]]
  BY DEF SaveRename
<1>2. conn[c] \in ConnType
  BY ConnOpen
<1>3. conn'[c].st \notin {"write", "rename"}
  BY <1>1, <1>2 DEF NoConn, MutexType, ConnType
<1>4. \A d \in Conns : d # c => conn'[d] = conn[d]
  BY <1>1 DEF MutexType
<1>5. \A d \in Conns : Saving(d) => d = c
  BY DEF SaveRename, MutexType, Saving
<1> QED
  BY <1>3, <1>4, <1>5 DEF Saving

\* So does every step of the daemon, the clients and the backend.
LEMMA SpentStep == SpentInv /\ EnrolNext => SpentInv'
<1> SUFFICES ASSUME SpentInv, EnrolNext PROVE SpentInv'
  OBVIOUS
<1>0. EnrolTypeOK /\ EnrolTypeOK' /\ RestType /\ MutexType
  BY TypeStep, TypeSplit DEF SpentInv
<1>1. ASSUME Quiet PROVE SpentInv'
  BY <1>0, <1>1, SpentQuiet
<1>2. ASSUME NEW c \in Conns, Enroll(c), mem.token[conn[c].vm] = Fresh PROVE SpentInv'
  <2> DEFINE v == conn[c].vm
  <2>1. /\ Accepted(c, "token", TokenConsumed(mem, v)) /\ LockFree /\ v \in Vms
        /\ UNCHANGED <<file, backend, unsaved, spoiled, issued>>
    BY <1>0, <1>2, ConnOpen DEF Enroll, history, ConnType
  <2>2. /\ mem'.token[v] = Minted(v) /\ mem'.enrolled = mem.enrolled
        /\ \A w \in Vms : w # v => mem'.token[w] = mem.token[w]
    BY <1>0, <2>1 DEF Accepted, TokenConsumed, RestType, Docs
  <2>3. SaverRecords'
    BY <1>0, <2>1, <2>2, AcceptedSaves DEF SaverRecords, Minted
  <2>4. MemAgrees'
    <3> SUFFICES ASSUME Clean', NEW w \in Vms \ unsaved', ~SavingFor(w)'
                 PROVE  SameRecords(mem, file, w)'
      BY DEF MemAgrees
    <3>1. w # v
      BY <1>0, <2>1, AcceptedSaves
    <3>2. SameRecords(mem, file, w)
      BY <2>1 DEF SpentInv, MemAgrees, Clean, SavingFor, LockFree
    <3> QED
      BY <2>1, <2>2, <3>1, <3>2 DEF SameRecords
  <2>5. ArmAgrees' /\ SpentOnDisk'
    BY <2>1 DEF SpentInv, ArmAgrees, SpentOnDisk, Clean, SameRecords
  <2> QED
    BY <1>0, <2>3, <2>4, <2>5 DEF SpentInv
<1>3. ASSUME NEW c \in Conns, EnrollAssisted(c) PROVE SpentInv'
  <2> DEFINE v == conn[c].vm
  <2>1. /\ LockFree /\ v \in Vms
        /\ UNCHANGED <<file, backend, spoiled, issued>>
        /\ unsaved' = IF v \in mem.pending THEN unsaved ELSE {}
    BY <1>0, <1>3, ConnOpen DEF EnrollAssisted, ConnType
  <2>2. /\ Reloaded(v) \in Docs
        /\ Clean => \A w \in Vms \ unsaved' : SameRecords(Reloaded(v), file, w)
    BY <1>0, <2>1 DEF Reloaded, RestType, SpentInv, MemAgrees, SavingFor, LockFree, SameRecords
  <2>3. ArmAgrees' /\ SpentOnDisk'
    BY <2>1 DEF SpentInv, ArmAgrees, SpentOnDisk, Clean, SameRecords
  <2>4. CASE Accepted(c, "assisted", PendingConsumed(Reloaded(v), v))
    <3>1. /\ mem'.enrolled[v] = Minted(v) /\ mem'.token = Reloaded(v).token
          /\ \A w \in Vms : w # v => mem'.enrolled[w] = Reloaded(v).enrolled[w]
      BY <2>1, <2>2, <2>4 DEF Accepted, PendingConsumed, Docs
    <3>2. SaverRecords'
      BY <1>0, <2>1, <2>4, <3>1, AcceptedSaves DEF SaverRecords, Minted
    <3>3. MemAgrees'
      <4> SUFFICES ASSUME Clean', NEW w \in Vms \ unsaved', ~SavingFor(w)'
                   PROVE  SameRecords(mem, file, w)'
        BY DEF MemAgrees
      <4>1. w # v
        BY <1>0, <2>1, <2>4, AcceptedSaves
      <4> QED
        BY <2>1, <2>2, <3>1, <4>1 DEF SameRecords, Clean
    <3> QED
      BY <1>0, <2>3, <3>2, <3>3 DEF SpentInv
  <2>5. CASE Closed(c) /\ mem' = Reloaded(v)
    <3>1. \A d \in Conns : ~Saving(d)'
      BY <1>0, <2>1, <2>5 DEF Closed, NoConn, LockFree, Saving, MutexType
    <3>2. MemAgrees'
      BY <2>1, <2>2, <2>5 DEF MemAgrees, SameRecords, Clean
    <3> QED
      BY <1>0, <2>3, <3>1, <3>2 DEF SpentInv, SaverRecords
  <2> QED
    BY <1>3, <2>4, <2>5 DEF EnrollAssisted
<1>4. ASSUME NEW c \in Conns, SaveRename(c) PROVE SpentInv'
  <2> DEFINE v == conn[c].vm
  <2>1. v \in Vms /\ Saving(c) /\ (\A d \in Conns : Saving(d) => d = c)
    BY <1>0, <1>4, ConnOpen DEF SaveRename, ConnType, MutexType, Saving
  <2>2. \A d \in Conns : ~Saving(d)'
    BY <1>0, <1>4, RenameFrees
  <2>3. Clean' => Clean /\ file' = mem /\ unsaved \subseteq {v}
    BY <1>4 DEF SaveRename, Clean
  <2>4. /\ mem' = mem /\ issued' = [issued EXCEPT ![v] = conn[c].cert]
        /\ backend' = [backend EXCEPT !.moved = backend.pc # "idle"]
    BY <1>4 DEF SaveRename
  <2>5. MemAgrees'
    BY <2>3, <2>4 DEF MemAgrees, SameRecords
  <2>6. ArmAgrees'
    BY <1>0, <2>4 DEF ArmAgrees, RestType
  <2>7. SpentOnDisk'
    <3> SUFFICES ASSUME Clean', NEW w \in Vms, issued'[w] > 0
                 PROVE  issued'[w] \in {file'.token[w], file'.enrolled[w]}
      BY DEF SpentOnDisk, Clean
    <3>1. CASE w = v
      BY <1>0, <2>1, <2>3, <2>4, <3>1 DEF SpentInv, SaverRecords, RestType
    <3>2. CASE w # v
      <4>1. SameRecords(mem, file, w)
        BY <2>1, <2>3, <3>2 DEF SpentInv, MemAgrees, SavingFor
      <4>2. issued'[w] = issued[w]
        BY <1>0, <2>4, <3>2 DEF RestType
      <4> QED
        BY <2>3, <4>1, <4>2 DEF SpentInv, SpentOnDisk, SameRecords, Clean
    <3> QED
      BY <3>1, <3>2
  <2> QED
    BY <1>0, <2>2, <2>5, <2>6, <2>7 DEF SpentInv, SaverRecords
<1>5. ASSUME NEW c \in Conns, SaveFails(c) PROVE SpentInv'
  <2> DEFINE v == conn[c].vm
  <2>1. /\ Closed(c) /\ UNCHANGED <<file, mem, backend, issued>>
        /\ unsaved' = unsaved \cup {v} /\ spoiled \subseteq spoiled'
    BY <1>5 DEF SaveFails, Refused
  <2>2. Saving(c) /\ (\A d \in Conns : Saving(d) => d = c)
    BY <1>0, <1>5 DEF SaveFails, MutexType, Saving
  <2>3. \A d \in Conns : ~Saving(d)'
    BY <1>0, <2>1, <2>2 DEF Closed, NoConn, Saving, MutexType
  <2>4. MemAgrees'
    BY <2>1, <2>2 DEF SpentInv, MemAgrees, SameRecords, SavingFor, Clean
  <2>5. ArmAgrees' /\ SpentOnDisk'
    BY <2>1 DEF SpentInv, ArmAgrees, SpentOnDisk, Clean, SameRecords
  <2> QED
    BY <1>0, <2>3, <2>4, <2>5 DEF SpentInv, SaverRecords
<1>6. ASSUME NEW v \in Vms, ArmRead(v) PROVE SpentInv'
  <2>1. UNCHANGED <<file, mem, conn, issued, unsaved, spoiled>>
    BY <1>6 DEF ArmRead
  <2>2. backend'.doc.token = file.token /\ backend'.doc.enrolled = file.enrolled
    BY <1>0, <1>6 DEF ArmRead, RestType, Docs
  <2> QED
    BY <1>0, <2>1, <2>2 DEF SpentInv, SaverRecords, MemAgrees, ArmAgrees, SpentOnDisk, Clean,
       SameRecords, SavingFor, Saving, Minted
<1>7. CASE ArmRename
  <2>1. UNCHANGED <<mem, conn, issued, unsaved>> /\ backend' = NoArm
    BY <1>7 DEF ArmRename
  <2>2. Clean' => Clean /\ (\A w \in Vms : SameRecords(file', file, w))
    BY <1>7 DEF ArmRename, Clean, SpentInv, ArmAgrees
  <2>3. ArmAgrees'
    BY <2>1 DEF ArmAgrees, NoArm
  <2>4. \A w \in Vms : SavingFor(w)' <=> SavingFor(w)
    BY <2>1 DEF SavingFor, Saving
  <2>5. MemAgrees'
    BY <2>1, <2>2, <2>4 DEF SpentInv, MemAgrees, SameRecords
  <2>6. SpentOnDisk'
    BY <2>1, <2>2 DEF SpentInv, SpentOnDisk, Clean, SameRecords
  <2>7. SaverRecords'
    BY <2>1 DEF SpentInv, SaverRecords, Saving, Minted
  <2> QED
    BY <1>0, <2>3, <2>5, <2>6, <2>7 DEF SpentInv
<1>8. CASE ArmFails
  <2>1. /\ UNCHANGED <<file, mem, conn, issued, unsaved>> /\ backend' = NoArm
        /\ spoiled \subseteq spoiled'
    BY <1>8 DEF ArmFails
  <2> QED
    BY <1>0, <2>1 DEF SpentInv, SaverRecords, MemAgrees, ArmAgrees, SpentOnDisk, Clean,
       SameRecords, SavingFor, Saving, Minted, NoArm
<1>9. CASE Restart
  <2>1. /\ UNCHANGED <<file, backend, issued, spoiled>> /\ mem' = file
    BY <1>9 DEF Restart
  <2>2. \A c \in Conns : ~Saving(c)'
    BY <1>9 DEF Restart, Answered, NoConn, Saving
  <2> QED
    BY <1>0, <2>1, <2>2 DEF SpentInv, SaverRecords, MemAgrees, ArmAgrees, SpentOnDisk, Clean,
       SameRecords
<1> QED
  BY <1>0, <1>1, <1>2, <1>3, <1>4, <1>5, <1>6, <1>7, <1>8, <1>9, LoudOrQuiet
\* A document within another allows no more enrolments, and one less of a guest
\* that has spent a token or an arm of it.
LEMMA CreditWithin ==
    ASSUME NEW d, NEW e, Within(d, e), NEW v \in Vms
    PROVE  /\ Credit(d, v) \in 0..2
           /\ Credit(d, v) <= Credit(e, v)
           /\ (e.token[v] = Fresh /\ d.token[v] # Fresh) \/ (v \in e.pending /\ v \notin d.pending)
                 => Credit(d, v) + 1 <= Credit(e, v)
BY DEF Within, Credit

\* Within is transitive.
LEMMA WithinTrans ==
    ASSUME NEW d, NEW e, NEW f, Within(d, e), Within(e, f) PROVE Within(d, f)
BY DEF Within

\* What a guest was given and was sent are numbers.
LEMMA BudgetType == ASSUME RestType, NEW v \in Vms PROVE Budget(v) \in Nat /\ issued[v] \in Nat
BY NoneType, BoundsAssumption DEF RestType, Budget

\* What v was given depends on nothing but the arms of v.
LEMMA BudgetKept ==
    ASSUME UNCHANGED traffic, NEW v \in Vms, armed'[v] = armed[v]
    PROVE  Budget(v)' = Budget(v)
BY DEF Budget, Holders, OldCert

\* A quiet step keeps ArmInv.
LEMMA ArmQuiet == ArmInv /\ EnrolTypeOK' /\ Quiet => ArmInv'
<1> SUFFICES ASSUME ArmInv, EnrolTypeOK', Quiet PROVE ArmInv'
  OBVIOUS
<1>1. Unraced' => Unraced
  BY DEF Quiet, Unraced
<1>2. SaverRecords'
  BY DEF ArmInv, SaverRecords, Quiet, Minted
<1>3. \A v \in Vms : Budget(v)' = Budget(v)
  BY BudgetKept DEF Quiet
<1>4. FileWithin'
  BY <1>1, <1>3 DEF ArmInv, FileWithin, Quiet, Credit
<1>5. MemWithin'
  BY <1>1 DEF ArmInv, MemWithin, Quiet, Within
<1>6. ArmWithin'
  BY <1>1, <1>3 DEF ArmInv, ArmWithin, Quiet, Credit, Within
<1>7. SaverSpends'
  BY <1>1 DEF ArmInv, SaverSpends, Quiet
<1> QED
  BY <1>2, <1>4, <1>5, <1>6, <1>7 DEF ArmInv

\* So does every step of the daemon, the clients and the backend.
LEMMA ArmStep == ArmInv /\ EnrolNext => ArmInv'
<1> SUFFICES ASSUME ArmInv, EnrolNext PROVE ArmInv'
  OBVIOUS
<1>0. EnrolTypeOK /\ EnrolTypeOK' /\ RestType /\ MutexType
  BY TypeStep, TypeSplit DEF ArmInv
<1>1. ASSUME Quiet PROVE ArmInv'
  BY <1>0, <1>1, ArmQuiet
\* An enrolment is accepted, on memory or on the file.
<1>2. ASSUME NEW c \in Conns, NEW kind, NEW doc, NEW base,
             Accepted(c, kind, doc), LockFree,
             UNCHANGED <<traffic, file, backend, spoiled, issued, armed>>,
             Minted(conn[c].vm) \in {doc.token[conn[c].vm], doc.enrolled[conn[c].vm]},
             base \in {mem, file}, Within(doc, base),
             \/ base.token[conn[c].vm] = Fresh /\ doc.token[conn[c].vm] # Fresh
             \/ conn[c].vm \in base.pending /\ conn[c].vm \notin doc.pending
      PROVE  ArmInv'
  <2>1. mem' = doc /\ conn[c].vm \in Vms
    BY <1>0, <1>2, ConnOpen DEF Accepted, ConnType
  <2>2. Unraced => Within(base, file)
    BY <1>2 DEF ArmInv, MemWithin, Within
  <2>3. SaverRecords'
    BY <1>0, <1>2, <2>1, AcceptedSaves DEF SaverRecords, Minted
  <2>4. MemWithin'
    BY <1>2, <2>1, <2>2, WithinTrans DEF MemWithin, Unraced
  <2>5. SaverSpends'
    BY <1>0, <1>2, <2>1, <2>2, AcceptedSaves DEF SaverSpends, Unraced, Within
  <2>6. \A v \in Vms : Budget(v)' = Budget(v)
    BY <1>2, BudgetKept
  <2>7. FileWithin' /\ ArmWithin'
    BY <1>2, <2>6 DEF ArmInv, FileWithin, ArmWithin, Unraced, Credit, Within
  <2> QED
    BY <1>0, <2>3, <2>4, <2>5, <2>7 DEF ArmInv
<1>3. ASSUME NEW c \in Conns, Enroll(c), mem.token[conn[c].vm] = Fresh PROVE ArmInv'
  <2> DEFINE v == conn[c].vm
  <2>1. /\ Accepted(c, "token", TokenConsumed(mem, v)) /\ LockFree /\ v \in Vms
        /\ UNCHANGED <<traffic, file, backend, spoiled, issued, armed>>
    BY <1>0, <1>3, ConnOpen DEF Enroll, history, ConnType
  <2>2. Minted(v) # Fresh
    BY <1>0, <2>1, BoundsAssumption DEF Minted, Fresh, RestType
  <2>3. /\ TokenConsumed(mem, v).token[v] = Minted(v) /\ TokenConsumed(mem, v).pending = mem.pending
        /\ \A w \in Vms : w # v => TokenConsumed(mem, v).token[w] = mem.token[w]
    BY <1>0, <2>1 DEF TokenConsumed, RestType, Docs
  <2>4. Within(TokenConsumed(mem, v), mem)
    BY <2>2, <2>3 DEF Within
  <2> QED
    BY <1>2, <1>3, <2>1, <2>2, <2>3, <2>4
<1>4. ASSUME NEW c \in Conns, EnrollAssisted(c) PROVE ArmInv'
  <2> DEFINE v == conn[c].vm
             doc == PendingConsumed(Reloaded(v), v)
  <2>1. /\ LockFree /\ v \in Vms
        /\ UNCHANGED <<traffic, file, backend, spoiled, issued, armed>>
        /\ Reloaded(v) \in Docs /\ Reloaded(v) \in {mem, file}
    BY <1>0, <1>4, ConnOpen DEF EnrollAssisted, ConnType, Reloaded, RestType
  <2>2. CASE Accepted(c, "assisted", doc) /\ v \in Reloaded(v).pending
    <3>1. /\ doc.enrolled[v] = Minted(v) /\ doc.token = Reloaded(v).token
          /\ doc.pending = Reloaded(v).pending \ {v}
      BY <2>1 DEF PendingConsumed, Docs
    <3>2. Within(doc, Reloaded(v))
      BY <3>1 DEF Within
    <3> HIDE DEF doc
    <3> QED
      BY <1>2, <2>1, <2>2, <3>1, <3>2
  <2>3. CASE Closed(c) /\ mem' = Reloaded(v)
    <3>1. \A d \in Conns : ~Saving(d)'
      BY <1>0, <2>1, <2>3 DEF Closed, NoConn, LockFree, Saving, MutexType
    <3>2. MemWithin'
      BY <2>1, <2>3 DEF ArmInv, MemWithin, Within, Unraced
    <3>3. \A w \in Vms : Budget(w)' = Budget(w)
      BY <2>1, BudgetKept
    <3>4. FileWithin' /\ ArmWithin'
      BY <2>1, <3>3 DEF ArmInv, FileWithin, ArmWithin, Unraced, Credit, Within
    <3> QED
      BY <1>0, <3>1, <3>2, <3>4 DEF ArmInv, SaverRecords, SaverSpends
  <2> QED
    BY <1>4, <2>2, <2>3 DEF EnrollAssisted
<1>5. ASSUME NEW c \in Conns, SaveRename(c) PROVE ArmInv'
  <2> DEFINE v == conn[c].vm
  <2>1. v \in Vms /\ Saving(c)
    BY <1>0, <1>5, ConnOpen DEF SaveRename, ConnType, Saving
  <2>2. \A d \in Conns : ~Saving(d)'
    BY <1>0, <1>5, RenameFrees
  <2>3. Unraced' => Unraced /\ file' = mem
    BY <1>5 DEF SaveRename, Unraced
  <2>4. /\ mem' = mem /\ issued' = [issued EXCEPT ![v] = conn[c].cert]
        /\ backend' = [backend EXCEPT !.moved = backend.pc # "idle"]
        /\ UNCHANGED <<traffic, armed>>
    BY <1>5 DEF SaveRename
  <2>5. MemWithin'
    BY <2>3, <2>4 DEF MemWithin, Within
  <2>6. ArmWithin'
    BY <1>0, <2>4 DEF ArmWithin, RestType
  <2>7. FileWithin'
    <3> SUFFICES ASSUME Unraced', NEW w \in Vms
                 PROVE  issued'[w] + Credit(mem, w) <= Budget(w)
      BY <2>3, <2>4, BudgetKept DEF FileWithin, Credit
    <3>1. /\ Within(mem, file) /\ issued[w] + Credit(file, w) <= Budget(w)
          /\ Budget(w) \in Nat /\ issued[w] \in Nat
      BY <1>0, <2>3, BudgetType DEF ArmInv, MemWithin, FileWithin
    <3>2. Within(file, file)
      BY DEF Within
    <3>3. Credit(mem, w) \in 0..2 /\ Credit(file, w) \in 0..2 /\ Credit(mem, w) <= Credit(file, w)
      BY <3>1, <3>2, CreditWithin
    <3>4. CASE w = v
      <4>1. issued'[v] = issued[v] + 1
        BY <1>0, <2>1, <2>4 DEF ArmInv, SaverRecords, Minted, RestType
      <4>2. Credit(mem, v) + 1 <= Credit(file, v)
        BY <2>1, <2>3, <3>1, CreditWithin DEF ArmInv, SaverSpends
      <4> QED
        BY <3>1, <3>3, <3>4, <4>1, <4>2
    <3>5. CASE w # v
      BY <1>0, <2>4, <3>1, <3>3, <3>5 DEF RestType
    <3> QED
      BY <3>4, <3>5
  <2> QED
    BY <1>0, <2>2, <2>5, <2>6, <2>7 DEF ArmInv, SaverRecords, SaverSpends
<1>6. ASSUME NEW c \in Conns, SaveFails(c) PROVE ArmInv'
  <2>1. /\ Closed(c) /\ UNCHANGED <<traffic, file, mem, backend, issued, armed>>
        /\ spoiled \subseteq spoiled'
    BY <1>6 DEF SaveFails, Refused
  <2>2. \A d \in Conns : Saving(d) => d = c
    BY <1>0, <1>6 DEF SaveFails, MutexType, Saving
  <2>3. \A d \in Conns : ~Saving(d)'
    BY <1>0, <2>1, <2>2 DEF Closed, NoConn, Saving, MutexType
  <2>4. \A w \in Vms : Budget(w)' = Budget(w)
    BY <2>1, BudgetKept
  <2>5. FileWithin' /\ ArmWithin' /\ MemWithin'
    BY <2>1, <2>4 DEF ArmInv, FileWithin, ArmWithin, MemWithin, Unraced, Credit, Within
  <2> QED
    BY <1>0, <2>3, <2>5 DEF ArmInv, SaverRecords, SaverSpends
<1>7. ASSUME NEW v \in Vms, ArmRead(v) PROVE ArmInv'
  <2>1. UNCHANGED <<traffic, file, mem, conn, issued, spoiled>>
           /\ armed' = [armed EXCEPT ![v] = @ + 1]
    BY <1>7 DEF ArmRead
  <2>2. backend'.doc.token = file.token /\ backend'.doc.pending = file.pending \cup {v}
    BY <1>0, <1>7 DEF ArmRead, RestType, Docs
  <2>3. Within(file, backend'.doc)
    BY <2>2 DEF Within
  <2>4. ASSUME NEW w \in Vms
        PROVE  IF w = v THEN Budget(w)' = Budget(w) + 1 ELSE Budget(w)' = Budget(w)
    <3>1. CASE w # v
      BY <1>0, <2>1, <3>1, BudgetKept DEF RestType
    <3>2. CASE w = v
      BY <1>0, <2>1, <3>2, NoneType DEF RestType, Budget, Holders, OldCert
    <3> QED
      BY <3>1, <3>2
  <2>5. ASSUME NEW w \in Vms
        PROVE  /\ Credit(file, w) \in 0..2
               /\ Credit(backend'.doc, w) \in 0..2
               /\ Credit(backend'.doc, w) <= Credit(file, w) + (IF w = v THEN 1 ELSE 0)
    BY <2>2 DEF Credit
  <2>6. FileWithin' /\ ArmWithin'
    <3> SUFFICES ASSUME Unraced', NEW w \in Vms
                 PROVE  /\ issued[w] + Credit(file, w) <= Budget(w)'
                        /\ issued[w] + Credit(backend'.doc, w) <= Budget(w)'
      BY <2>1, <2>3 DEF FileWithin, ArmWithin, Within, Credit
    <3>1. issued[w] + Credit(file, w) <= Budget(w) /\ Budget(w) \in Nat /\ issued[w] \in Nat
      BY <1>0, <2>1, BudgetType DEF ArmInv, FileWithin, Unraced
    <3> QED
      BY <2>4, <2>5, <3>1
  <2>7. MemWithin' /\ SaverSpends' /\ SaverRecords'
    BY <2>1 DEF ArmInv, MemWithin, SaverSpends, SaverRecords, Unraced, Within, Saving, Minted
  <2> QED
    BY <1>0, <2>6, <2>7 DEF ArmInv
<1>8. CASE ArmRename
  <2>1. UNCHANGED <<traffic, mem, conn, issued, armed>> /\ backend' = NoArm
    BY <1>8 DEF ArmRename
  <2>2. Unraced' => /\ Unraced /\ Within(file, file')
                    /\ \A v \in Vms : issued[v] + Credit(file', v) <= Budget(v)
    BY <1>8 DEF ArmRename, Unraced, ArmInv, ArmWithin
  <2>3. ArmWithin'
    BY <2>1 DEF ArmWithin, NoArm
  <2>4. MemWithin'
    BY <2>1, <2>2, WithinTrans DEF ArmInv, MemWithin
  <2>5. FileWithin'
    BY <2>1, <2>2, BudgetKept DEF FileWithin, Credit
  <2>6. SaverSpends'
    <3> SUFFICES ASSUME Unraced', NEW c \in Conns, Saving(c)'
                 PROVE  \/ file'.token[conn[c].vm] = Fresh /\ mem.token[conn[c].vm] # Fresh
                        \/ conn[c].vm \in file'.pending /\ conn[c].vm \notin mem.pending
      BY <2>1 DEF SaverSpends
    <3>1. conn[c].vm \in Vms /\ Saving(c)
      BY <1>0, <2>1, ConnOpen DEF ConnType, Saving
    <3> QED
      BY <2>2, <3>1 DEF ArmInv, SaverSpends, Within
  <2>7. SaverRecords'
    BY <2>1 DEF ArmInv, SaverRecords, Saving, Minted
  <2> QED
    BY <1>0, <2>3, <2>4, <2>5, <2>6, <2>7 DEF ArmInv
<1>9. CASE ArmFails
  <2>1. /\ UNCHANGED <<traffic, file, mem, conn, issued, armed>> /\ backend' = NoArm
        /\ spoiled \subseteq spoiled'
    BY <1>9 DEF ArmFails
  <2>2. \A w \in Vms : Budget(w)' = Budget(w)
    BY <2>1, BudgetKept
  <2>3. FileWithin' /\ MemWithin' /\ SaverSpends' /\ SaverRecords'
    BY <2>1, <2>2 DEF ArmInv, FileWithin, MemWithin, SaverSpends, SaverRecords, Unraced, Credit,
       Within, Saving, Minted
  <2>4. ArmWithin'
    BY <2>1 DEF ArmWithin, NoArm
  <2> QED
    BY <1>0, <2>3, <2>4 DEF ArmInv
<1>10. CASE Restart
  <2>1. UNCHANGED <<traffic, file, backend, issued, armed, spoiled>> /\ mem' = file
    BY <1>10 DEF Restart
  <2>2. \A c \in Conns : ~Saving(c)'
    BY <1>10 DEF Restart, Answered, NoConn, Saving
  <2>3. \A w \in Vms : Budget(w)' = Budget(w)
    BY <2>1, BudgetKept
  <2>4. FileWithin' /\ ArmWithin' /\ MemWithin'
    BY <2>1, <2>3 DEF ArmInv, FileWithin, ArmWithin, MemWithin, Unraced, Credit, Within
  <2> QED
    BY <1>0, <2>2, <2>4 DEF ArmInv, SaverRecords, SaverSpends
<1> QED
  BY <1>0, <1>1, <1>3, <1>4, <1>5, <1>6, <1>7, <1>8, <1>9, <1>10, LoudOrQuiet

\* The invariants hold at first.
LEMMA EnrolInitInv == EnrolInit => SpentInv /\ ArmInv
<1> SUFFICES ASSUME EnrolInit PROVE SpentInv /\ ArmInv
  OBVIOUS
<1>1. EnrolTypeOK /\ RestType
  BY InitType, TypeSplit
<1>2. \A c \in Conns : ~Saving(c)
  BY DEF EnrolInit, Saving, NoConn
<1>3. mem = file /\ backend.pc = "idle" /\ spoiled = {}
  BY DEF EnrolInit, NoArm
<1>4. \A v \in Vms : /\ file.enrolled[v] = issued[v] /\ v \notin file.pending
                     /\ file.token[v] = Fresh => v \in Holders
                     /\ issued[v] = OldCert /\ armed[v] = 0
  <2>1. /\ file.token = [v \in Vms |-> IF v \in Holders THEN Fresh ELSE Absent]
        /\ file.pending = {} /\ file.enrolled = [v \in Vms |-> OldCert]
    BY DEF EnrolInit
  <2>2. Fresh # Absent
    BY DEF Fresh, Absent
  <2>3. issued = [v \in Vms |-> OldCert] /\ armed = [v \in Vms |-> 0]
    BY DEF EnrolInit
  <2> QED
    BY <2>1, <2>2, <2>3
<1>5. SpentInv
  BY <1>1, <1>2, <1>3, <1>4 DEF SpentInv, SaverRecords, MemAgrees, ArmAgrees, SpentOnDisk,
     SameRecords
<1>6. FileWithin
  <2> SUFFICES ASSUME NEW v \in Vms PROVE issued[v] + Credit(file, v) <= Budget(v)
    BY DEF FileWithin
  <2>1. Credit(file, v) = IF file.token[v] = Fresh THEN 1 ELSE 0
    BY <1>4 DEF Credit
  <2> QED
    BY <1>4, <2>1, NoneType DEF Budget
<1> QED
  BY <1>1, <1>2, <1>3, <1>5, <1>6 DEF ArmInv, SaverRecords, MemWithin, ArmWithin,
     SaverSpends, Within

\* ArmInv is strong enough.
LEMMA ArmInvUsed == ArmInv => ArmUsedOnce
<1> SUFFICES ASSUME ArmInv, Unraced, NEW v \in Vms PROVE issued[v] <= Budget(v)
  BY DEF ArmUsedOnce, Unraced, Budget
<1>1. RestType
  BY TypeSplit DEF ArmInv
<1>2. Budget(v) \in Nat /\ issued[v] \in Nat
  BY <1>1, BudgetType
<1>3. issued[v] + Credit(file, v) <= Budget(v)
  BY DEF ArmInv, FileWithin
<1>4. Credit(file, v) \in 0..2
  BY DEF Credit
<1> QED
  BY <1>2, <1>3, <1>4
=============================================================================
