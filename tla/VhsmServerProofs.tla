-------------------------- MODULE VhsmServerProofs --------------------------
(***************************************************************************)
(* What the vHSM daemon guarantees, for any guests, connections, traffic   *)
(* and bounds.  The invariants of the enrolments are those of              *)
(* VhsmEnrollProofs; TableInv is inductive for the handles.                *)
(***************************************************************************)
EXTENDS VhsmServer, VhsmEnrollProofs, FiniteSetTheorems


\* Only persistent entries are stored.
StoredPersistent == \A h \in Handles : store[h] = NoEntry \/ store[h].persistent

\* Handles are given in ascending order and never twice in a life of the daemon.
HandlesAscend ==
    /\ loaded <= next /\ next <= MaxHandles + keys + faults
    /\ \A i \in DOMAIN table : table[i].handle < next
    /\ \A i, j \in DOMAIN table : i < j => table[i].handle < table[j].handle

\* No key was given to two of the entries made since the daemon started.
KeysDistinct ==
    /\ \A i \in DOMAIN table : table[i].handle >= loaded => table[i].key <= keys
    /\ \A i, j \in DOMAIN table :
          /\ i # j /\ table[i].handle >= loaded /\ table[j].handle >= loaded
          /\ table[i].key # NoKey
          => table[i].key # table[j].key

\* The request that nothing came into finds the table as it left it.
RequestAlone ==
    \A c \in Conns :
        /\ req[c].pc # "persist" => req[c].key = NoKey
        /\ req[c].pc = "handle" /\ ~req[c].touched => req[c].before = Len(table)
        /\ req[c].pc = "persist" /\ ~req[c].touched /\ req[c].key # NoKey =>
              LET e == Last(table) IN
              /\ Len(table) = req[c].before + 1
              /\ e.key = req[c].key /\ e.persistent /\ e.handle >= loaded

TableInv ==
    /\ TypeOK /\ StoredPersistent /\ HandlesAscend /\ KeysDistinct /\ RequestAlone
    /\ NewEntryNamesItsKey /\ EphemeralHasConnection /\ PersistentStoredUnlessRaced

----------------------------------------------------------------------------

\* The type of what is not of the enrolments.
ReqType == [pc : {"idle", "handle", "persist"}, before : 0..MaxHandles, touched : BOOLEAN,
            key : 0..MaxKeys]

ServerType ==
    /\ table \in Seq(Entries) /\ Len(table) <= MaxHandles
    /\ next \in Handles /\ loaded \in 0..MaxHandles
    /\ material \in [Handles -> 0..MaxKeys] /\ keys \in 0..MaxKeys
    /\ store \in [Handles -> Entries]
    /\ req \in [Conns -> ReqType]
    /\ raced \subseteq 1..MaxKeys

RequestsAuth == \A c \in Conns : req[c].pc = "idle" \/ conn[c].st = "auth"

\* The type invariant, in its parts.
LEMMA ServerSplit == /\ TypeOK <=> EnrolTypeOK /\ ServerType /\ RequestsAuth
                     /\ TypeOK' <=> (EnrolTypeOK /\ ServerType /\ RequestsAuth)'
BY DEF TypeOK, ServerType, RequestsAuth, ReqType

\* The values that stand for nothing have their types.
LEMMA NothingType == NoEntry \in Entries /\ Idle \in ReqType /\ Handles \subseteq Nat
BY SomeVmType, HandlesAssumption, BoundsAssumption
   DEF NoEntry, Entries, Idle, ReqType, Handles, NoKey, SomeVm

\* The type of an entry.
LEMMA EntryOf ==
    ASSUME table \in Seq(Entries), NEW i \in DOMAIN table
    PROVE  table[i] \in Entries /\ i \in 1..Len(table) /\ Len(table) \in Nat
OBVIOUS

\* A step of the enrolments leaves an authenticated connection alone.
LEMMA AuthKept ==
    ASSUME MutexType, EnrolStep, NEW d \in Conns, conn[d].st = "auth"
    PROVE  conn'[d] = conn[d]
<1>1. ASSUME NEW c \in Conns, conn[c].st # "auth", NEW k, conn' = [conn EXCEPT ![c] = k]
      PROVE  conn'[d] = conn[d]
  BY <1>1 DEF MutexType
<1>2. ASSUME NEW c \in Conns, NEW v \in Vms, Connect(c, v) PROVE conn'[d] = conn[d]
  BY <1>1, <1>2 DEF Connect
<1>3. ASSUME NEW c \in Conns, Auth(c) PROVE conn'[d] = conn[d]
  BY <1>1, <1>3 DEF Auth, Closed
<1>4. ASSUME NEW c \in Conns, Enroll(c) PROVE conn'[d] = conn[d]
  BY <1>1, <1>4 DEF Enroll, Accepted, Closed
<1>5. ASSUME NEW c \in Conns, EnrollAssisted(c) PROVE conn'[d] = conn[d]
  BY <1>1, <1>5 DEF EnrollAssisted, Accepted, Closed
<1>6. ASSUME NEW c \in Conns, ReloadFails(c) \/ SaveWrite(c) PROVE conn'[d] = conn[d]
  BY <1>1, <1>6 DEF ReloadFails, Closed, SaveWrite
<1>7. ASSUME NEW c \in Conns, SaveRename(c) PROVE conn'[d] = conn[d]
  BY <1>1, <1>7 DEF SaveRename
<1>8. ASSUME NEW c \in Conns, SaveFails(c) PROVE conn'[d] = conn[d]
  BY <1>1, <1>8 DEF SaveFails, Refused, Closed, Saving
<1>9. ASSUME NEW c \in Conns,
             ClientSavesKey(c) \/ ClientSavesCert(c) \/ ClientDeletesToken(c) \/ ClientDies(c)
      PROVE  conn'[d] = conn[d]
  BY <1>1, <1>9 DEF ClientSavesKey, ClientSavesCert, ClientDeletesToken, ClientDies, Closed,
     Answered
<1>10. ASSUME (\E v \in Vms : ArmRead(v)) \/ ArmWrite \/ ArmRename \/ ArmFails
       PROVE  conn' = conn
  BY <1>10 DEF ArmRead, ArmWrite, ArmRename, ArmFails
<1> QED
  BY <1>2, <1>3, <1>4, <1>5, <1>6, <1>7, <1>8, <1>9, <1>10 DEF EnrolStep

\* The count of failures does not go back.
LEMMA FaultsGrow == ASSUME RestType, EnrolStep PROVE faults <= faults'
<1>1. ASSUME NEW kind, Faulty(kind) PROVE faults <= faults'
  BY <1>1, BoundsAssumption DEF Faulty, RestType
<1>2. ASSUME UNCHANGED faults PROVE faults <= faults'
  BY <1>2, BoundsAssumption DEF RestType
<1>3. UNCHANGED faults \/ Faulty("disk_fault")
  BY DEF EnrolStep, Connect, Auth, Enroll, EnrollAssisted, ReloadFails, SaveWrite, SaveRename,
     SaveFails, ClientSavesKey, ClientSavesCert, ClientDeletesToken, ClientDies, ArmRead,
     ArmWrite, ArmRename, ArmFails
<1> QED
  BY <1>1, <1>2, <1>3

\* Arithmetic of the bound on handles.
LEMMA Bounded ==
    ASSUME NEW n \in Nat, NEW a \in Nat, NEW b \in Nat, NEW f \in Nat, NEW k \in Nat,
           NEW g \in Nat, n <= a + b + f, b <= k, f <= g
    PROVE  n <= a + k + g
OBVIOUS

\* The same where one more failure is counted.
LEMMA Widened ==
    ASSUME NEW n \in Nat, NEW a \in Nat, NEW b \in Nat, NEW f \in Nat, NEW g \in Nat,
           n <= a + b + f, f <= g
    PROVE  n <= a + b + g
OBVIOUS

\* A step of the enrolments alone.
LEMMA TableKept ==
    ASSUME TableInv, EnrolStep, UNCHANGED tableVars PROVE TableInv'
<1>0. EnrolTypeOK /\ EnrolTypeOK' /\ RestType /\ MutexType /\ ServerType /\ RequestsAuth
  BY TypeStep, TypeSplit, ServerSplit DEF TableInv, EnrolNext
<1>1. \A c \in Conns : conn[c].st = "auth" => conn'[c] = conn[c]
  BY <1>0, AuthKept
<1>2. ServerType'
  BY <1>0 DEF ServerType, tableVars
<1>3. RequestsAuth'
  BY <1>0, <1>1 DEF RequestsAuth, tableVars
<1>4. HandlesAscend'
  <2>1. faults <= faults' /\ faults \in Nat /\ faults' \in Nat
    BY <1>0, FaultsGrow, TypeSplit, BoundsAssumption DEF RestType
  <2>2. next \in Nat /\ keys \in Nat /\ MaxHandles \in Nat
    BY <1>0, NothingType, HandlesAssumption DEF ServerType
  <2>3. next <= MaxHandles + keys + faults
    BY DEF TableInv, HandlesAscend
  <2>4. next <= MaxHandles + keys + faults'
    BY <2>1, <2>2, <2>3, Widened
  <2> QED
    BY <2>4 DEF TableInv, HandlesAscend, tableVars
<1>5. StoredPersistent' /\ KeysDistinct' /\ RequestAlone'
  BY DEF TableInv, StoredPersistent, KeysDistinct, RequestAlone, tableVars
<1>6. NewEntryNamesItsKey' /\ PersistentStoredUnlessRaced'
  BY DEF TableInv, NewEntryNamesItsKey, PersistentStoredUnlessRaced, KeyOf, tableVars
<1>7. EphemeralHasConnection'
  BY <1>1 DEF TableInv, EphemeralHasConnection, tableVars
<1> QED
  BY <1>0, <1>2, <1>3, <1>4, <1>5, <1>6, <1>7, ServerSplit DEF TableInv
\* A step that leaves the connections, and of the enrolments at most counts a
\* fault: the types of the enrolments stay.
EnrolKept == UNCHANGED <<traffic, file, tmp, mem, conn, backend, guest, restarts, history>>

\* Such a step keeps the types of the enrolments.
LEMMA EnrolKeptType ==
    ASSUME EnrolTypeOK, EnrolKept,
           UNCHANGED faults \/ (faults < MaxFaults /\ faults' = faults + 1)
    PROVE  EnrolTypeOK' /\ faults <= faults' /\ faults \in Nat /\ faults' \in Nat
<1>1. RestType /\ MutexType
  BY TypeSplit
<1>2. faults' \in 0..MaxFaults /\ faults <= faults' /\ faults \in Nat
  BY <1>1, BoundsAssumption DEF RestType
<1>3. RestType'
  BY <1>1, <1>2 DEF EnrolKept, history, RestType
<1>4. MutexType'
  BY <1>1, ConnKept DEF EnrolKept
<1> QED
  BY <1>2, <1>3, <1>4, TypeSplit

\* The first section of a request keeps TableInv.
LEMMA DispatchStep == ASSUME TableInv, NEW c \in Conns, Dispatch(c) PROVE TableInv'
<1>0. EnrolTypeOK /\ EnrolKept /\ UNCHANGED faults /\ ServerType /\ RequestsAuth
         /\ conn[c].st = "auth"
  BY ServerSplit DEF TableInv, Dispatch, enrolVars, EnrolKept, history
<1>1. EnrolTypeOK'
  BY <1>0, EnrolKeptType
<1> DEFINE r == [Idle EXCEPT !.pc = "handle", !.before = Len(table)]
<1>2. Len(table) \in 0..MaxHandles
  BY <1>0, HandlesAssumption DEF ServerType
<1>3. r \in ReqType /\ r.pc = "handle" /\ r.before = Len(table) /\ r.key = NoKey
  BY <1>2, NothingType DEF ReqType, Idle
<1> HIDE DEF r
<1>4. /\ req' = [req EXCEPT ![c] = r] /\ req[c].pc = "idle"
      /\ UNCHANGED <<conn, faults, table, next, material, store, keys, loaded, raced>>
  BY DEF Dispatch, r, enrolVars
<1>5. ServerType' /\ RequestsAuth'
  BY <1>0, <1>3, <1>4 DEF ServerType, RequestsAuth
<1>6. RequestAlone'
  BY <1>0, <1>3, <1>4 DEF TableInv, RequestAlone, ServerType
<1>7. \A d \in Conns : req'[d].key = req[d].key
  BY <1>0, <1>3, <1>4 DEF TableInv, RequestAlone, ServerType
<1>8. PersistentStoredUnlessRaced'
  BY <1>4, <1>7 DEF TableInv, PersistentStoredUnlessRaced
<1>9. StoredPersistent' /\ HandlesAscend' /\ KeysDistinct' /\ NewEntryNamesItsKey'
         /\ EphemeralHasConnection'
  BY <1>4 DEF TableInv, StoredPersistent, HandlesAscend, KeysDistinct, NewEntryNamesItsKey,
     EphemeralHasConnection, KeyOf
<1> QED
  BY <1>1, <1>5, <1>6, <1>8, <1>9, ServerSplit DEF TableInv

\* So does the second, of a request that adds no entry.
LEMMA NotAllocatedStep == ASSUME TableInv, NEW c \in Conns, NotAllocated(c) PROVE TableInv'
<1>0. EnrolTypeOK /\ EnrolKept /\ UNCHANGED faults /\ ServerType /\ RequestsAuth
  BY ServerSplit DEF TableInv, NotAllocated, enrolVars, EnrolKept, history
<1>1. EnrolTypeOK'
  BY <1>0, EnrolKeptType
<1> DEFINE r == [req[c] EXCEPT !.pc = "persist"]
<1>2. req[c] \in ReqType /\ req[c].key = NoKey /\ req[c].pc = "handle"
  BY <1>0 DEF ServerType, TableInv, RequestAlone, NotAllocated
<1>3. r \in ReqType /\ r.pc = "persist" /\ r.key = NoKey
  BY <1>2 DEF ReqType
<1>4. /\ req' = [req EXCEPT ![c] = r]
      /\ UNCHANGED <<conn, faults, table, next, material, store, keys, loaded, raced>>
  BY DEF NotAllocated, enrolVars
<1> HIDE DEF r
<1>5. ServerType' /\ RequestsAuth'
  BY <1>0, <1>2, <1>3, <1>4 DEF ServerType, RequestsAuth
<1>6. RequestAlone'
  BY <1>0, <1>3, <1>4 DEF TableInv, RequestAlone, ServerType
<1>7. \A d \in Conns : req'[d].key = req[d].key
  BY <1>0, <1>2, <1>3, <1>4 DEF ServerType
<1>8. PersistentStoredUnlessRaced'
  BY <1>4, <1>7 DEF TableInv, PersistentStoredUnlessRaced
<1>9. StoredPersistent' /\ HandlesAscend' /\ KeysDistinct' /\ NewEntryNamesItsKey'
         /\ EphemeralHasConnection'
  BY <1>4 DEF TableInv, StoredPersistent, HandlesAscend, KeysDistinct, NewEntryNamesItsKey,
     EphemeralHasConnection, KeyOf
<1> QED
  BY <1>1, <1>5, <1>6, <1>8, <1>9, ServerSplit DEF TableInv

\* The third section: what was served alone is stored now, and what another
\* entry of the table stored is not overwritten.
LEMMA PersistStep == ASSUME TableInv, NEW c \in Conns, Persist(c) PROVE TableInv'
<1> DEFINE e == Last(table)
           stores == Grew(c) /\ e.persistent
<1>0. /\ EnrolTypeOK /\ EnrolKept /\ ServerType /\ RequestsAuth /\ req[c].pc = "persist"
      /\ UNCHANGED faults \/ (faults < MaxFaults /\ faults' = faults + 1)
      /\ UNCHANGED <<conn, table, next, material, keys, loaded>>
      /\ req' = [req EXCEPT ![c] = Idle]
  BY ServerSplit DEF TableInv, Persist, EnrolKept, Faulty
<1>1. EnrolTypeOK' /\ faults <= faults' /\ faults \in Nat /\ faults' \in Nat
  BY <1>0, EnrolKeptType
<1>2. req[c] \in ReqType /\ Idle \in ReqType /\ Idle.pc = "idle" /\ Idle.key = NoKey
  BY <1>0, NothingType DEF ServerType, Idle
<1>3. Grew(c) => Len(table) \in DOMAIN table /\ e = table[Len(table)] /\ e \in Entries
  BY <1>0, <1>2 DEF Grew, ServerType, ReqType, Last
<1>4. store' = (IF stores THEN [store EXCEPT ![e.handle] = e] ELSE store) \/ store' = store
  BY DEF Persist
<1>5. raced' = raced \/ raced' = raced \cup ({req[c].key} \ {NoKey})
  BY DEF Persist
<1> HIDE DEF stores, e
<1>6. ServerType' /\ RequestsAuth'
  <2>1. store' \in [Handles -> Entries]
    BY <1>0, <1>3, <1>4 DEF ServerType, stores, Entries
  <2>2. raced' \subseteq 1..MaxKeys
    <3>1. req[c].key \in 0..MaxKeys
      BY <1>2 DEF ReqType
    <3>2. {req[c].key} \ {NoKey} \subseteq 1..MaxKeys
      BY <3>1, HandlesAssumption DEF NoKey
    <3>3. raced \subseteq 1..MaxKeys
      BY <1>0 DEF ServerType
    <3> QED
      BY <1>5, <3>2, <3>3, Zenon
  <2>3. req' \in [Conns -> ReqType]
    BY <1>0, <1>2 DEF ServerType
  <2> QED
    BY <1>0, <1>2, <2>1, <2>2, <2>3 DEF ServerType, RequestsAuth
<1>7. StoredPersistent'
  BY <1>0, <1>3, <1>4 DEF TableInv, StoredPersistent, stores, ServerType, Entries
<1>8. HandlesAscend'
  <2>1. next \in Nat /\ keys \in Nat /\ MaxHandles \in Nat
    BY <1>0, NothingType, HandlesAssumption DEF ServerType
  <2>2. next <= MaxHandles + keys + faults'
    BY <1>1, <2>1, Widened DEF TableInv, HandlesAscend
  <2> QED
    BY <1>0, <2>2 DEF TableInv, HandlesAscend
<1>9. KeysDistinct' /\ NewEntryNamesItsKey' /\ EphemeralHasConnection'
  BY <1>0 DEF TableInv, KeysDistinct, NewEntryNamesItsKey, EphemeralHasConnection, KeyOf
<1>10. RequestAlone'
  BY <1>0, <1>2 DEF TableInv, RequestAlone, ServerType
<1>11. PersistentStoredUnlessRaced'
  <2> SUFFICES ASSUME NEW i \in DOMAIN table, table[i].persistent, table[i].handle >= loaded,
                      table[i].key \notin raced', table[i].key # NoKey,
                      \A d \in Conns : req'[d].key # table[i].key
               PROVE  store'[table[i].handle] = table[i]
    BY <1>0 DEF PersistentStoredUnlessRaced
  <2>0. table[i] \in Entries /\ table[i].handle \in Handles
    BY <1>0, EntryOf DEF ServerType, Entries
  \* An entry stored before stays: no other has its handle.
  <2>1. CASE store[table[i].handle] = table[i]
    <3>1. CASE Grew(c) /\ i # Len(table)
      <4>1. e.handle # table[i].handle
        <5>1. i \in 1..Len(table) /\ Len(table) \in Nat
          BY <1>0, EntryOf DEF ServerType
        <5>2. table[i].handle < table[Len(table)].handle
          BY <1>3, <3>1, <5>1 DEF TableInv, HandlesAscend
        <5>3. e.handle \in Nat /\ table[i].handle \in Nat
          BY <1>3, <2>0, <3>1, NothingType DEF Entries
        <5> QED
          BY <1>3, <3>1, <5>2, <5>3
      <4> QED
        BY <1>0, <1>3, <1>4, <2>0, <2>1, <3>1, <4>1 DEF ServerType, Entries
    <3>2. CASE Grew(c) /\ i = Len(table)
      BY <1>0, <1>3, <1>4, <2>0, <2>1, <3>2 DEF ServerType
    <3>3. CASE ~Grew(c)
      BY <1>4, <2>1, <3>3 DEF stores
    <3> QED
      BY <3>1, <3>2, <3>3
  <2>2. CASE store[table[i].handle] # table[i]
    <3>1. table[i].key \notin raced
      BY <1>5
    <3>2. req[c].key = table[i].key
      <4>1. \A d \in Conns \ {c} : req[d].key # table[i].key
        BY <1>0 DEF ServerType
      <4> QED
        BY <2>2, <3>1, <4>1 DEF TableInv, PersistentStoredUnlessRaced
    <3>3. raced' # raced \cup ({req[c].key} \ {NoKey})
      BY <3>2
    <3>4. ~req[c].touched /\ store' = IF stores THEN [store EXCEPT ![e.handle] = e] ELSE store
      BY <3>3 DEF Persist, stores, e
    <3>5. Len(table) = req[c].before + 1 /\ e.key = req[c].key /\ e.persistent /\ e.handle >= loaded
      BY <1>0, <3>2, <3>4 DEF TableInv, RequestAlone, e
    <3>6. Grew(c)
      BY <1>2, <3>5 DEF Grew, ReqType
    <3>7. i = Len(table)
      BY <1>3, <3>2, <3>5, <3>6 DEF TableInv, KeysDistinct
    <3> QED
      BY <1>0, <1>3, <2>0, <3>4, <3>5, <3>6, <3>7 DEF stores, ServerType
  <2> QED
    BY <2>1, <2>2
<1> QED
  BY <1>1, <1>6, <1>7, <1>8, <1>9, <1>10, <1>11, ServerSplit DEF TableInv
\* The requests of the others are marked, in the rest they stay.
LEMMA TouchedType ==
    ASSUME NEW r \in [Conns -> ReqType], NEW c \in Conns
    PROVE  /\ Touched(r, c) \in [Conns -> ReqType]
           /\ \A d \in Conns :
                 /\ Touched(r, c)[d].pc = r[d].pc /\ Touched(r, c)[d].key = r[d].key
                 /\ Touched(r, c)[d].before = r[d].before
                 /\ r[d].touched => Touched(r, c)[d].touched
                 /\ d # c /\ r[d].pc # "idle" => Touched(r, c)[d].touched
                 /\ Touched(r, c)[d].touched => r[d].touched \/ d # c
<1> DEFINE t(d) == r[d].touched \/ (d # c /\ r[d].pc # "idle")
<1>1. \A d \in Conns : t(d) \in BOOLEAN
  OBVIOUS
<1>2. Touched(r, c) = [d \in Conns |-> [r[d] EXCEPT !.touched = t(d)]]
  BY DEF Touched
<1>3. ASSUME NEW d \in Conns
      PROVE  /\ Touched(r, c)[d] \in ReqType
             /\ Touched(r, c)[d].touched = t(d) /\ Touched(r, c)[d].pc = r[d].pc
             /\ Touched(r, c)[d].key = r[d].key /\ Touched(r, c)[d].before = r[d].before
  <2>1. r[d] \in ReqType /\ Touched(r, c)[d] = [r[d] EXCEPT !.touched = t(d)]
    BY <1>2
  <2>2. t(d) \in BOOLEAN
    BY <1>1
  <2> HIDE DEF t
  <2> QED
    BY <2>1, <2>2 DEF ReqType
<1>4. Touched(r, c) \in [Conns -> ReqType]
  BY <1>2, <1>3
<1> QED
  BY <1>3, <1>4

\* The second section, that adds entry n: it comes last and its handle is new.
LEMMA AllocStep ==
    ASSUME TableInv, NEW c \in Conns, NEW p \in BOOLEAN, KeyGenerate(c, p) PROVE TableInv'
<1> USE HandlesAssumption, BoundsAssumption
<1>0. /\ EnrolTypeOK /\ EnrolKept /\ ServerType /\ RequestsAuth
      /\ req[c].pc = "handle" /\ Len(table) < MaxHandles /\ keys < MaxKeys
      /\ UNCHANGED faults \/ (faults < MaxFaults /\ faults' = faults + 1)
      /\ UNCHANGED <<conn, store, loaded, raced>> /\ next' = next + 1
  BY ServerSplit DEF TableInv, KeyGenerate, EnrolKept, Faulty, Room
<1>1. EnrolTypeOK' /\ faults <= faults' /\ faults \in Nat /\ faults' \in Nat
  BY <1>0, EnrolKeptType
<1>2. /\ req[c] \in ReqType /\ req[c].key = NoKey /\ conn[c].st = "auth" /\ conn[c].vm \in Vms
      /\ next \in Nat /\ keys \in Nat /\ loaded \in Nat /\ Len(table) \in Nat
  BY <1>0, NothingType, ConnOpen, TypeSplit
     DEF ServerType, TableInv, RequestAlone, RequestsAuth, ConnType
<1>3. PICK k \in 0..MaxKeys :
         /\ k \in {NoKey, keys + 1}
         /\ table' = Append(table, [handle |-> next, owner |-> conn[c].vm, persistent |-> p,
                                    key |-> k])
         /\ IF k = NoKey
            THEN /\ faults' = faults + 1 /\ UNCHANGED <<keys, material>>
                 /\ req' = Touched([req EXCEPT ![c].pc = "persist"], c)
            ELSE /\ keys' = keys + 1 /\ UNCHANGED faults
                 /\ material' = [material EXCEPT ![next] = k]
                 /\ req' = Touched([req EXCEPT ![c].pc = "persist",
                                               ![c].key = IF p THEN k ELSE NoKey], c)
  <2>1. CASE keys' = keys + 1 /\ UNCHANGED faults
    <3>1. keys + 1 \in 0..MaxKeys /\ keys + 1 # NoKey
      BY <1>0, <1>2 DEF NoKey
    <3>2. ~UNCHANGED keys
      BY <1>2, <2>1
    <3>3. /\ table' = Append(table, [handle |-> next, owner |-> conn[c].vm, persistent |-> p,
                                     key |-> keys'])
          /\ material' = [material EXCEPT ![next] = keys']
          /\ req' = Touched([req EXCEPT ![c].pc = "persist",
                                        ![c].key = IF p THEN keys' ELSE NoKey], c)
      BY <3>2 DEF KeyGenerate, NextHandle
    <3> QED
      BY <2>1, <3>1, <3>3
  <2>2. CASE UNCHANGED keys /\ faults' = faults + 1
    <3>1. NoKey \in 0..MaxKeys /\ keys # keys + 1
      BY <1>2 DEF NoKey
    <3> QED
      BY <2>2, <3>1 DEF KeyGenerate, NextHandle, Faulty
  <2> QED
    BY <2>1, <2>2 DEF KeyGenerate, Faulty
<1> DEFINE n == [handle |-> next, owner |-> conn[c].vm, persistent |-> p, key |-> k]
           q == IF k # NoKey /\ p THEN k ELSE NoKey
           r == [req EXCEPT ![c] = [req[c] EXCEPT !.pc = "persist", !.key = q]]
<1>4. next' <= MaxHandles + keys' + faults' /\ keys' \in 0..MaxKeys
  <2>1. next <= MaxHandles + keys + faults
    BY DEF TableInv, HandlesAscend
  <2>2. (keys' = keys /\ faults' = faults + 1) \/ (keys' = keys + 1 /\ faults' = faults)
    BY <1>3
  <2> QED
    BY <1>0, <1>1, <1>2, <2>1, <2>2
<1>5. next \in Handles /\ next' \in Handles
  <2>1. faults' <= MaxFaults
    BY <1>1, TypeSplit DEF RestType
  <2>2. next' \in Nat /\ keys' <= MaxKeys /\ keys' \in Nat
    BY <1>0, <1>2, <1>4
  <2>3. next' <= MaxHandles + MaxKeys + MaxFaults
    BY <1>1, <1>4, <2>1, <2>2, Bounded
  <2> QED
    BY <1>0, <2>2, <2>3 DEF Handles, ServerType
<1>6. n \in Entries /\ n.handle = next /\ n.key = k /\ n.persistent = p /\ n.owner = conn[c].vm
  BY <1>2, <1>3, <1>5 DEF Entries
<1>7. req' = Touched(r, c) /\ r \in [Conns -> ReqType]
  <2>1. q \in 0..MaxKeys
    BY <1>3 DEF NoKey
  <2>2. [req[c] EXCEPT !.pc = "persist", !.key = q] \in ReqType
    BY <1>2, <2>1 DEF ReqType
  <2>3. r \in [Conns -> ReqType]
    BY <1>0, <2>2 DEF ServerType
  <2>4. CASE k = NoKey
    <3>1. q = req[c].key
      BY <1>2, <2>4
    <3>2. [req EXCEPT ![c].pc = "persist"] = r
      BY <1>0, <1>2, <3>1 DEF ServerType, ReqType
    <3> QED
      BY <1>3, <2>3, <2>4, <3>2
  <2>5. CASE k # NoKey
    <3>1. q = IF p THEN k ELSE NoKey
      BY <2>5
    <3>2. [req EXCEPT ![c].pc = "persist", ![c].key = IF p THEN k ELSE NoKey] = r
      BY <1>0, <1>2, <3>1 DEF ServerType, ReqType
    <3> QED
      BY <1>3, <2>3, <2>5, <3>2
  <2> QED
    BY <2>4, <2>5
<1>8. /\ r[c].pc = "persist" /\ r[c].key = q /\ r[c].before = req[c].before
      /\ r[c].touched = req[c].touched
      /\ \A d \in Conns : d # c => r[d] = req[d]
  BY <1>0, <1>2 DEF ServerType, ReqType
<1> HIDE DEF r
<1>9. /\ Len(table') = Len(table) + 1 /\ table' \in Seq(Entries)
      /\ table'[Len(table) + 1] = n
      /\ \A i \in DOMAIN table : i \in DOMAIN table' /\ table'[i] = table[i]
      /\ \A i \in DOMAIN table' :
            i \in DOMAIN table \/ (i = Len(table) + 1 /\ i \notin DOMAIN table)
      /\ \A i \in DOMAIN table : i < Len(table) + 1
  BY <1>0, <1>3, <1>6 DEF ServerType
<1> HIDE DEF n
<1>10. ServerType'
  <2>1. material' \in [Handles -> 0..MaxKeys]
    BY <1>0, <1>3, <1>5 DEF ServerType
  <2>2. Len(table') <= MaxHandles
    BY <1>0, <1>2, <1>9
  <2>3. req' \in [Conns -> ReqType]
    BY <1>7, TouchedType
  <2> QED
    BY <1>0, <1>4, <1>5, <1>9, <2>1, <2>2, <2>3 DEF ServerType
<1>11. RequestsAuth'
  BY <1>0, <1>2, <1>7, <1>8, TouchedType DEF RequestsAuth
<1>12. StoredPersistent'
  BY <1>0 DEF TableInv, StoredPersistent
<1>13. \A i \in DOMAIN table : table[i] \in Entries /\ table[i].handle \in Nat
                               /\ table[i].handle < next /\ table[i].handle # next
  <2> SUFFICES ASSUME NEW i \in DOMAIN table
               PROVE  /\ table[i] \in Entries /\ table[i].handle \in Nat
                      /\ table[i].handle < next /\ table[i].handle # next
    OBVIOUS
  <2>1. table[i] \in Entries /\ table[i].handle < next
    BY <1>0, EntryOf DEF ServerType, TableInv, HandlesAscend
  <2>2. table[i].handle \in Nat
    BY <2>1, NothingType DEF Entries
  <2> QED
    BY <1>2, <2>1, <2>2
<1>14. HandlesAscend'
  <2>1. loaded' <= next'
    BY <1>0, <1>2 DEF TableInv, HandlesAscend
  <2>2. \A i \in DOMAIN table' : table'[i].handle < next'
    BY <1>0, <1>2, <1>6, <1>9, <1>13
  <2>3. \A i, j \in DOMAIN table' : i < j => table'[i].handle < table'[j].handle
    <3> SUFFICES ASSUME NEW i \in DOMAIN table', NEW j \in DOMAIN table', i < j
                 PROVE  table'[i].handle < table'[j].handle
      OBVIOUS
    <3>1. i \in DOMAIN table
      BY <1>0, <1>2, <1>9 DEF ServerType
    <3>2. CASE j \in DOMAIN table
      BY <1>9, <3>1, <3>2 DEF TableInv, HandlesAscend
    <3>3. CASE j = Len(table) + 1
      BY <1>6, <1>9, <1>13, <3>1, <3>3
    <3> QED
      BY <1>9, <3>2, <3>3
  <2> QED
    BY <1>4, <2>1, <2>2, <2>3 DEF HandlesAscend
<1>15. KeysDistinct'
  <2>0. keys' \in Nat /\ keys <= keys' /\ k <= keys' /\ k \in Nat
    BY <1>2, <1>3 DEF NoKey
  <2>1. \A i \in DOMAIN table : table[i].key \in Nat
    BY <1>13 DEF Entries
  <2>2. \A i \in DOMAIN table : table[i].handle >= loaded => table[i].key <= keys
    BY DEF TableInv, KeysDistinct
  <2>3. \A i \in DOMAIN table' : table'[i].handle >= loaded' => table'[i].key <= keys'
    BY <1>0, <1>2, <1>6, <1>9, <2>0, <2>1, <2>2
  <2>4. \A i \in DOMAIN table : table[i].handle >= loaded /\ k # NoKey => table[i].key # k
    BY <1>2, <1>3, <2>1, <2>2
  <2> SUFFICES ASSUME NEW i \in DOMAIN table', NEW j \in DOMAIN table', i # j,
                      table'[i].handle >= loaded', table'[j].handle >= loaded',
                      table'[i].key # NoKey
               PROVE  table'[i].key # table'[j].key
    BY <2>3 DEF KeysDistinct
  <2>5. CASE i \in DOMAIN table /\ j \in DOMAIN table
    BY <1>0, <1>9, <2>5 DEF TableInv, KeysDistinct
  <2>6. CASE i \in DOMAIN table /\ j = Len(table) + 1
    BY <1>0, <1>6, <1>9, <2>4, <2>6
  <2>7. CASE i = Len(table) + 1 /\ j \in DOMAIN table
    BY <1>0, <1>6, <1>9, <2>4, <2>7
  <2> QED
    BY <1>9, <2>5, <2>6, <2>7
<1>16. NewEntryNamesItsKey'
  <2> SUFFICES ASSUME NEW i \in DOMAIN table', table'[i].handle >= loaded'
               PROVE  table'[i].key \in {NoKey, material'[table'[i].handle]}
    BY DEF NewEntryNamesItsKey, KeyOf
  <2>1. CASE i \in DOMAIN table
    <3>1. table[i].key \in {NoKey, material[table[i].handle]}
      BY <1>0, <1>9, <2>1 DEF TableInv, NewEntryNamesItsKey, KeyOf
    <3>2. material'[table[i].handle] = material[table[i].handle]
      BY <1>0, <1>3, <1>13, <2>1 DEF ServerType, Entries
    <3> QED
      BY <1>9, <2>1, <3>1, <3>2
  <2>2. CASE i = Len(table) + 1
    BY <1>0, <1>3, <1>5, <1>6, <1>9, <2>2 DEF ServerType
  <2> QED
    BY <1>9, <2>1, <2>2
<1>17. EphemeralHasConnection'
  BY <1>0, <1>2, <1>6, <1>9 DEF TableInv, EphemeralHasConnection
<1>18. RequestAlone'
  <2> SUFFICES ASSUME NEW d \in Conns
               PROVE  /\ req'[d].pc # "persist" => req'[d].key = NoKey
                      /\ req'[d].pc = "handle" /\ ~req'[d].touched => req'[d].before = Len(table')
                      /\ req'[d].pc = "persist" /\ ~req'[d].touched /\ req'[d].key # NoKey =>
                            /\ Len(table') = req'[d].before + 1
                            /\ Last(table').key = req'[d].key /\ Last(table').persistent
                            /\ Last(table').handle >= loaded'
    BY DEF RequestAlone
  <2>1. CASE d = c
    <3>1. /\ req'[c].pc = "persist" /\ req'[c].key = q /\ req'[c].before = req[c].before
          /\ req[c].touched => req'[c].touched
      BY <1>7, <1>8, TouchedType
    <3>2. ~req[c].touched => req[c].before = Len(table)
      BY <1>0 DEF TableInv, RequestAlone
    <3>3. Last(table') = n /\ next >= loaded
      BY <1>2, <1>9 DEF Last, TableInv, HandlesAscend
    <3>4. q # NoKey => q = k /\ p
      OBVIOUS
    <3> QED
      BY <1>0, <1>6, <1>9, <2>1, <3>1, <3>2, <3>3, <3>4
  <2>2. CASE d # c
    <3>1. /\ req'[d].pc = req[d].pc /\ req'[d].key = req[d].key
          /\ req[d].pc # "idle" => req'[d].touched
      BY <1>7, <1>8, <2>2, TouchedType
    <3> QED
      BY <3>1 DEF TableInv, RequestAlone
  <2> QED
    BY <2>1, <2>2
<1>19. PersistentStoredUnlessRaced'
  <2> SUFFICES ASSUME NEW i \in DOMAIN table', table'[i].persistent, table'[i].handle >= loaded',
                      table'[i].key \notin raced', table'[i].key # NoKey,
                      \A d \in Conns : req'[d].key # table'[i].key
               PROVE  store'[table'[i].handle] = table'[i]
    BY DEF PersistentStoredUnlessRaced
  <2>1. i # Len(table) + 1
    <3>1. req'[c].key = q
      BY <1>7, <1>8, TouchedType
    <3> QED
      BY <1>6, <1>9, <3>1
  <2>2. i \in DOMAIN table /\ table'[i] = table[i]
    BY <1>9, <2>1
  <2>3. \A d \in Conns : req[d].key # table[i].key
    BY <1>2, <1>7, <1>8, <2>2, TouchedType
  <2> QED
    BY <1>0, <2>2, <2>3 DEF TableInv, PersistentStoredUnlessRaced
<1> QED
  BY <1>1, <1>10, <1>11, <1>12, <1>14, <1>15, <1>16, <1>17, <1>18, <1>19, ServerSplit DEF TableInv
\* The entries that stay at a close, in their order.
LEMMA KeptSeq ==
    ASSUME table \in Seq(Entries), NEW v, NEW keep \in SetToSeqs(Kept(v)),
           table' = [i \in DOMAIN keep |-> table[keep[i]]]
    PROVE  /\ table' \in Seq(Entries) /\ Len(table') <= Len(table)
           /\ DOMAIN table' = DOMAIN keep
           /\ \A i \in DOMAIN table' : /\ keep[i] \in Kept(v) /\ keep[i] \in DOMAIN table
                                       /\ table'[i] = table[keep[i]]
           /\ \A i, j \in DOMAIN table' : i # j => keep[i] # keep[j]
<1>1. Kept(v) \subseteq 1..Len(table) /\ Len(table) \in Nat
  BY DEF Kept
<1>2. IsFiniteSet(1..Len(table)) /\ Cardinality(1..Len(table)) = Len(table)
  <2>1. Cardinality(1..Len(table)) = IF 1 > Len(table) THEN 0 ELSE Len(table) - 1 + 1
    BY <1>1, FS_Interval
  <2> QED
    BY <1>1, <2>1, FS_Interval
<1>3. Cardinality(Kept(v)) \in Nat /\ Cardinality(Kept(v)) <= Len(table)
  <2>1. IsFiniteSet(Kept(v)) /\ Cardinality(Kept(v)) <= Len(table)
    BY <1>1, <1>2, FS_Subset
  <2> QED
    BY <2>1, FS_CardinalityType
<1>4. /\ keep \in [1..Cardinality(Kept(v)) -> Kept(v)]
      /\ \A i, j \in 1..Cardinality(Kept(v)) : i # j => keep[i] # keep[j]
  BY DEF SetToSeqs
<1>5. table' \in [1..Cardinality(Kept(v)) -> Entries]
  BY <1>1, <1>4
<1>6. table' \in Seq(Entries) /\ Len(table') = Cardinality(Kept(v))
  BY <1>3, <1>5
<1>7. DOMAIN table' = 1..Cardinality(Kept(v)) /\ DOMAIN keep = 1..Cardinality(Kept(v))
  BY <1>4, <1>5
<1>8. Len(table') <= Len(table)
  BY <1>3, <1>6
<1>9. \A i \in DOMAIN table' : /\ keep[i] \in Kept(v) /\ keep[i] \in DOMAIN table
                              /\ table'[i] = table[keep[i]]
  <2> SUFFICES ASSUME NEW i \in DOMAIN table'
               PROVE  keep[i] \in Kept(v) /\ keep[i] \in DOMAIN table /\ table'[i] = table[keep[i]]
    OBVIOUS
  <2>1. keep[i] \in Kept(v) /\ i \in DOMAIN keep
    BY <1>4, <1>7
  <2>2. keep[i] \in DOMAIN table
    BY <2>1 DEF Kept
  <2> QED
    BY <2>1, <2>2
<1> QED
  BY <1>4, <1>6, <1>7, <1>8, <1>9

\* A close keeps TableInv.
LEMMA CloseStep == ASSUME TableInv, NEW c \in Conns, Close(c) PROVE TableInv'
<1>0. /\ EnrolTypeOK /\ RestType /\ MutexType /\ ServerType /\ RequestsAuth /\ EnrolTypeOK'
      /\ UNCHANGED <<next, material, store, keys, loaded, raced, faults>>
  BY ServerSplit, TypeSplit, TypeStep DEF TableInv, Close, Leave, EnrolNext
<1>1. req[c].pc = "idle" /\ \A d \in Conns : d # c => conn'[d] = conn[d]
  BY <1>0 DEF Close, Leave, Closed, MutexType
<1>2. StoredPersistent'
  BY <1>0 DEF TableInv, StoredPersistent
<1>3. CASE conn[c].st # "auth"
  <2>1. UNCHANGED <<table, req>>
    BY <1>3 DEF Close
  <2>2. ServerType' /\ RequestsAuth'
    BY <1>0, <1>1, <2>1 DEF ServerType, RequestsAuth
  <2>3. HandlesAscend' /\ KeysDistinct' /\ NewEntryNamesItsKey' /\ RequestAlone'
           /\ PersistentStoredUnlessRaced'
    BY <1>0, <2>1 DEF TableInv, HandlesAscend, KeysDistinct, NewEntryNamesItsKey, RequestAlone,
       PersistentStoredUnlessRaced, KeyOf
  <2>4. EphemeralHasConnection'
    BY <1>1, <1>3, <2>1 DEF TableInv, EphemeralHasConnection
  <2> QED
    BY <1>0, <1>2, <2>2, <2>3, <2>4, ServerSplit DEF TableInv
<1>4. CASE conn[c].st = "auth"
  <2> DEFINE v == conn[c].vm
  <2>1. PICK keep \in SetToSeqs(Kept(v)) :
           /\ \A i, j \in DOMAIN keep : i < j => keep[i] < keep[j]
           /\ table' = [i \in DOMAIN keep |-> table[keep[i]]]
    BY <1>4 DEF Close
  <2>2. req' = req \/ (req' = Touched(req, c) /\ table' # table)
    BY <1>4 DEF Close
  <2>3. table' = table => req' = req
    BY <1>4 DEF Close
  <2>4. /\ table' \in Seq(Entries) /\ Len(table') <= Len(table)
        /\ DOMAIN table' = DOMAIN keep
        /\ \A i \in DOMAIN table' : /\ keep[i] \in Kept(v) /\ keep[i] \in DOMAIN table
                                    /\ table'[i] = table[keep[i]]
        /\ \A i, j \in DOMAIN table' : i # j => keep[i] # keep[j]
    <3>1. table \in Seq(Entries)
      BY <1>0 DEF ServerType
    <3> HIDE DEF v
    <3> QED
      BY <2>1, <3>1, KeptSeq
  <2>5. req \in [Conns -> ReqType]
    BY <1>0 DEF ServerType
  <2>6. /\ req' \in [Conns -> ReqType]
        /\ \A d \in Conns : req'[d].pc = req[d].pc /\ req'[d].key = req[d].key
    BY <2>2, <2>5, TouchedType
  <2>7. ServerType'
    <3>1. Len(table') <= MaxHandles
      BY <1>0, <2>4, HandlesAssumption DEF ServerType
    <3> QED
      BY <1>0, <2>4, <2>6, <3>1 DEF ServerType
  <2>8. RequestsAuth'
    BY <1>0, <1>1, <2>6 DEF RequestsAuth
  <2>9. HandlesAscend'
    BY <1>0, <2>1, <2>4 DEF TableInv, HandlesAscend
  <2>10. KeysDistinct' /\ NewEntryNamesItsKey'
    BY <1>0, <2>4 DEF TableInv, KeysDistinct, NewEntryNamesItsKey, KeyOf
  <2>11. RequestAlone'
    <3>1. CASE table' = table
      BY <1>0, <2>3, <3>1 DEF TableInv, RequestAlone
    <3>2. CASE table' # table
      <4>1. req' = Touched(req, c)
        BY <1>4, <3>2 DEF Close
      <4>2. \A d \in Conns : req[d].pc # "idle" => req'[d].touched
        BY <1>1, <2>5, <4>1, TouchedType
      <4> QED
        BY <2>6, <4>2 DEF TableInv, RequestAlone
    <3> QED
      BY <3>1, <3>2
  <2>12. PersistentStoredUnlessRaced'
    BY <1>0, <2>4, <2>6 DEF TableInv, PersistentStoredUnlessRaced
  <2>13. EphemeralHasConnection'
    <3> SUFFICES ASSUME NEW i \in DOMAIN table', ~table'[i].persistent
                 PROVE  \E d \in Conns : conn'[d].vm = table'[i].owner /\ conn'[d].st = "auth"
      BY DEF EphemeralHasConnection
    <3>1. keep[i] \in DOMAIN table /\ table'[i] = table[keep[i]] /\ table[keep[i]].owner # v
      BY <2>4 DEF Kept
    <3>2. PICK d \in Conns : conn[d].vm = table[keep[i]].owner /\ conn[d].st = "auth"
      BY <3>1 DEF TableInv, EphemeralHasConnection
    <3> QED
      BY <1>1, <3>1, <3>2
  <2> QED
    BY <1>0, <1>2, <2>7, <2>8, <2>9, <2>10, <2>11, <2>12, <2>13, ServerSplit DEF TableInv
<1> QED
  BY <1>3, <1>4

\* What a restart leaves, whatever it reads of the store.
LEMMA RestartTypes ==
    ASSUME TableInv, ServerRestart
    PROVE  /\ EnrolTypeOK /\ RestType /\ ServerType /\ EnrolTypeOK' /\ RestType'
           /\ UNCHANGED <<material, store, keys, raced>>
           /\ req' = [c \in Conns |-> Idle]
           /\ RequestsAuth' /\ StoredPersistent' /\ RequestAlone'
<1>1. EnrolNext
  BY DEF ServerRestart, Load, LoadFails, Restarts, EnrolNext
<1>2. /\ EnrolTypeOK /\ RestType /\ ServerType /\ EnrolTypeOK' /\ RestType'
  BY <1>1, ServerSplit, TypeSplit, TypeStep DEF TableInv
<1>3. /\ UNCHANGED <<material, store, keys, raced>>
      /\ req' = [c \in Conns |-> Idle]
  BY DEF ServerRestart
<1>4. RequestsAuth' /\ StoredPersistent' /\ RequestAlone'
  BY <1>3 DEF TableInv, RequestsAuth, StoredPersistent, RequestAlone, Idle, NoKey
<1> QED
  BY <1>2, <1>3, <1>4

\* A restart that cannot read the store keeps TableInv: the table is empty.
LEMMA LoadFailsStep == ASSUME TableInv, ServerRestart, LoadFails PROVE TableInv'
<1>0. /\ EnrolTypeOK' /\ RestType' /\ ServerType
      /\ UNCHANGED <<material, store, keys, raced>>
      /\ req' = [c \in Conns |-> Idle]
      /\ RequestsAuth' /\ StoredPersistent' /\ RequestAlone'
  BY RestartTypes
<1>1. table' = <<>> /\ next' = 0 /\ loaded' = 0 /\ DOMAIN table' = {}
  BY DEF LoadFails
<1>2. ServerType'
  BY <1>0, <1>1, NothingType, HandlesAssumption, BoundsAssumption DEF ServerType, Handles
<1>3. 0 <= MaxHandles + keys' + faults'
  <2>1. keys' \in Nat
    BY <1>2, BoundsAssumption, HandlesAssumption DEF ServerType
  <2>2. faults' \in Nat
    BY <1>0, BoundsAssumption DEF RestType
  <2>3. \A h, k, f \in Nat : 0 <= h + k + f
    OBVIOUS
  <2> QED
    BY <2>1, <2>2, <2>3, HandlesAssumption
<1> QED
  BY <1>0, <1>1, <1>2, <1>3, ServerSplit DEF TableInv, HandlesAscend, KeysDistinct,
     NewEntryNamesItsKey, EphemeralHasConnection, PersistentStoredUnlessRaced

\* A restart keeps TableInv: every entry it makes counts as loaded.
LEMMA RestartStep == ASSUME TableInv, ServerRestart, Load PROVE TableInv'
<1>0. /\ EnrolTypeOK /\ RestType /\ ServerType /\ EnrolTypeOK'
      /\ UNCHANGED <<material, store, keys, raced, faults>>
      /\ req' = [c \in Conns |-> Idle]
      /\ RequestsAuth' /\ StoredPersistent' /\ RequestAlone'
  BY RestartTypes DEF Load
<1> DEFINE S == {h \in Handles : store[h] # NoEntry}
<1>1. PICK order \in SetToSeqs(S) :
         LET n == IF Len(order) < MaxHandles THEN Len(order) ELSE MaxHandles IN
         /\ table' = [i \in 1..n |-> [store[order[i]] EXCEPT !.handle = i - 1]]
         /\ next' = n /\ loaded' = n
  BY DEF Load
<1> DEFINE n == IF Len(order) < MaxHandles THEN Len(order) ELSE MaxHandles
<1>2. Cardinality(S) \in Nat
  <2>1. IsFiniteSet(Handles)
    BY HandlesAssumption, BoundsAssumption, FS_Interval DEF Handles
  <2> QED
    BY <2>1, FS_Subset, FS_CardinalityType
<1>3. order \in [1..Cardinality(S) -> S] /\ Len(order) = Cardinality(S)
  BY <1>1, <1>2 DEF SetToSeqs
<1>4. n \in 0..MaxHandles /\ n <= Cardinality(S) /\ n \in Nat
  BY <1>2, <1>3, HandlesAssumption
<1>5. table' = [i \in 1..n |-> [store[order[i]] EXCEPT !.handle = i - 1]]
      /\ next' = n /\ loaded' = n
  BY <1>1
<1> HIDE DEF n
<1>6. ASSUME NEW i \in 1..n
      PROVE  /\ table'[i] \in Entries /\ table'[i].persistent /\ table'[i].handle = i - 1
  <2>1. order[i] \in S /\ order[i] \in Handles
    BY <1>2, <1>3, <1>4
  <2>2. store[order[i]] \in Entries /\ store[order[i]].persistent
    BY <1>0, <2>1 DEF ServerType, TableInv, StoredPersistent
  <2>3. i - 1 \in Handles
    BY <1>4, HandlesAssumption, BoundsAssumption DEF Handles
  <2>4. table'[i] = [store[order[i]] EXCEPT !.handle = i - 1]
    BY <1>5
  <2> QED
    BY <2>2, <2>3, <2>4 DEF Entries
<1>7. table' \in Seq(Entries) /\ Len(table') = n /\ DOMAIN table' = 1..n
  <2>1. table' \in [1..n -> Entries]
    BY <1>5, <1>6
  <2> QED
    BY <1>4, <2>1
<1>8. ServerType'
  <2>1. n \in Handles
    BY <1>4, HandlesAssumption, BoundsAssumption DEF Handles
  <2>2. Len(table') <= MaxHandles
    BY <1>4, <1>7, HandlesAssumption
  <2> QED
    BY <1>0, <1>4, <1>5, <1>7, <2>1, <2>2, NothingType DEF ServerType
<1>10. \A i \in DOMAIN table' : i \in Int /\ table'[i].handle = i - 1 /\ table'[i].handle < n
                                /\ ~(table'[i].handle >= loaded')
  <2> SUFFICES ASSUME NEW i \in DOMAIN table'
               PROVE  /\ i \in Int /\ table'[i].handle = i - 1 /\ table'[i].handle < n
                      /\ ~(table'[i].handle >= loaded')
    OBVIOUS
  <2>1. i \in 1..n /\ table'[i].handle = i - 1
    BY <1>6, <1>7
  <2> QED
    BY <1>4, <1>5, <2>1
<1>11. HandlesAscend'
  <2>1. faults' \in Nat /\ keys' \in Nat
    BY <1>0, BoundsAssumption, HandlesAssumption DEF RestType, ServerType
  <2>2. loaded' <= next' /\ next' <= MaxHandles + keys' + faults'
    BY <1>4, <1>5, <2>1, HandlesAssumption
  <2> QED
    <3>1. \A i, j \in DOMAIN table' : i < j => table'[i].handle < table'[j].handle
      <4> SUFFICES ASSUME NEW i \in DOMAIN table', NEW j \in DOMAIN table', i < j
                   PROVE  table'[i].handle < table'[j].handle
        OBVIOUS
      <4>1. i \in Int /\ j \in Int /\ table'[i].handle = i - 1 /\ table'[j].handle = j - 1
        BY <1>10
      <4> QED
        BY <4>1
    <3> QED
      BY <1>5, <1>10, <2>2, <3>1 DEF HandlesAscend
<1>12. KeysDistinct' /\ NewEntryNamesItsKey' /\ PersistentStoredUnlessRaced'
  BY <1>10 DEF KeysDistinct, NewEntryNamesItsKey, PersistentStoredUnlessRaced
<1>13. EphemeralHasConnection'
  BY <1>6, <1>7 DEF EphemeralHasConnection
<1> QED
  BY <1>0, <1>8, <1>11, <1>12, <1>13, ServerSplit DEF TableInv

\* TableInv holds at first.
LEMMA ServerInit == Init => TableInv
<1> SUFFICES ASSUME Init PROVE TableInv
  OBVIOUS
<1>1. EnrolTypeOK /\ RestType
  BY InitType, TypeSplit DEF Init
<1>2. table = <<>> /\ next = 0 /\ keys = 0 /\ loaded = 0 /\ raced = {}
         /\ req = [c \in Conns |-> Idle] /\ store = [h \in Handles |-> NoEntry]
         /\ material = [h \in Handles |-> NoKey]
  BY DEF Init
<1>3. ServerType
  BY <1>2, NothingType, HandlesAssumption, BoundsAssumption DEF ServerType, Handles, NoKey
<1>4. RequestsAuth /\ StoredPersistent /\ RequestAlone
  BY <1>2 DEF RequestsAuth, StoredPersistent, RequestAlone, Idle
<1>5. DOMAIN table = {}
  BY <1>2
<1>6. 0 <= MaxHandles + 0 + faults
  BY <1>1, HandlesAssumption, BoundsAssumption DEF RestType
<1> QED
  BY <1>1, <1>2, <1>3, <1>4, <1>5, <1>6, ServerSplit DEF TableInv, HandlesAscend, KeysDistinct,
     NewEntryNamesItsKey, EphemeralHasConnection, PersistentStoredUnlessRaced

\* Every step keeps TableInv.
LEMMA ServerStep == TableInv /\ [Next]_vars => TableInv'
<1> SUFFICES ASSUME TableInv, [Next]_vars PROVE TableInv'
  OBVIOUS
<1>1. CASE EnrolStep /\ UNCHANGED tableVars
  BY <1>1, TableKept
<1>2. ASSUME NEW c \in Conns, \/ Dispatch(c) \/ NotAllocated(c) \/ Persist(c) \/ Close(c)
                              \/ \E p \in BOOLEAN : KeyGenerate(c, p)
      PROVE  TableInv'
  BY <1>2, DispatchStep, NotAllocatedStep, PersistStep, CloseStep, AllocStep
<1>3. CASE ServerRestart
  BY <1>3, RestartStep, LoadFailsStep DEF ServerRestart
<1>4. CASE UNCHANGED vars
  BY <1>4 DEF vars, enrolVars, tableVars, TableInv, TypeOK, EnrolTypeOK, Saving,
     StoredPersistent, HandlesAscend, KeysDistinct, RequestAlone, NewEntryNamesItsKey,
     EphemeralHasConnection, PersistentStoredUnlessRaced, KeyOf
<1> QED
  BY <1>1, <1>2, <1>3, <1>4 DEF Next

\* What a step of the daemon is to the enrolments.
LEMMA EnrolPart ==
    [Next]_vars =>
        EnrolNext \/ (EnrolKept /\ UNCHANGED faults) \/ (EnrolKept /\ faults' = faults + 1)
<1> SUFFICES ASSUME [Next]_vars
             PROVE  EnrolNext \/ (EnrolKept /\ UNCHANGED faults)
                       \/ (EnrolKept /\ faults' = faults + 1)
  OBVIOUS
<1>1. ASSUME NEW c \in Conns, NEW p \in BOOLEAN, KeyGenerate(c, p) \/ Persist(c)
      PROVE  EnrolKept /\ (UNCHANGED faults \/ faults' = faults + 1)
  BY <1>1 DEF KeyGenerate, Persist, EnrolKept, Faulty
<1>2. ASSUME NEW c \in Conns, Dispatch(c) \/ NotAllocated(c) PROVE EnrolKept /\ UNCHANGED faults
  BY <1>2 DEF Dispatch, NotAllocated, EnrolKept, enrolVars, history
<1>3. CASE UNCHANGED vars
  BY <1>3 DEF vars, EnrolKept, enrolVars, history
<1> QED
  BY <1>1, <1>2, <1>3 DEF Next, Close, ServerRestart, Load, LoadFails, Restarts, EnrolNext

\* A step that leaves the enrolments alone is quiet.
LEMMA KeptQuiet == ASSUME EnrolKept PROVE Quiet
BY DEF EnrolKept, history, Quiet, Saving

----------------------------------------------------------------------------

\* The inductive invariant of the handle table holds throughout.
LEMMA TableHolds == Spec => []TableInv
BY ServerInit, ServerStep, PTL DEF Spec

\* Every variable keeps its type: the table never grows past MAX_HANDLES, only
\* an authenticated connection has a request in progress, and the bootstrap
\* mutex has at most one holder.
THEOREM TypeCorrect == Spec => []TypeOK
<1>1. TableInv => TypeOK
  BY DEF TableInv
<1> QED
  BY <1>1, TableHolds, PTL

\* No handle is given to two of the entries made in one life of the daemon: an
\* operation on one of them uses the key generated for it.
THEOREM NewEntryKeepsItsKey == Spec => []NewEntryNamesItsKey
<1>1. TableInv => NewEntryNamesItsKey
  BY DEF TableInv
<1> QED
  BY <1>1, TableHolds, PTL

\* remove_by_vm_id at a close leaves no ephemeral entry of a guest that has no
\* connection, whatever requests were in progress.
THEOREM EphemeralReleased == Spec => []EphemeralHasConnection
<1>1. TableInv => EphemeralHasConnection
  BY DEF TableInv
<1> QED
  BY <1>1, TableHolds, PTL

\* The check of dispatch_request that the table grew stores every persistent key
\* whose request nothing came into.
THEOREM PersistentStored == Spec => []PersistentStoredUnlessRaced
<1>1. TableInv => PersistentStoredUnlessRaced
  BY DEF TableInv
<1> QED
  BY <1>1, TableHolds, PTL

\* A step that the enrolments do not see keeps what is proved of them.
LEMMA SpentServerStep == TableInv /\ SpentInv /\ [Next]_vars => SpentInv'
<1>1. TableInv /\ [Next]_vars => EnrolTypeOK'
  BY ServerStep, ServerSplit DEF TableInv
<1> QED
  BY <1>1, EnrolPart, KeptQuiet, SpentStep, SpentQuiet

\* The same of what is proved of the arms.
LEMMA ArmServerStep == TableInv /\ ArmInv /\ [Next]_vars => ArmInv'
<1>1. TableInv /\ [Next]_vars => EnrolTypeOK'
  BY ServerStep, ServerSplit DEF TableInv
<1> QED
  BY <1>1, EnrolPart, KeptQuiet, ArmStep, ArmQuiet

\* save comes before the answer: the certificate a guest was sent is recorded in
\* bootstrap.yaml, unless the two writers raced.
THEOREM CertificateRecorded == Spec => []SpentOnDisk
<1>1. Init => SpentInv
  BY EnrolInitInv DEF Init
<1>2. SpentInv => SpentOnDisk
  BY DEF SpentInv
<1> QED
  BY <1>1, <1>2, TableHolds, SpentServerStep, PTL DEF Spec

\* consume and consume_pending: a token and an arm are good for one certificate
\* each, through crashes, failed saves and reloads.
THEOREM ArmsUsedOnce == Spec => []ArmUsedOnce
<1>1. Init => ArmInv
  BY EnrolInitInv DEF Init
<1> QED
  BY <1>1, ArmInvUsed, TableHolds, ArmServerStep, PTL DEF Spec
=============================================================================
