----------------------------- MODULE VhsmServer -----------------------------
(***************************************************************************)
(* The vHSM daemon: the handshakes of VhsmEnroll, and the keys that        *)
(* authenticated guests generate and name by handle.                       *)
(*                                                                         *)
(* dispatch_request (vhsm-server/src/serve.rs) takes the lock of the       *)
(* handle table three times: to read its length, to serve the request, and *)
(* to persist the last entry if the table grew.  The requests of other     *)
(* connections come in between.  The table holds dynamic handles only; the *)
(* well-known ones are registered once and never change.  A key is a       *)
(* number, given in the order of generation.                               *)
(***************************************************************************)
EXTENDS VhsmEnroll, SequencesExt

CONSTANTS MaxHandles, \* MAX_HANDLES, less the well-known ones
          MaxKeys     \* bound: keys generated

ASSUME HandlesAssumption == MaxHandles \in Nat /\ MaxKeys \in Nat

VARIABLES table,    \* the HandleTable's entries
          next,     \* next_dynamic, counted from HANDLE_DYNAMIC_BASE
          material, \* the keystore's files, named for the handle
          store,    \* the secstore: an entry by handle
          req,      \* the request each connection has in progress
          \* History: keys generated, entries loaded at the last start, and the
          \* persistent keys whose request another one came into.
          keys, loaded, raced

tableVars == <<table, next, material, store, req, keys, loaded, raced>>
vars == <<enrolVars, tableVars>>

NoKey == 0
Handles == 0..(MaxHandles + MaxKeys + MaxFaults)
Entries == [handle : Handles, owner : Vms, persistent : BOOLEAN, key : 0..MaxKeys]
NoEntry == [handle |-> 0, owner |-> CHOOSE v \in Vms : TRUE, persistent |-> FALSE,
            key |-> NoKey]
Idle == [pc |-> "idle", before |-> 0, touched |-> FALSE, key |-> NoKey]

\* The table changed under the other requests in progress.
Touched(r, c) == [d \in Conns |-> [r[d] EXCEPT !.touched = @ \/ (d # c /\ r[d].pc # "idle")]]

\* The key an operation on handle h uses.
KeyOf(h) == material[h]

----------------------------------------------------------------------------
(* dispatch_request.                                                       *)

\* The length of the table.
Dispatch(c) ==
    /\ "generate" \in traffic
    /\ conn[c].st = "auth" /\ req[c].pc = "idle"
    /\ req' = [req EXCEPT ![c] = [Idle EXCEPT !.pc = "handle", !.before = Len(table)]]
    /\ UNCHANGED <<enrolVars, table, next, material, store, keys, loaded, raced>>

\* Mutant of Room: off by one.
RoomForOneMore == Len(table) <= MaxHandles

\* allocate's limit.
Room == Len(table) < MaxHandles

\* Mutant of NextHandle: handles are numbered by the table's length.
NextHandleByLength == Len(table)

\* allocate's handle.
NextHandle == next

\* KEY_GENERATE, persistent or not: the entry comes first, then the key; an
\* entry whose key was not generated stays.
KeyGenerate(c, p) ==
    LET h == NextHandle IN
    /\ req[c].pc = "handle" /\ Room /\ keys < MaxKeys
    /\ next' = next + 1
    /\ \/ /\ keys' = keys + 1
          /\ table' = Append(table, [handle |-> h, owner |-> conn[c].vm,
                                     persistent |-> p, key |-> keys'])
          /\ material' = [material EXCEPT ![h] = keys']
          /\ req' = Touched([req EXCEPT ![c].pc = "persist",
                                     ![c].key = IF p THEN keys' ELSE NoKey], c)
          /\ UNCHANGED faults
       \/ /\ Faulty("key_fault")
          /\ table' = Append(table, [handle |-> h, owner |-> conn[c].vm,
                                     persistent |-> p, key |-> NoKey])
          /\ req' = Touched([req EXCEPT ![c].pc = "persist"], c)
          /\ UNCHANGED <<keys, material>>
    /\ UNCHANGED <<traffic, file, tmp, mem, conn, backend, guest, restarts, history, store,
                   loaded, raced>>

\* A request that adds no entry: the policy denies it, the table is full, or it
\* uses a handle.
NotAllocated(c) ==
    /\ req[c].pc = "handle"
    /\ req' = [req EXCEPT ![c].pc = "persist"]
    /\ UNCHANGED <<enrolVars, table, next, material, store, keys, loaded, raced>>

\* Mutant of Grew: off by one.
GrewByTwo(c) == Len(table) > req[c].before + 1

Grew(c) == Len(table) > req[c].before

\* The last entry is persisted if the table grew.  A failure is logged.
Persist(c) ==
    LET entry == Last(table)
        stores == Grew(c) /\ entry.persistent
    IN /\ req[c].pc = "persist"
       /\ \/ /\ store' = IF stores THEN [store EXCEPT ![entry.handle] = entry] ELSE store
             /\ raced' = IF req[c].touched THEN raced \cup ({req[c].key} \ {NoKey}) ELSE raced
             /\ UNCHANGED faults
          \/ /\ stores /\ Faulty("disk_fault")
             /\ raced' = raced \cup ({req[c].key} \ {NoKey})
             /\ UNCHANGED store
       /\ req' = [req EXCEPT ![c] = Idle]
       /\ UNCHANGED <<traffic, file, tmp, mem, conn, backend, guest, restarts, history, table,
                      next, material, keys, loaded>>

\* Mutant of Kept: a close releases nothing.
KeptAll(v) == DOMAIN table

\* The entries remove_by_vm_id retains: every ephemeral one of the guest goes,
\* those of its other connections too.
Kept(v) == {i \in DOMAIN table : table[i].owner # v \/ table[i].persistent}

\* The end of a connection.
Close(c) ==
    /\ req[c].pc = "idle" /\ Leave(c)
    /\ IF conn[c].st = "auth"
       THEN /\ \E keep \in SetToSeqs(Kept(conn[c].vm)) :
                  /\ \A i, j \in DOMAIN keep : i < j => keep[i] < keep[j]
                  /\ table' = [i \in DOMAIN keep |-> table[keep[i]]]
            /\ req' = IF table' = table THEN req ELSE Touched(req, c)
       ELSE UNCHANGED <<table, req>>
    /\ UNCHANGED <<next, material, store, keys, loaded, raced>>

\* The entries in the store are allocated anew, in the order the directory lists
\* them.
Load ==
    /\ \E order \in SetToSeqs({h \in Handles : store[h] # NoEntry}) :
          LET n == IF Len(order) < MaxHandles THEN Len(order) ELSE MaxHandles IN
          /\ table' = [i \in 1..n |-> [store[order[i]] EXCEPT !.handle = i - 1]]
          /\ next' = n /\ loaded' = n
    /\ UNCHANGED faults

\* One that cannot be read leaves the table empty, with a warning.
LoadFails ==
    /\ Faulty("disk_fault")
    /\ table' = <<>> /\ next' = 0 /\ loaded' = 0

\* The daemon starts again.
ServerRestart ==
    /\ Restart
    /\ Load \/ LoadFails
    /\ req' = [c \in Conns |-> Idle]
    /\ UNCHANGED <<material, store, keys, raced>>

----------------------------------------------------------------------------

Init ==
    /\ EnrolInit
    /\ table = <<>> /\ next = 0
    /\ material = [h \in Handles |-> NoKey]
    /\ store = [h \in Handles |-> NoEntry]
    /\ req = [c \in Conns |-> Idle]
    /\ keys = 0 /\ loaded = 0 /\ raced = {}

Next ==
    \/ EnrolStep /\ UNCHANGED tableVars
    \/ \E c \in Conns :
          \/ Dispatch(c) \/ NotAllocated(c) \/ Persist(c) \/ Close(c)
          \/ \E p \in BOOLEAN : KeyGenerate(c, p)
    \/ ServerRestart

Spec == Init /\ [][Next]_vars

\* A guest's session ends some time, at the latest when the guest is reset.
FairSpec == Spec /\ EnrolFairness /\ WF_vars(\E c \in Conns : Close(c))

----------------------------------------------------------------------------

\* Every variable keeps its type; the table stays within MAX_HANDLES and only
\* an authenticated connection has a request in progress.
TypeOK ==
    /\ EnrolTypeOK
    /\ table \in Seq(Entries) /\ Len(table) <= MaxHandles
    /\ next \in Handles /\ loaded \in 0..MaxHandles
    /\ material \in [Handles -> 0..MaxKeys] /\ keys \in 0..MaxKeys
    /\ store \in [Handles -> Entries]
    /\ req \in [Conns -> [pc : {"idle", "handle", "persist"}, before : 0..MaxHandles,
                          touched : BOOLEAN, key : 0..MaxKeys]]
    /\ \A c \in Conns : req[c].pc = "idle" \/ conn[c].st = "auth"
    /\ raced \subseteq 1..MaxKeys

\* "Metadata maps opaque vhsm handles to their backing key identity": an entry
\* whose key was generated is used with that key.  What a handle is used with is
\* the file named for the handle, not the entry's identity.
EntryNamesItsKey ==
    \A i \in DOMAIN table : table[i].key \in {NoKey, KeyOf(table[i].handle)}

\* The same of the entries made since the daemon started: through closes that
\* shorten the table and keys generated under handles of an earlier life, a
\* handle is never given to two of them.
NewEntryNamesItsKey ==
    \A i \in DOMAIN table : table[i].handle >= loaded =>
        table[i].key \in {NoKey, KeyOf(table[i].handle)}

\* An ephemeral entry does not outlive the connections of its guest, however the
\* closes fall between the sections of the requests.
EphemeralHasConnection ==
    \A i \in DOMAIN table :
        table[i].persistent \/ \E c \in Conns : conn[c].vm = table[i].owner /\ conn[c].st = "auth"

\* A persistent key whose request was served alone is in the store when the
\* answer is out: a restart does not lose it.
PersistentStoredUnlessRaced ==
    \A i \in DOMAIN table :
        LET e == table[i] IN
        /\ e.persistent /\ e.handle >= loaded
        /\ e.key \notin raced \cup {NoKey}
        /\ \A c \in Conns : req[c].key # e.key
        => store[e.handle] = e
=============================================================================
