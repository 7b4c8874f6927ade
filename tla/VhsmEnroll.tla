----------------------------- MODULE VhsmEnroll -----------------------------
(***************************************************************************)
(* How a guest gets its certificate from the vHSM daemon (vhsm-ssd).       *)
(*                                                                         *)
(* bootstrap.yaml says who may enrol.  Two processes write it, each by     *)
(* replacing the whole file: the daemon, which keeps a copy in memory      *)
(* (vhsm-server/src/bootstrap.rs) and saves it after each enrolment, and   *)
(* the HSM backend, which arms a guest when its update is committed        *)
(* (hsm-sim-backend/src/sim.rs).  Both use the same temporary file.        *)
(*                                                                         *)
(* Every handshake request is served under the daemon's bootstrap mutex,   *)
(* so two enrolments never interleave; the backend's steps do interleave   *)
(* with both.  A key pair and its certificate are a number, counted for    *)
(* each guest.  Arms do not expire (commit_flash arms without a TTL).      *)
(***************************************************************************)
EXTENDS Integers

CONSTANTS Vms,
          Conns,       \* connections
          Traffics,    \* each a set of what comes together in one behaviour
          MaxArms,     \* bound: arms of one guest
          MaxCerts,    \* bound: certificates of one guest
          MaxFaults,   \* bound: failures of the disk or the key generator
          MaxRestarts  \* bound: restarts of the daemon

EnrolTraffic == {"auth", "token", "tokens", "arm", "lost", "client_crash", "disk_fault", "restart"}

ASSUME VmsAssumption == Vms # {}
ASSUME BoundsAssumption ==
    {MaxArms, MaxFaults, MaxRestarts} \subseteq Nat /\ MaxCerts \in Nat \ {0}

VARIABLES traffic,  \* a member of Traffics, constant
          file,     \* bootstrap.yaml
          tmp,      \* bootstrap.yaml.tmp: the set of its contents, empty if there is none
          mem,      \* the daemon's copy
          conn,     \* the connections
          backend,  \* arm_enrollment in progress
          guest,    \* what each guest keeps on its disk
          faults, restarts,  \* how many there were
          \* History: certificates issued and arms begun, by guest; whether the
          \* backend wrote the file since the daemon read or wrote it; guests whose
          \* enrolment is in memory only; what went wrong.
          issued, armed, behind, unsaved, spoiled

enrolVars == <<traffic, file, tmp, mem, conn, backend, guest, faults, restarts,
               issued, armed, behind, unsaved, spoiled>>
history == <<issued, armed, behind, unsaved, spoiled>>

\* A token entry: absent, fresh, or consumed and bound to a certificate.
Absent == -1
Fresh == 0
NoCert == 0

Docs == [token : [Vms -> Absent..MaxCerts], pending : SUBSET Vms,
         enrolled : [Vms -> 0..MaxCerts]]

\* lost_update: a file replaced that its writer had not read.  tmp: a writer
\* published, or lost, the other's temporary file.  unsaved: an enrolment that
\* was refused reached the disk.  cut: a certificate did not reach its guest.
Spoils == {"lost_update", "tmp", "unsaved", "cut"}

SomeVm == CHOOSE v \in Vms : TRUE
NoConn == [st |-> "closed", vm |-> SomeVm, kind |-> "none", cert |-> NoCert]
NoDoc == [token |-> [v \in Vms |-> Absent], pending |-> {}, enrolled |-> [v \in Vms |-> NoCert]]
NoArm == [pc |-> "idle", doc |-> NoDoc, moved |-> FALSE]

Faulty(kind) == kind \in traffic /\ faults < MaxFaults /\ faults' = faults + 1

----------------------------------------------------------------------------
(* The daemon.                                                             *)

\* bootstrap.lock(): a save is part of the request it belongs to.
Saving(c) == conn[c].st \in {"write", "rename"}
LockFree == \A c \in Conns : ~Saving(c)

\* accept, HELLO and its nonce; the guest is known by its address.
Connect(c, v) ==
    /\ conn[c].st = "closed" /\ LockFree
    /\ conn' = [conn EXCEPT ![c].st = "nonce", ![c].vm = v]
    /\ UNCHANGED <<traffic, file, tmp, mem, backend, guest, faults, restarts, history>>

\* reject, or a connection that ends.
Closed(c) == conn' = [conn EXCEPT ![c] = NoConn]

\* AUTH, with a proof made with the key the guest has: the certificate must be
\* of that key.
Auth(c) ==
    LET g == guest[conn[c].vm] IN
    /\ "auth" \in traffic /\ conn[c].st = "nonce" /\ LockFree
    /\ NoCert \notin {g.cert, g.key}
    /\ \/ g.cert = g.key /\ conn' = [conn EXCEPT ![c].st = "auth"]
       \/ g.cert # g.key /\ Closed(c)
    /\ UNCHANGED <<traffic, file, tmp, mem, backend, guest, faults, restarts, history>>

\* The certificate minted for an enrolment of v.
Minted(v) == issued[v] + 1

\* The request goes on to the save.
Accepted(c, kind, doc) ==
    /\ Minted(conn[c].vm) <= MaxCerts
    /\ mem' = doc
    /\ conn' = [conn EXCEPT ![c] = [@ EXCEPT !.st = "write", !.kind = kind,
                                       !.cert = Minted(conn[c].vm)]]

\* consume.
TokenConsumed(doc, v) == [doc EXCEPT !.token[v] = Minted(v)]

\* ENROLL, with the token on the guest's disk.  The file is not read again.
Enroll(c) ==
    LET v == conn[c].vm IN
    /\ conn[c].st = "nonce" /\ LockFree /\ guest[v].token
    /\ \/ mem.token[v] = Fresh /\ Accepted(c, "token", TokenConsumed(mem, v))
       \/ mem.token[v] # Fresh /\ Closed(c) /\ UNCHANGED mem
    /\ UNCHANGED <<traffic, file, tmp, backend, guest, faults, restarts, history>>

\* Mutant of PendingConsumed: the arm stays.
PendingConsumedKept(doc, v) == [doc EXCEPT !.enrolled[v] = Minted(v)]

\* consume_pending.
PendingConsumed(doc, v) ==
    [doc EXCEPT !.pending = @ \ {v}, !.enrolled[v] = Minted(v)]

\* Mutant of Reloaded: a miss is answered from memory.
ReloadedNever(v) == mem

\* reload, on a miss.
Reloaded(v) == IF v \in mem.pending THEN mem ELSE file

\* ENROLL_ASSISTED.
EnrollAssisted(c) ==
    LET v == conn[c].vm
        doc == Reloaded(v)
    IN /\ conn[c].st = "nonce" /\ LockFree
       /\ \/ /\ v \in doc.pending
             /\ Accepted(c, "assisted", PendingConsumed(doc, v))
          \/ /\ v \notin doc.pending
             /\ Closed(c) /\ mem' = doc
       /\ behind' = (behind /\ v \in mem.pending)
       /\ unsaved' = IF v \in mem.pending THEN unsaved ELSE {}
       /\ UNCHANGED <<traffic, file, tmp, backend, guest, faults, restarts, issued, armed,
                      spoiled>>

\* A reload that cannot read the file.
ReloadFails(c) ==
    /\ conn[c].st = "nonce" /\ LockFree /\ conn[c].vm \notin mem.pending
    /\ Faulty("disk_fault") /\ Closed(c)
    /\ UNCHANGED <<traffic, file, tmp, mem, backend, guest, restarts, history>>

\* save: the temporary file...
SaveWrite(c) ==
    /\ conn[c].st = "write"
    /\ tmp' = {mem}
    /\ conn' = [conn EXCEPT ![c].st = "rename"]
    /\ UNCHANGED <<traffic, file, mem, backend, guest, faults, restarts, history>>

\* ... takes the place of the file; then the certificate is sent and the
\* connection ends.
SaveRename(c) ==
    LET v == conn[c].vm IN
    /\ conn[c].st = "rename"
    /\ \E doc \in tmp : file' = doc
    /\ tmp' = {}
    /\ behind' = FALSE
    /\ backend' = [backend EXCEPT !.moved = backend.pc # "idle"]
    /\ issued' = [issued EXCEPT ![v] = conn[c].cert]
    /\ unsaved' = unsaved \ {v}
    /\ \E lost \in {FALSE} \cup {"lost" \in traffic} :
          /\ conn' = [conn EXCEPT ![c] = IF lost THEN NoConn ELSE [@ EXCEPT !.st = "got"]]
          /\ spoiled' = spoiled \cup (IF behind THEN {"lost_update"} ELSE {})
                                \cup (IF tmp # {mem} THEN {"tmp"} ELSE {})
                                \cup (IF unsaved \subseteq {v} THEN {} ELSE {"unsaved"})
                                \cup (IF lost THEN {"cut"} ELSE {})
    /\ UNCHANGED <<traffic, mem, guest, faults, restarts, armed>>

\* Mutant of Refused: the certificate is sent though the save failed.
RefusedSent(c) ==
    /\ conn' = [conn EXCEPT ![c].st = "got"]
    /\ issued' = [issued EXCEPT ![conn[c].vm] = conn[c].cert]

\* A save failed: no certificate is sent.  Memory keeps the enrolment.
Refused(c) == Closed(c) /\ UNCHANGED issued

SaveFails(c) ==
    /\ \/ Saving(c) /\ Faulty("disk_fault") /\ UNCHANGED spoiled
       \/ /\ conn[c].st = "rename" /\ tmp = {}
          /\ spoiled' = spoiled \cup {"tmp"}
          /\ UNCHANGED faults
    /\ Refused(c)
    /\ unsaved' = unsaved \cup {conn[c].vm}
    /\ UNCHANGED <<traffic, file, tmp, mem, backend, guest, restarts, armed, behind>>

\* A client that has no request in progress goes away.
Leave(c) ==
    /\ conn[c].st \in {"auth"} \cup (IF "lost" \in traffic THEN {"nonce"} ELSE {})
    /\ Closed(c)
    /\ UNCHANGED <<traffic, file, tmp, mem, backend, guest, faults, restarts, history>>

\* The client has its answer, the daemon is done with the connection.
Answered == {"got", "keyed", "certed"}

\* The daemon dies or is respawned, and loads the file (without it, it does not
\* come up).
Restart ==
    /\ "restart" \in traffic /\ restarts < MaxRestarts
    /\ restarts' = restarts + 1
    /\ conn' = [c \in Conns |-> IF conn[c].st \in Answered THEN conn[c] ELSE NoConn]
    /\ mem' = file /\ behind' = FALSE /\ unsaved' = {}
    /\ UNCHANGED <<traffic, file, tmp, backend, guest, issued, armed, spoiled>>

----------------------------------------------------------------------------
(* The guest's client library.                                             *)

\* The answer of an enrolment: the key, the certificate and, after ENROLL, the
\* end of the token.
ClientSavesKey(c) ==
    /\ conn[c].st = "got"
    /\ guest' = [guest EXCEPT ![conn[c].vm].key = conn[c].cert]
    /\ conn' = [conn EXCEPT ![c].st = "keyed"]
    /\ UNCHANGED <<traffic, file, tmp, mem, backend, faults, restarts, history>>

ClientSavesCert(c) ==
    /\ conn[c].st = "keyed"
    /\ guest' = [guest EXCEPT ![conn[c].vm].cert = conn[c].cert]
    /\ IF conn[c].kind = "token" THEN conn' = [conn EXCEPT ![c].st = "certed"] ELSE Closed(c)
    /\ UNCHANGED <<traffic, file, tmp, mem, backend, faults, restarts, history>>

ClientDeletesToken(c) ==
    /\ conn[c].st = "certed"
    /\ guest' = [guest EXCEPT ![conn[c].vm].token = FALSE]
    /\ Closed(c)
    /\ UNCHANGED <<traffic, file, tmp, mem, backend, faults, restarts, history>>

\* The client dies between two of them.
ClientDies(c) ==
    /\ "client_crash" \in traffic
    /\ conn[c].st \in Answered /\ Closed(c)
    /\ spoiled' = spoiled \cup {"cut"}
    /\ UNCHANGED <<traffic, file, tmp, mem, backend, guest, faults, restarts, issued, armed,
                   behind, unsaved>>

----------------------------------------------------------------------------
(* The backend: arm_enrollment, when commit_flash of a guest calls it.  The *)
(* provider's mutex serialises these.                                       *)

ArmRead(v) ==
    /\ "arm" \in traffic /\ armed[v] < MaxArms
    /\ backend.pc = "idle"
    /\ backend' = [pc |-> "write", doc |-> [file EXCEPT !.pending = @ \cup {v}],
                   moved |-> FALSE]
    /\ armed' = [armed EXCEPT ![v] = @ + 1]
    /\ UNCHANGED <<traffic, file, tmp, mem, conn, guest, faults, restarts, issued, behind,
                   unsaved, spoiled>>

ArmWrite ==
    /\ backend.pc = "write"
    /\ tmp' = {backend.doc}
    /\ backend' = [backend EXCEPT !.pc = "rename"]
    /\ UNCHANGED <<traffic, file, mem, conn, guest, faults, restarts, history>>

ArmRename ==
    /\ backend.pc = "rename"
    /\ \E doc \in tmp : file' = doc
    /\ tmp' = {}
    /\ backend' = NoArm /\ behind' = TRUE
    /\ spoiled' = spoiled \cup (IF backend.moved THEN {"lost_update"} ELSE {})
                          \cup (IF tmp # {backend.doc} THEN {"tmp"} ELSE {})
    /\ UNCHANGED <<traffic, mem, conn, guest, faults, restarts, issued, armed, unsaved>>

\* The failure is logged and the commit goes on.
ArmFails ==
    /\ \/ backend.pc \in {"write", "rename"} /\ Faulty("disk_fault") /\ UNCHANGED spoiled
       \/ /\ backend.pc = "rename" /\ tmp = {}
          /\ spoiled' = spoiled \cup {"tmp"}
          /\ UNCHANGED faults
    /\ backend' = NoArm
    /\ UNCHANGED <<traffic, file, tmp, mem, conn, guest, restarts, issued, armed, behind, unsaved>>

----------------------------------------------------------------------------

\* The guests that were given a token: none, one or all.
Holders == {v \in Vms : "tokens" \in traffic \/ ("token" \in traffic /\ v = SomeVm)}

\* The certificate of each guest: they enrolled before, where keys are asked for.
OldCert == IF "generate" \in traffic THEN 1 ELSE NoCert

EnrolInit ==
    /\ traffic \in Traffics
    /\ file = [token |-> [v \in Vms |-> IF v \in Holders THEN Fresh ELSE Absent],
               pending |-> {}, enrolled |-> [v \in Vms |-> OldCert]]
    /\ guest = [v \in Vms |-> [key |-> OldCert, cert |-> OldCert, token |-> v \in Holders]]
    /\ issued = [v \in Vms |-> OldCert]
    /\ tmp = {} /\ mem = file /\ behind = FALSE
    /\ conn = [c \in Conns |-> NoConn]
    /\ backend = NoArm
    /\ armed = [v \in Vms |-> 0]
    /\ unsaved = {} /\ spoiled = {}
    /\ faults = 0 /\ restarts = 0

\* All but what also concerns the handles: a client that leaves, a restart.
EnrolStep ==
    \/ \E c \in Conns :
          \/ \E v \in Vms : Connect(c, v)
          \/ Auth(c) \/ Enroll(c) \/ EnrollAssisted(c) \/ ReloadFails(c)
          \/ SaveWrite(c) \/ SaveRename(c) \/ SaveFails(c)
          \/ ClientSavesKey(c) \/ ClientSavesCert(c) \/ ClientDeletesToken(c) \/ ClientDies(c)
    \/ \E v \in Vms : ArmRead(v)
    \/ ArmWrite \/ ArmRename \/ ArmFails

\* A guest that was armed connects and asks, again when it was refused; the
\* daemon serves what it accepted and the client keeps what it got.
EnrolFairness ==
    /\ \A v \in Vms :
          /\ SF_enrolVars(\E c \in Conns : Connect(c, v))
          /\ SF_enrolVars(\E c \in Conns : conn[c].vm = v /\ EnrollAssisted(c))
    /\ WF_enrolVars(\E c \in Conns : SaveWrite(c) \/ SaveRename(c) \/ SaveFails(c))
    /\ WF_enrolVars(\E c \in Conns :
          ClientSavesKey(c) \/ ClientSavesCert(c) \/ ClientDeletesToken(c))

----------------------------------------------------------------------------

\* Every variable keeps its type; the bootstrap mutex has at most one holder.
EnrolTypeOK ==
    /\ traffic \in Traffics
    /\ file \in Docs /\ mem \in Docs /\ behind \in BOOLEAN
    /\ tmp \subseteq Docs /\ \A d, e \in tmp : d = e
    /\ conn \in [Conns -> [st : {"closed", "nonce", "write", "rename", "got", "keyed",
                                 "certed", "auth"},
                           vm : Vms, kind : {"none", "token", "assisted"}, cert : 0..MaxCerts]]
    /\ \A c, d \in Conns : Saving(c) /\ Saving(d) => c = d
    /\ backend \in [pc : {"idle", "write", "rename"}, doc : Docs, moved : BOOLEAN]
    /\ guest \in [Vms -> [key : 0..MaxCerts, cert : 0..MaxCerts, token : BOOLEAN]]
    /\ issued \in [Vms -> 0..MaxCerts] /\ armed \in [Vms -> 0..MaxArms]
    /\ unsaved \subseteq Vms /\ spoiled \subseteq Spoils
    /\ faults \in 0..MaxFaults /\ restarts \in 0..MaxRestarts

\* The last certificate a guest was sent is the one bootstrap.yaml records,
\* whatever died in between: a certificate is never out without its record.
\* Unless the two writers of the file raced or a refused enrolment reached the
\* disk with another's.
SpentOnDisk ==
    spoiled \subseteq {"cut"} =>
        \A v \in Vms : issued[v] > 0 => issued[v] \in {file.token[v], file.enrolled[v]}

\* A token and an arm are good for one certificate each: through crashes,
\* failed saves and reloads a guest is never sent more than it was given.
ArmUsedOnce ==
    spoiled \cap {"lost_update", "tmp"} = {} =>
        \A v \in Vms : issued[v] <= OldCert + armed[v] + (IF v \in Holders THEN 1 ELSE 0)

\* "The daemon picks up the new entry via its reload-on-miss path; no daemon
\* restart needed": an armed guest ends up with a certificate of its key.
ArmedEnrols ==
    \A v \in Vms :
        v \in file.pending ~>
            (v \notin file.pending /\ guest[v].cert = guest[v].key /\ guest[v].cert # NoCert)

\* The same where nothing came between.
ArmedEnrolsUnlessSpoiled ==
    \A v \in Vms :
        v \in file.pending ~>
            \/ v \notin file.pending /\ guest[v].cert = guest[v].key /\ guest[v].cert # NoCert
            \/ spoiled # {}
=============================================================================
