-------------------------- MODULE NodeUpdateProofs --------------------------
(***************************************************************************)
(* What TLAPS proves of NodeUpdate: that every variable keeps its type,    *)
(* that neither copy of the boot vector ever names a bank whose sealed     *)
(* content is gone (VectorBootable), that no component is refused by every *)
(* verb (NoneStuck), that a component's NV boot state and the boot vector  *)
(* agree between handlers (NvFollowsVector), that a finalize arms what was *)
(* uploaded (FinalizeArms) and that the floor moves only to what runs      *)
(* (FloorHasRun), for any number of components, images and faults.         *)
(***************************************************************************)
EXTENDS NodeUpdate, FiniteSetTheorems, TLAPS

\* TypeOK with the node, whose fault kinds bound the faults seen.
Types == node \in Nodes /\ TypeOK

----------------------------------------------------------------------------
(* Types of what the actions write.                                        *)

\* A node's fields.
LEMMA NodeFields ==
    ASSUME node \in Nodes
    PROVE  Updated \subseteq Components /\ NodeReset \subseteq Components
BY NodesAssumption DEF Updated, NodeReset

\* The sibling of a bank is a bank, and not the bank itself.
LEMMA OtherBank ==
    ASSUME NEW b \in Banks
    PROVE  Other(b) \in Banks /\ Other(b) # b /\ Other(Other(b)) = b
           /\ \A a \in Banks : a # b => a = Other(b)
BY DEF Banks, Other

\* A write of one component's state keeps the type of a map over components.
LEMMA WriteType ==
    ASSUME NEW S, NEW f \in [Components -> S], NEW c \in Components, NEW e \in S
    PROVE  [f EXCEPT ![c] = e] \in [Components -> S]
OBVIOUS

\* A transfer moved to another state.
LEMMA InStateType ==
    ASSUME Types, NEW c \in Components, NEW s \in States
    PROVE  /\ InState(c, s) \in [Components -> [state : States, package : BOOLEAN]]
           /\ InState(c, s) = [flash EXCEPT ![c] = [state |-> s, package |-> flash[c].package]]
<1>1. InState(c, s) = [flash EXCEPT ![c] = [state |-> s, package |-> flash[c].package]]
  <2>1. InState(c, s) = [flash EXCEPT ![c] = [flash[c] EXCEPT !.state = s]]
    BY DEF InState
  <2>2. flash[c] \in [state : States, package : BOOLEAN]
    BY DEF Types, TypeOK
  <2>3. [flash[c] EXCEPT !.state = s] = [state |-> s, package |-> flash[c].package]
    BY <2>2
  <2> QED
    BY <2>1, <2>3
<1>2. [state |-> s, package |-> flash[c].package] \in [state : States, package : BOOLEAN]
  BY DEF Types, TypeOK
<1>3. [flash EXCEPT ![c] = [state |-> s, package |-> flash[c].package]]
        \in [Components -> [state : States, package : BOOLEAN]]
  BY <1>2 DEF Types, TypeOK
<1> QED
  BY <1>1, <1>3

\* NoFlash is a transfer.
LEMMA NoFlashType == NoFlash \in [state : States, package : BOOLEAN]
BY DEF NoFlash, States

\* Bank contents after one bank is written.
LEMMA BankWrite ==
    ASSUME Types, NEW c \in Components, NEW b \in Banks, NEW i \in Image
    PROVE  /\ [bank EXCEPT ![c][b] = i] \in [Components -> [Banks -> Image]]
           /\ \A d \in Components, a \in Banks :
                [bank EXCEPT ![c][b] = i][d][a] = IF d = c /\ a = b THEN i ELSE bank[d][a]
<1> DEFINE B == [bank EXCEPT ![c] = [bank[c] EXCEPT ![b] = i]]
<1>1. [bank EXCEPT ![c][b] = i] = B
  OBVIOUS
<1>2. [bank[c] EXCEPT ![b] = i] \in [Banks -> Image]
  BY DEF Types, TypeOK
<1>3. B \in [Components -> [Banks -> Image]]
  BY <1>2 DEF Types, TypeOK
<1>4. \A d \in Components, a \in Banks : B[d][a] = IF d = c /\ a = b THEN i ELSE bank[d][a]
  BY DEF Types, TypeOK
<1> QED
  BY <1>1, <1>3, <1>4

\* What is staged over the primary is a vector.
LEMMA StagedType ==
    ASSUME Types, NEW c \in Components
    PROVE  Staged(c) \in Vector
<1>1. [bank |-> nv[c].active, img |-> bank[c][nv[c].active]] \in [bank : Banks, img : Image]
  BY DEF Types, TypeOK
<1>2. (IF pending = Unstaged THEN primary ELSE pending) \in Vector
  BY DEF Types, TypeOK
<1> QED
  BY <1>1, <1>2 DEF Staged, Vector

\* One more fault of an allowed kind.
LEMMA FaultType ==
    ASSUME Types, NEW k, Fault(k), node' = node
    PROVE  faults' \in [n : 0 .. MaxFaults, seen : SUBSET Faults']
<1>1. faults.n + 1 \in 0 .. MaxFaults
  BY BoundsAssumption DEF Types, TypeOK, Fault
<1>2. faults.seen \cup {k} \in SUBSET Faults'
  BY DEF Types, TypeOK, Fault, Faults
<1> QED
  BY <1>1, <1>2 DEF Fault

VerdictTypes == [kind : {"none", "commit", "rollback"}, todo : SUBSET Components,
                 at : SUBSET Components]

\* The fan-out without c, and at c.
LEMMA VerdictType ==
    ASSUME Types, NEW c \in Components
    PROVE  /\ NoVerdict \in VerdictTypes
           /\ Without(c) \in VerdictTypes
           /\ [verdict EXCEPT !.todo = @ \ {c}, !.at = {c}] \in VerdictTypes
BY DEF Types, TypeOK, Without, NoVerdict, VerdictTypes

\* A handler of c begins or ends: the verdict keeps its type.
LEMMA HandlerType ==
    ASSUME Types, NEW c \in Components
    PROVE  /\ \A k : Begin(c, k) => verdict' \in VerdictTypes
           /\ End(c) => verdict' \in VerdictTypes /\ pc' \in [Components -> Pcs]
<1>1. verdict \in VerdictTypes
  BY DEF Types, TypeOK, VerdictTypes
<1>2. \A k : Begin(c, k) => verdict' \in VerdictTypes
  BY <1>1, VerdictType DEF Begin
<1>3. End(c) => verdict' \in VerdictTypes
  BY <1>1, VerdictType DEF End
<1>4. End(c) => pc' \in [Components -> Pcs]
  BY DEF End, Pcs, Types, TypeOK
<1> QED
  BY <1>2, <1>3, <1>4

----------------------------------------------------------------------------
(* Type correctness, by action.                                            *)

\* A provisioned node is well typed.
LEMMA InitTypes == Init => Types
<1> SUFFICES ASSUME Init PROVE Types
  OBVIOUS
<1>1. 0 \in Image /\ 1 \in Image
  BY BoundsAssumption DEF Image
<1>2. "A" \in Banks /\ NoFlash \in [state : States, package : BOOLEAN] /\ "idle" \in Pcs
  BY NoFlashType DEF Banks, Pcs
<1>3. nv \in [Components -> [active : Banks, committed : BOOLEAN]]
      /\ running \in [Components -> Banks] /\ pc \in [Components -> Pcs]
      /\ flash \in [Components -> [state : States, package : BOOLEAN]]
  BY <1>2 DEF Init
<1>4. bank \in [Components -> [Banks -> Image]] /\ uploaded \in [Components -> Image]
  BY <1>1 DEF Init, NoImage
<1>5. primary \in Vector /\ secondary \in Vector
  BY <1>1, <1>2 DEF Init, Vector
<1>6. verdict \in VerdictTypes /\ fresh \subseteq Components \X Banks
  BY DEF Init, NoVerdict, VerdictTypes
<1>7. faults \in [n : 0 .. MaxFaults, seen : SUBSET Faults]
  BY BoundsAssumption DEF Init
<1> QED
  BY <1>1, <1>3, <1>4, <1>5, <1>6, <1>7 DEF Init, Types, TypeOK, VerdictTypes

\* The flash operations of one component.
LEMMA FlashTypes ==
    ASSUME Types, NEW c \in Components, Flash(c)
    PROVE  Types'
<1> USE DEF disk
<1>1. CASE StartFlash(c)
  BY <1>1 DEF StartFlash, Types, TypeOK, Faults, States
<1>2. CASE Upload(c)
  <2>1. Target(c) \in Banks /\ images + 1 \in Image
    BY <1>2, OtherBank, BoundsAssumption DEF Target, Types, TypeOK, Image, Upload
  <2>2. bank' \in [Components -> [Banks -> Image]]
    BY <1>2, <2>1, BankWrite DEF Upload
  <2>3. fresh' \subseteq Components \X Banks /\ uploaded' \in [Components -> Image]
        /\ images' \in Image
    BY <1>2, <2>1 DEF Upload, Types, TypeOK
  <2>4. flash' \in [Components -> [state : States, package : BOOLEAN]]
    BY <1>2 DEF Upload, Types, TypeOK, States
  <2> QED
    BY <1>2, <2>2, <2>3, <2>4 DEF Upload, Types, TypeOK, Faults
<1>3. CASE Abort(c)
  BY <1>3, NoFlashType DEF Abort, Types, TypeOK, Faults
<1>4. CASE Validate(c) \/ Invalidate(c) \/ Activate(c)
  <2>1. flash' \in [Components -> [state : States, package : BOOLEAN]]
    BY <1>4, InStateType DEF Validate, Invalidate, Activate, Relabel, States
  <2> QED
    BY <1>4, <2>1 DEF Validate, Invalidate, Activate, Relabel, Types, TypeOK, Faults
<1>5. CASE FinalizeInstall(c)
  <2>1. Installed(nv[c]) \in [active : Banks, committed : BOOLEAN]
    BY OtherBank DEF Installed, Types, TypeOK
  <2>2. nv' \in [Components -> [active : Banks, committed : BOOLEAN]]
    BY <1>5, <2>1 DEF FinalizeInstall, Types, TypeOK
  <2> QED
    BY <1>5, <2>2 DEF FinalizeInstall, Types, TypeOK, Faults, Pcs
<1>6. CASE FinalizeInstallFails(c)
  <2>1. faults' \in [n : 0 .. MaxFaults, seen : SUBSET Faults']
    BY <1>6, FaultType DEF FinalizeInstallFails
  <2> QED
    BY <1>6, <2>1 DEF FinalizeInstallFails, Types, TypeOK, Pcs
<1>7. CASE FinalizeActivate(c)
  <2>1. flash' \in [Components -> [state : States, package : BOOLEAN]]
    BY <1>7, InStateType DEF FinalizeActivate, States, Types, TypeOK
  <2>2. pc' \in [Components -> Pcs]
    BY <1>7 DEF FinalizeActivate, Types, TypeOK, Pcs
  <2>3. primary' \in Vector
    BY <1>7, StagedType DEF FinalizeActivate
  <2> QED
    BY <1>7, <2>1, <2>2, <2>3 DEF FinalizeActivate, Types, TypeOK, Faults
<1>8. CASE FinalizeActivateFails(c)
  <2>1. faults' \in [n : 0 .. MaxFaults, seen : SUBSET Faults']
    BY <1>8, FaultType DEF FinalizeActivateFails
  <2>2. pending' \in Vector \cup {Unstaged}
    BY <1>8, StagedType DEF FinalizeActivateFails, Types, TypeOK
  <2> QED
    BY <1>8, <2>1, <2>2 DEF FinalizeActivateFails, Types, TypeOK, Pcs
<1>9. CASE UndoInstall(c)
  <2>1. RolledBack(nv[c]) \in [active : Banks, committed : BOOLEAN]
    BY OtherBank DEF RolledBack, Types, TypeOK
  <2>2. nv' \in [Components -> [active : Banks, committed : BOOLEAN]]
    BY <1>9, <2>1 DEF UndoInstall, Types, TypeOK
  <2> QED
    BY <1>9, <2>2 DEF UndoInstall, Types, TypeOK, Faults, Pcs
<1>11. CASE UndoInstallFails(c)
  BY <1>11, FaultType DEF UndoInstallFails, Types, TypeOK, Pcs
<1>10. CASE EcuResetGuest(c) \/ HealthConfirmed(c) \/ EcuResetNode(c)
  <2>1. flash' \in [Components -> [state : States, package : BOOLEAN]]
    BY <1>10, InStateType DEF EcuResetGuest, HealthConfirmed, EcuResetNode, States, Types, TypeOK
  <2>2. running' \in [Components -> Banks]
    BY <1>10 DEF EcuResetGuest, HealthConfirmed, EcuResetNode, Types, TypeOK
  <2> QED
    BY <1>10, <2>1, <2>2 DEF EcuResetGuest, HealthConfirmed, EcuResetNode, Types, TypeOK, Faults
<1> QED
  BY <1>1, <1>2, <1>3, <1>4, <1>5, <1>6, <1>7, <1>8, <1>9, <1>10, <1>11 DEF Flash

\* The verdict handlers of one component.
LEMMA JudgeTypes ==
    ASSUME Types, NEW c \in Components, Judge(c)
    PROVE  Types'
<1> USE DEF disk, VerdictTypes
<1>1. CASE CommitNv(c)
  <2>1. verdict' \in VerdictTypes
    BY <1>1, HandlerType DEF CommitNv
  <2>2. nv' \in [Components -> [active : Banks, committed : BOOLEAN]]
    BY <1>1 DEF CommitNv, Types, TypeOK
  <2> QED
    BY <1>1, <2>1, <2>2 DEF CommitNv, Types, TypeOK, Faults, Pcs
<1>2. CASE CommitRefused(c)
  <2>1. verdict' \in VerdictTypes
    BY <1>2, VerdictType DEF CommitRefused
  <2>2. faults' \in [n : 0 .. MaxFaults, seen : SUBSET Faults']
    BY <1>2, FaultType DEF CommitRefused, Types, TypeOK, Faults
  <2> QED
    BY <1>2, <2>1, <2>2 DEF CommitRefused, Types, TypeOK
<1>3. CASE CommitVector(c)
  <2>1. verdict' \in VerdictTypes /\ pc' \in [Components -> Pcs]
    BY <1>3, HandlerType DEF CommitVector
  <2>2. flash' \in [Components -> [state : States, package : BOOLEAN]]
    BY <1>3, NoFlashType DEF CommitVector, Types, TypeOK
  <2> QED
    BY <1>3, <2>1, <2>2 DEF CommitVector, Types, TypeOK, Faults
<1>4. CASE CommitVectorFails(c)
  <2>1. verdict' \in VerdictTypes /\ pc' \in [Components -> Pcs]
    BY <1>4, HandlerType DEF CommitVectorFails
  <2>2. faults' \in [n : 0 .. MaxFaults, seen : SUBSET Faults']
    BY <1>4, FaultType DEF CommitVectorFails
  <2> QED
    BY <1>4, <2>1, <2>2 DEF CommitVectorFails, Types, TypeOK
<1>5. CASE RollbackVector(c)
  <2>1. verdict' \in VerdictTypes
    BY <1>5, HandlerType DEF RollbackVector
  <2> QED
    BY <1>5, <2>1 DEF RollbackVector, Types, TypeOK, Faults, Pcs
<1>6. CASE RollbackRefused(c)
  <2>1. verdict' \in VerdictTypes
    BY <1>6, VerdictType DEF RollbackRefused
  <2>2. faults' \in [n : 0 .. MaxFaults, seen : SUBSET Faults']
    BY <1>6, FaultType DEF RollbackRefused, Types, TypeOK, Faults
  <2> QED
    BY <1>6, <2>1, <2>2 DEF RollbackRefused, Types, TypeOK
<1>7. CASE RollbackNv(c)
  <2>1. RolledBack(nv[c]) \in [active : Banks, committed : BOOLEAN]
    BY OtherBank DEF RolledBack, Types, TypeOK
  <2>2. nv' \in [Components -> [active : Banks, committed : BOOLEAN]]
    BY <1>7, <2>1 DEF RollbackNv, Types, TypeOK
  <2> QED
    BY <1>7, <2>2 DEF RollbackNv, Types, TypeOK, Faults, Pcs
<1>8. CASE RollbackNvFails(c)
  <2>1. verdict' \in VerdictTypes /\ pc' \in [Components -> Pcs]
    BY <1>8, HandlerType DEF RollbackNvFails
  <2>2. faults' \in [n : 0 .. MaxFaults, seen : SUBSET Faults']
    BY <1>8, FaultType DEF RollbackNvFails
  <2> QED
    BY <1>8, <2>1, <2>2 DEF RollbackNvFails, Types, TypeOK
<1>9. CASE RollbackWipe(c)
  <2>1. Target(c) \in Banks /\ NoImage \in Image
    BY OtherBank, BoundsAssumption DEF Target, Types, TypeOK, Image, NoImage
  <2>2. bank' \in [Components -> [Banks -> Image]]
    BY <1>9, <2>1, BankWrite DEF RollbackWipe
  <2>3. verdict' \in VerdictTypes /\ pc' \in [Components -> Pcs]
    BY <1>9, HandlerType DEF RollbackWipe
  <2>4. flash' \in [Components -> [state : States, package : BOOLEAN]]
    BY <1>9, NoFlashType DEF RollbackWipe, Types, TypeOK
  <2> QED
    BY <1>9, <2>2, <2>3, <2>4 DEF RollbackWipe, Types, TypeOK, Faults
<1> QED
  BY <1>1, <1>2, <1>3, <1>4, <1>5, <1>6, <1>7, <1>8, <1>9 DEF Judge

\* A restart, whatever it was caused by.
LEMMA RestartTypes ==
    ASSUME Types, Reset \/ Die
    PROVE  Types'
<1>1. PICK n \in BOOLEAN : Restart(n)
  BY DEF Reset, Die
<1>2. node' = node /\ Faults' = Faults
  BY <1>1 DEF Restart, Faults
<1>3. primary' \in Vector /\ Restored \in SUBSET Faults
  BY <1>1 DEF Restart, BootStage, Restored, Types, TypeOK
<1>4. faults' \in [n : 0 .. MaxFaults, seen : SUBSET Faults']
  <2>1. CASE Reset
    BY <2>1, <1>2, <1>3 DEF Reset, Types, TypeOK
  <2>2. CASE Die
    <3>1. faults.n + 1 \in 0 .. MaxFaults
      BY <2>2, BoundsAssumption DEF Types, TypeOK, Die
    <3>2. faults.seen \cup Cut \cup Restored \in SUBSET Faults'
      BY <2>2, <1>2, <1>3 DEF Types, TypeOK, Die
    <3> QED
      BY <2>2, <3>1, <3>2 DEF Die
  <2> QED
    BY <2>1, <2>2
<1>5. verdict' \in VerdictTypes
  BY <1>1 DEF Restart, NoVerdict, VerdictTypes
<1>6. running' \in [Components -> Banks] /\ pc' \in [Components -> Pcs]
      /\ flash' \in [Components -> [state : States, package : BOOLEAN]]
  BY <1>1, NoFlashType DEF Restart, Types, TypeOK, Pcs
<1> QED
  BY <1>1, <1>3, <1>4, <1>5, <1>6 DEF Restart, Types, TypeOK, VerdictTypes

\* The node's own steps.
LEMMA NodeTypes ==
    ASSUME Types, \/ \E kind \in {"commit", "rollback"} : NodeVerdict(kind)
                  \/ Serve \/ BailOut
    PROVE  Types'
<1> USE DEF disk
<1>1. CASE \E kind \in {"commit", "rollback"} : NodeVerdict(kind)
  <2>1. verdict' \in VerdictTypes
    BY <1>1 DEF NodeVerdict, VerdictTypes, Candidates, TrialSet
  <2> QED
    BY <1>1, <2>1 DEF NodeVerdict, Types, TypeOK, VerdictTypes, Faults
<1>2. CASE Serve
  BY <1>2 DEF Serve, Types, TypeOK, Faults
<1>3. CASE BailOut
  <2>1. verdict' \in VerdictTypes
    BY <1>3 DEF BailOut, VerdictTypes, TrialSet
  <2> QED
    BY <1>3, <2>1 DEF BailOut, Types, TypeOK, VerdictTypes, Faults
<1> QED
  BY <1>1, <1>2, <1>3

\* Every step keeps the types.
LEMMA NextTypes == Types /\ [Next]_vars => Types'
<1> SUFFICES ASSUME Types, [Next]_vars PROVE Types'
  OBVIOUS
<1>1. CASE UNCHANGED vars
  BY <1>1 DEF vars, Types, TypeOK, Faults
<1>2. CASE Next
  BY <1>2, FlashTypes, JudgeTypes, RestartTypes, NodeTypes DEF Next
<1> QED
  BY <1>1, <1>2

\* Every variable keeps its type, whatever a client requests and whatever
\* write fails, on every kind of node.
LEMMA TypesHold == Spec => []Types
BY InitTypes, NextTypes, PTL DEF Spec

\* The type invariant of the run.
THEOREM TypeCorrect == Spec => []TypeOK
<1>1. Types => TypeOK
  BY DEF Types
<1> QED
  BY <1>1, TypesHold, PTL
----------------------------------------------------------------------------
(* The inductive invariant of VectorBootable.  It speaks of one component  *)
(* c at a time, while no seal and no vector commit has failed.             *)
(*                                                                         *)
(* The vector's verbs move every component, so a component can meet a      *)
(* verdict meant for another one.  That is harmless where the node updates *)
(* one component only, or where verdicts come from the node's fan-out and  *)
(* finalize is called once per upload: the two kinds of node the theorem   *)
(* is about.  On the others the property fails (run component_rollback).   *)

\* At most one component is updated.
Only == \A c, d \in Updated : c = d

\* Campaigns: node verdicts, each upload finalized once.
Scripted == Requests \cap {"verdict", "refinalize", "validate"} = {}

\* Every kind of node is of one of the two kinds.
OnlyOrScripted ==
    \A n \in Nodes : \/ \A c, d \in n.updated : c = d
                     \/ n.requests \cap {"verdict", "refinalize", "validate"} = {}

\* A started transfer that has no package yet.
Open(c) == flash[c].state # "none" /\ ~flash[c].package

\* Neither copy names lost content.
Bootable(c) == \A v \in {primary, secondary} : bank[c][v[c].bank] = v[c].img

\* A component that is never updated is never touched.
Idle(c) ==
    c \notin Updated =>
        /\ nv[c].committed /\ flash[c] = NoFlash /\ pc[c] = "idle"
        /\ primary[c] = secondary[c] /\ c \notin verdict.todo

\* In an NV trial the floor is the other bank, unless the floor moved with
\* another component's commit; then both copies name the trial's bank.
TrialOf(c) ==
    ~nv[c].committed /\ secondary[c].bank = nv[c].active =>
        ~Only /\ primary[c].bank = nv[c].active

\* What an upload overwrites, neither copy names.
OpenOf(c) ==
    Open(c) => nv[c].active = secondary[c].bank /\ primary[c].bank = secondary[c].bank

\* What an install starts the trial of is not the floor's bank.
PackageOf(c) ==
    flash[c].package /\ nv[c].committed /\ pc[c] # "commit_vector" =>
        \/ secondary[c].bank = nv[c].active
        \/ ~Only /\ flash[c].state # "staged"
        \/ ~Only /\ primary[c].bank = secondary[c].bank

\* Of several components each is flashed and judged as a campaign does it.
ScriptOf(c) ==
    ~Only =>
        /\ pc[c] \in {"activate", "undo_install"} => flash[c].package
        /\ flash[c].state \in {"staged", "awaiting_reboot"} => flash[c].package
        /\ flash[c].state # "validated"
        /\ pc[c] = "commit_vector" => verdict.kind = "commit" /\ verdict.at = {c}
        /\ ~serving => flash[c] = NoFlash /\ pc[c] \notin {"activate", "undo_install"}

\* What the handlers of a verdict have established where they are cut.
HandlerOf(c) ==
    /\ pc[c] = "commit_vector" => nv[c].committed
    /\ pc[c] = "rollback_nv" =>
         /\ ~nv[c].committed /\ secondary[c].bank = Other(nv[c].active)
         /\ primary[c].bank = secondary[c].bank
    /\ pc[c] = "wipe" =>
         /\ nv[c].committed /\ secondary[c].bank = nv[c].active
         /\ primary[c].bank = secondary[c].bank

\* A component whose rollback is still to come keeps the floor in the other
\* bank, and does not leave it by an install.
TurnOf(c) ==
    verdict.kind = "rollback" /\ c \in verdict.todo =>
        /\ ~nv[c].committed => secondary[c].bank = Other(nv[c].active)
        /\ ~Only /\ flash[c].package /\ flash[c].state = "staged" /\ nv[c].committed
             => secondary[c].bank = nv[c].active

Held(c) ==
    /\ Bootable(c) /\ Idle(c) /\ TrialOf(c) /\ OpenOf(c) /\ PackageOf(c)
    /\ ScriptOf(c) /\ HandlerOf(c) /\ TurnOf(c)

Trusted == ~Saw({"seal", "commit_vector"})
HeldInv == Trusted => pending = Unstaged /\ \A c \in Components : Held(c)

\* The types of one component's state, as the steps below use them.
TypesOf(c) ==
    /\ nv[c].active \in Banks /\ nv[c].committed \in BOOLEAN
    /\ primary[c] \in [bank : Banks, img : Image]
    /\ secondary[c] \in [bank : Banks, img : Image]
    /\ flash[c] \in [state : States, package : BOOLEAN]
    /\ pc[c] \in Pcs

\* They follow from the type invariant.
LEMMA TypesOfEach == ASSUME Types, NEW c \in Components PROVE TypesOf(c)
BY DEF Types, TypeOK, TypesOf, Vector

\* A transfer with no state and no package is NoFlash.
LEMMA FlashIs ==
    ASSUME NEW f \in [state : States, package : BOOLEAN]
    PROVE  /\ f.state = "none" /\ ~f.package => f = NoFlash
           /\ ~NoFlash.package /\ NoFlash.state = "none"
BY DEF NoFlash

\* The kinds of node, of the node at hand.
LEMMA NodeKind == ASSUME OnlyOrScripted, Types PROVE Only \/ Scripted
BY DEF OnlyOrScripted, Types, Only, Scripted, Updated, Requests

\* Only one of the components is updated when one is at work.
LEMMA OthersIdle ==
    ASSUME Only, NEW c \in Updated, NEW d, d # c
    PROVE  d \notin Updated
BY DEF Only

----------------------------------------------------------------------------
(* A component no step touches.                                            *)

\* The verdict moved on, but not to d.
Eased(d) ==
    /\ d \in verdict'.todo => d \in verdict.todo
    /\ verdict'.kind = "rollback" /\ d \in verdict'.todo => verdict.kind = "rollback"
    /\ ~Only /\ pc[d] = "commit_vector" => verdict'.kind = "commit" /\ verdict'.at = {d}

\* The step leaves d alone.
Alone(d) ==
    /\ nv'[d] = nv[d] /\ bank'[d] = bank[d]
    /\ primary'[d] = primary[d] /\ secondary'[d] = secondary[d]
    /\ flash'[d] = flash[d] /\ pc'[d] = pc[d]

\* What holds of a component that is left alone goes on holding.
LEMMA Frame ==
    ASSUME NEW d \in Components, Held(d), Alone(d), Eased(d), node' = node,
           serving' = serving \/ serving' = TRUE
    PROVE  Held(d)'
<1> USE DEF Alone, Updated, Only
<1>1. Bootable(d)'
  BY DEF Held, Bootable
<1>2. Idle(d)'
  BY DEF Held, Idle, Eased
<1>3. TrialOf(d)' /\ OpenOf(d)' /\ PackageOf(d)'
  BY DEF Held, TrialOf, OpenOf, PackageOf, Open
<1>4. ScriptOf(d)'
  BY DEF Held, ScriptOf, Eased
<1>5. HandlerOf(d)'
  BY DEF Held, HandlerOf
<1>6. TurnOf(d)'
  BY DEF Held, TurnOf, Eased
<1> QED
  BY <1>1, <1>2, <1>3, <1>4, <1>5, <1>6 DEF Held

\* The fan-out stays as it is.
LEMMA EasedSame ==
    ASSUME NEW d \in Components, Held(d), verdict' = verdict
    PROVE  Eased(d)
BY DEF Held, ScriptOf, Eased

\* A handler of c begins or ends while nobody commits.
LEMMA EasedWithout ==
    ASSUME Types, NEW c \in Components, NEW d \in Components, pc[d] # "commit_vector",
           \/ verdict' = Without(c)
           \/ verdict' = [verdict EXCEPT !.todo = @ \ {c}, !.at = {c}]
           \/ verdict' = verdict
    PROVE  Eased(d)
<1>1. verdict \in VerdictTypes
  BY DEF Types, TypeOK, VerdictTypes
<1>2. CASE verdict' = verdict
  BY <1>2 DEF Eased
<1>3. CASE verdict' = [verdict EXCEPT !.todo = @ \ {c}, !.at = {c}]
  BY <1>1, <1>3 DEF Eased, VerdictTypes
<1>4. CASE verdict' = NoVerdict
  BY <1>4 DEF Eased, NoVerdict
<1>5. CASE verdict' = [verdict EXCEPT !.todo = @ \ {c}, !.at = {}]
  BY <1>1, <1>5 DEF Eased, VerdictTypes
<1> QED
  BY <1>2, <1>3, <1>4, <1>5 DEF Without

----------------------------------------------------------------------------
(* Flashing: the component itself, then the others.                        *)

\* The steps of a flash keep what holds of the component they are of.
LEMMA FlashHolds ==
    ASSUME OnlyOrScripted, Types, Types', NEW c \in Components, Flash(c), Held(c),
           pending = Unstaged, Trusted'
    PROVE  Held(c)' /\ pending' = Unstaged
<1> USE DEF disk
<1>n. node' = node /\ Updated' = Updated /\ Only' = Only /\ verdict' = verdict
      /\ serving' = serving /\ secondary' = secondary
  BY DEF Flash, StartFlash, Upload, Abort, Validate, Invalidate, Activate, Relabel,
         FinalizeInstall, FinalizeInstallFails, FinalizeActivate, FinalizeActivateFails,
         UndoInstall, UndoInstallFails, EcuResetGuest, HealthConfirmed, EcuResetNode, Updated, Only
<1>k. Only \/ Scripted
  BY NodeKind
<1>t. TypesOf(c)
  BY TypesOfEach
<1>1. CASE StartFlash(c)
  <2>1. /\ c \in Updated /\ serving /\ pc[c] = "idle" /\ pending' = Unstaged
        /\ nv' = nv /\ bank' = bank /\ primary' = primary /\ pc' = pc
        /\ flash'[c] = [state |-> "transferring", package |-> FALSE]
        /\ primary[c] = secondary[c] /\ primary[c].bank = nv[c].active
    BY <1>1 DEF StartFlash, FlashCanStart, InTrial, PendingReboot, Types, TypeOK
  <2>2. Bootable(c)' /\ TrialOf(c)' /\ Idle(c)' /\ HandlerOf(c)'
    BY <1>n, <2>1 DEF Held, Bootable, TrialOf, Idle, HandlerOf
  <2>3. OpenOf(c)' /\ PackageOf(c)' /\ ScriptOf(c)' /\ TurnOf(c)'
    BY <1>n, <2>1 DEF Held, OpenOf, Open, PackageOf, ScriptOf, TurnOf
  <2> QED
    BY <2>1, <2>2, <2>3 DEF Held
<1>2. CASE Upload(c)
  <2>1. /\ serving /\ pc[c] = "idle" /\ Open(c) /\ pending' = Unstaged
        /\ nv' = nv /\ primary' = primary /\ pc' = pc
        /\ flash'[c] = [state |-> "staged", package |-> TRUE]
    BY <1>2 DEF Upload, Open, Types, TypeOK
  <2>2. \A a \in Banks : a # Other(nv[c].active) => bank'[c][a] = bank[c][a]
    <3>1. Target(c) \in Banks /\ images + 1 \in Image
      BY <1>2, OtherBank, BoundsAssumption DEF Target, Types, TypeOK, Image, Upload
    <3> QED
      BY <1>2, <3>1, BankWrite DEF Upload, Target
  <2>3. nv[c].active = secondary[c].bank /\ primary[c].bank = secondary[c].bank
    BY <2>1 DEF Held, OpenOf
  <2>4. bank'[c][secondary[c].bank] = bank[c][secondary[c].bank]
    BY <2>2, <2>3, <1>t, OtherBank DEF TypesOf
  <2>5. Bootable(c)' /\ TrialOf(c)' /\ HandlerOf(c)'
    BY <1>n, <2>1, <2>3, <2>4 DEF Held, Bootable, TrialOf, HandlerOf
  <2>6. Idle(c)'
    BY <1>n, <2>1 DEF Held, Idle, Open, NoFlash
  <2>7. OpenOf(c)' /\ PackageOf(c)' /\ ScriptOf(c)' /\ TurnOf(c)'
    BY <1>n, <2>1, <2>3 DEF Held, OpenOf, Open, PackageOf, ScriptOf, TurnOf
  <2> QED
    BY <2>1, <2>5, <2>6, <2>7 DEF Held
<1>3. CASE Abort(c)
  <2>1. /\ serving /\ pc[c] = "idle" /\ pending' = Unstaged
        /\ nv' = nv /\ bank' = bank /\ primary' = primary /\ pc' = pc /\ flash'[c] = NoFlash
    BY <1>3 DEF Abort, Types, TypeOK
  <2>2. Bootable(c)' /\ TrialOf(c)' /\ Idle(c)' /\ HandlerOf(c)'
    BY <1>n, <2>1 DEF Held, Bootable, TrialOf, Idle, HandlerOf
  <2>3. OpenOf(c)' /\ PackageOf(c)' /\ ScriptOf(c)' /\ TurnOf(c)'
    BY <1>n, <2>1 DEF Held, OpenOf, Open, PackageOf, ScriptOf, TurnOf, NoFlash
  <2> QED
    BY <2>1, <2>2, <2>3 DEF Held
<1>4. CASE Validate(c) \/ Invalidate(c) \/ Activate(c)
  <2>1. /\ Only /\ serving /\ pc[c] = "idle" /\ pending' = Unstaged
        /\ nv' = nv /\ bank' = bank /\ primary' = primary /\ pc' = pc
        /\ flash[c].state # "none" /\ flash'[c].state # "none"
        /\ flash'[c].package = flash[c].package
    <3>1. "validate" \in Requests /\ flash[c].state # "none"
      BY <1>4 DEF Validate, Invalidate, Activate, Relabel
    <3>2. PICK s \in States \ {"none"} : flash' = InState(c, s)
      BY <1>4 DEF Validate, Invalidate, Activate, Relabel, States
    <3>3. flash'[c].state # "none" /\ flash'[c].package = flash[c].package
      <4>1. flash' = [flash EXCEPT ![c] = [state |-> s, package |-> flash[c].package]]
        BY <3>2, InStateType
      <4> QED
        BY <3>2, <4>1 DEF Types, TypeOK
    <3>4. Only
      BY <3>1, <1>k DEF Scripted
    <3> QED
      BY <1>4, <3>1, <3>3, <3>4 DEF Validate, Invalidate, Activate, Relabel
  <2>2. Bootable(c)' /\ TrialOf(c)' /\ HandlerOf(c)'
    BY <1>n, <2>1 DEF Held, Bootable, TrialOf, HandlerOf
  <2>3. OpenOf(c)' /\ PackageOf(c)' /\ ScriptOf(c)' /\ TurnOf(c)'
    BY <1>n, <2>1 DEF Held, OpenOf, Open, PackageOf, ScriptOf, TurnOf
  <2>4. Idle(c)'
    BY <1>n, <2>1 DEF Held, Idle, NoFlash
  <2> QED
    BY <2>1, <2>2, <2>3, <2>4 DEF Held
<1>5. CASE FinalizeInstall(c) \/ FinalizeInstallFails(c)
  <2>1. /\ c \in Updated /\ serving /\ pc[c] = "idle" /\ pending' = Unstaged
        /\ bank' = bank /\ primary' = primary /\ flash' = flash /\ pc'[c] = "activate"
        /\ "refinalize" \in Requests \/ flash[c].state \in {"staged", "validated"}
    BY <1>5 DEF FinalizeInstall, FinalizeInstallFails, Finalize, Types, TypeOK
  <2>2. \/ nv'[c] = nv[c]
        \/ /\ flash[c].package /\ nv[c].committed
           /\ nv'[c] = [active |-> Other(nv[c].active), committed |-> FALSE]
    BY <1>5 DEF FinalizeInstall, FinalizeInstallFails, Installed, Types, TypeOK
  <2>3. ~Only => flash[c].state = "staged" /\ flash[c].package
    BY <2>1, <1>k DEF Scripted, Held, ScriptOf
  <2>4. Bootable(c)' /\ Idle(c)' /\ HandlerOf(c)' /\ ScriptOf(c)'
    BY <1>n, <2>1, <2>3 DEF Held, Bootable, Idle, HandlerOf, ScriptOf
  <2>5. CASE nv'[c] = nv[c]
    BY <1>n, <2>1, <2>4, <2>5 DEF Held, TrialOf, OpenOf, Open, PackageOf, TurnOf
  <2>6. CASE /\ flash[c].package /\ nv[c].committed
             /\ nv'[c] = [active |-> Other(nv[c].active), committed |-> FALSE]
    <3>1. \/ secondary[c].bank = nv[c].active
          \/ ~Only /\ primary[c].bank = secondary[c].bank
      BY <2>1, <2>3, <2>6 DEF Held, PackageOf
    <3>2. TrialOf(c)'
      BY <1>n, <1>t, <2>1, <2>6, <3>1, OtherBank DEF TrialOf, TypesOf
    <3>3. TurnOf(c)'
      BY <1>n, <1>t, <2>1, <2>3, <2>6, <3>1, OtherBank DEF Held, TurnOf, TypesOf
    <3>4. OpenOf(c)' /\ PackageOf(c)'
      BY <2>1, <2>6 DEF OpenOf, Open, PackageOf
    <3> QED
      BY <2>1, <2>4, <3>2, <3>3, <3>4 DEF Held
  <2> QED
    BY <2>2, <2>5, <2>6
<1>6. CASE FinalizeActivate(c)
  <2>1. /\ pc[c] = "activate" /\ pending' = Unstaged
        /\ nv' = nv /\ bank' = bank /\ pc'[c] = "idle"
        /\ primary'[c] = [bank |-> nv[c].active, img |-> bank[c][nv[c].active]]
    BY <1>6 DEF FinalizeActivate, Staged, Types, TypeOK, Vector
  <2>2. \/ flash'[c] = flash[c] /\ flash[c] = NoFlash
        \/ /\ flash[c] # NoFlash
           /\ flash'[c] = [state |-> "awaiting_reboot", package |-> flash[c].package]
    BY <1>6, InStateType DEF FinalizeActivate, Types, TypeOK, States
  <2>3. Open(c)' => Open(c)
    BY <2>2, <1>t, FlashIs DEF Open, TypesOf
  <2>4. c \in Updated
    BY <2>1 DEF Held, Idle
  <2>5. Bootable(c)' /\ TrialOf(c)' /\ HandlerOf(c)' /\ Idle(c)'
    BY <1>n, <2>1, <2>4 DEF Held, Bootable, TrialOf, HandlerOf, Idle
  <2>6. OpenOf(c)'
    BY <1>n, <2>1, <2>3 DEF Held, OpenOf
  <2>7. PackageOf(c)' /\ TurnOf(c)'
    BY <1>n, <2>1, <2>2 DEF Held, PackageOf, TurnOf, NoFlash
  <2>8. ScriptOf(c)'
    BY <1>n, <2>1, <2>2 DEF Held, ScriptOf, NoFlash
  <2> QED
    BY <2>1, <2>5, <2>6, <2>7, <2>8 DEF Held
<1>7. CASE FinalizeActivateFails(c)
  <2>1. ~Fault("seal")
    BY DEF Trusted, Saw, Fault
  <2>2. /\ pc[c] = "activate" /\ pending' = Unstaged
        /\ nv' = nv /\ bank' = bank /\ primary' = primary /\ flash' = flash
        /\ pc'[c] = "undo_install"
    BY <1>7, <2>1 DEF FinalizeActivateFails, Types, TypeOK
  <2>3. Bootable(c)' /\ TrialOf(c)' /\ HandlerOf(c)' /\ Idle(c)'
    BY <1>n, <2>2 DEF Held, Bootable, TrialOf, HandlerOf, Idle
  <2>4. OpenOf(c)' /\ PackageOf(c)' /\ ScriptOf(c)' /\ TurnOf(c)'
    BY <1>n, <2>2 DEF Held, OpenOf, Open, PackageOf, ScriptOf, TurnOf
  <2> QED
    BY <2>2, <2>3, <2>4 DEF Held
<1>8. CASE UndoInstall(c)
  <2>1. /\ pc[c] = "undo_install" /\ pending' = Unstaged
        /\ bank' = bank /\ primary' = primary /\ flash' = flash /\ pc'[c] = "idle"
    BY <1>8 DEF UndoInstall, Types, TypeOK
  <2>2. \/ nv[c].committed /\ nv'[c] = nv[c]
        \/ ~nv[c].committed /\ nv'[c] = [active |-> Other(nv[c].active), committed |-> TRUE]
    BY <1>8 DEF UndoInstall, RolledBack, Types, TypeOK
  <2>3. c \in Updated
    BY <2>1 DEF Held, Idle
  <2>4. Bootable(c)' /\ TrialOf(c)' /\ HandlerOf(c)' /\ Idle(c)' /\ ScriptOf(c)'
    BY <1>n, <2>1, <2>2, <2>3 DEF Held, Bootable, TrialOf, HandlerOf, Idle, ScriptOf
  <2>5. CASE nv[c].committed /\ nv'[c] = nv[c]
    BY <1>n, <2>1, <2>4, <2>5 DEF Held, OpenOf, Open, PackageOf, TurnOf
  <2>6. CASE ~nv[c].committed /\ nv'[c] = [active |-> Other(nv[c].active), committed |-> TRUE]
    <3>1. OpenOf(c)'
      BY <1>n, <2>1, <2>6 DEF Held, OpenOf, Open, TrialOf, ScriptOf
    <3>2. PackageOf(c)'
      BY <1>n, <1>t, <2>1, <2>6, OtherBank DEF Held, PackageOf, TrialOf, TypesOf
    <3>3. TurnOf(c)'
      BY <1>n, <2>1, <2>6 DEF Held, TurnOf
    <3> QED
      BY <2>1, <2>4, <3>1, <3>2, <3>3 DEF Held
  <2> QED
    BY <2>2, <2>5, <2>6
<1>10. CASE UndoInstallFails(c)
  <2>1. /\ pc[c] = "undo_install" /\ pending' = Unstaged /\ nv' = nv /\ ~nv[c].committed
        /\ bank' = bank /\ primary' = primary /\ flash' = flash /\ pc'[c] = "idle"
    BY <1>10 DEF UndoInstallFails, Types, TypeOK
  <2>2. Bootable(c)' /\ TrialOf(c)' /\ HandlerOf(c)' /\ Idle(c)' /\ ScriptOf(c)'
    BY <1>n, <2>1 DEF Held, Bootable, TrialOf, HandlerOf, Idle, ScriptOf
  <2>3. OpenOf(c)' /\ PackageOf(c)' /\ TurnOf(c)'
    BY <1>n, <2>1 DEF Held, OpenOf, Open, PackageOf, TurnOf
  <2> QED
    BY <2>1, <2>2, <2>3 DEF Held
<1>9. CASE EcuResetGuest(c) \/ HealthConfirmed(c) \/ EcuResetNode(c)
  <2>1. /\ serving /\ pending' = Unstaged
        /\ nv' = nv /\ bank' = bank /\ primary' = primary /\ pc' = pc
    BY <1>9 DEF EcuResetGuest, HealthConfirmed, EcuResetNode
  <2>2. \/ flash'[c] = flash[c] /\ flash[c] = NoFlash
        \/ /\ flash[c] # NoFlash /\ flash'[c].package = flash[c].package
           /\ flash'[c].state \in {"verifying", "activated"}
    BY <1>9, InStateType
    DEF EcuResetGuest, HealthConfirmed, EcuResetNode, NoFlash, Types, TypeOK, States
  <2>3. Open(c)' => Open(c)
    BY <2>2, <1>t, FlashIs DEF Open, TypesOf
  <2>4. Bootable(c)' /\ TrialOf(c)' /\ HandlerOf(c)'
    BY <1>n, <2>1 DEF Held, Bootable, TrialOf, HandlerOf
  <2>5. Idle(c)'
    BY <1>n, <2>1, <2>2 DEF Held, Idle
  <2>6. OpenOf(c)'
    BY <1>n, <2>1, <2>3 DEF Held, OpenOf
  <2>7. PackageOf(c)' /\ ScriptOf(c)' /\ TurnOf(c)'
    BY <1>n, <2>1, <2>2 DEF Held, PackageOf, ScriptOf, TurnOf, NoFlash
  <2> QED
    BY <2>1, <2>4, <2>5, <2>6, <2>7 DEF Held
<1> QED
  BY <1>1, <1>2, <1>3, <1>4, <1>5, <1>6, <1>7, <1>8, <1>9, <1>10 DEF Flash

\* ... and leave the other components alone.
LEMMA FlashAlone ==
    ASSUME Types, NEW c \in Components, Flash(c), NEW d \in Components, d # c,
           pending = Unstaged
    PROVE  Alone(d) /\ node' = node /\ verdict' = verdict /\ serving' = serving
<1> USE DEF disk
<1>1. node' = node /\ verdict' = verdict /\ serving' = serving /\ secondary' = secondary
  BY DEF Flash, StartFlash, Upload, Abort, Validate, Invalidate, Activate, Relabel,
         FinalizeInstall, FinalizeInstallFails, FinalizeActivate, FinalizeActivateFails,
         UndoInstall, UndoInstallFails, EcuResetGuest, HealthConfirmed, EcuResetNode
<1>2. nv'[d] = nv[d]
  BY DEF Flash, StartFlash, Upload, Abort, Validate, Invalidate, Activate, Relabel,
         FinalizeInstall, FinalizeInstallFails, FinalizeActivate, FinalizeActivateFails,
         UndoInstall, UndoInstallFails, EcuResetGuest, HealthConfirmed, EcuResetNode, Types, TypeOK
<1>3. bank'[d] = bank[d]
  BY DEF Flash, StartFlash, Upload, Abort, Validate, Invalidate, Activate, Relabel,
         FinalizeInstall, FinalizeInstallFails, FinalizeActivate, FinalizeActivateFails,
         UndoInstall, UndoInstallFails, EcuResetGuest, HealthConfirmed, EcuResetNode, Types, TypeOK
<1>4. primary'[d] = primary[d]
  BY DEF Flash, StartFlash, Upload, Abort, Validate, Invalidate, Activate, Relabel,
         FinalizeInstall, FinalizeInstallFails, FinalizeActivate, FinalizeActivateFails,
         UndoInstall, UndoInstallFails, EcuResetGuest, HealthConfirmed, EcuResetNode, Staged, Types,
         TypeOK, Vector
<1>5. flash'[d] = flash[d]
  BY DEF Flash, StartFlash, Upload, Abort, Validate, Invalidate, Activate, Relabel, InState,
         FinalizeInstall, FinalizeInstallFails, FinalizeActivate, FinalizeActivateFails,
         UndoInstall, UndoInstallFails, EcuResetGuest, HealthConfirmed, EcuResetNode, Types, TypeOK
<1>6. pc'[d] = pc[d]
  BY DEF Flash, StartFlash, Upload, Abort, Validate, Invalidate, Activate, Relabel,
         FinalizeInstall, FinalizeInstallFails, FinalizeActivate, FinalizeActivateFails,
         UndoInstall, UndoInstallFails, EcuResetGuest, HealthConfirmed, EcuResetNode, Types, TypeOK
<1> QED
  BY <1>1, <1>2, <1>3, <1>4, <1>5, <1>6 DEF Alone

\* What holds of the others goes on holding.
LEMMA FlashLeaves ==
    ASSUME Types, NEW c \in Components, Flash(c), NEW d \in Components, d # c, Held(d),
           pending = Unstaged
    PROVE  Held(d)'
BY FlashAlone, EasedSame, Frame

----------------------------------------------------------------------------
(* Verdicts.                                                               *)

\* Where a handler begins, it is the updated component's or the fan-out's.
LEMMA Begun ==
    ASSUME OnlyOrScripted, Types, NEW c \in Components, NEW k, Begin(c, k), Held(c)
    PROVE  /\ c \in Updated /\ pc[c] = "idle"
           /\ ~Only => Turn(c, k) /\ verdict'.kind = k /\ verdict'.at = {c}
           /\ \/ verdict' = [verdict EXCEPT !.todo = @ \ {c}, !.at = {c}] /\ verdict.kind = k
              \/ verdict' = verdict
           /\ verdict'.kind = verdict.kind
<1>1. Only \/ Scripted
  BY NodeKind
<1>2. verdict \in VerdictTypes
  BY DEF Types, TypeOK, VerdictTypes
<1>3. c \in Updated /\ pc[c] = "idle"
  BY DEF Begin, Turn, Held, Idle
<1>4. ~Only => /\ Turn(c, k) /\ verdict.kind = k
               /\ verdict' = [verdict EXCEPT !.todo = @ \ {c}, !.at = {c}]
  BY <1>1 DEF Begin, Scripted, Turn
<1>5. ~Only => verdict'.kind = k /\ verdict'.at = {c}
  BY <1>2, <1>4 DEF VerdictTypes
<1>6. \/ verdict' = [verdict EXCEPT !.todo = @ \ {c}, !.at = {c}] /\ verdict.kind = k
      \/ verdict' = verdict
  BY DEF Begin, Turn
<1>7. verdict'.kind = verdict.kind
  BY <1>2, <1>6 DEF VerdictTypes
<1> QED
  BY <1>3, <1>4, <1>5, <1>6, <1>7

\* Where a handler of c ends, c is at rest and the fan-out moved on.
LEMMA Ended ==
    ASSUME Types, NEW c \in Components, End(c), NEW d \in Components
    PROVE  /\ pc'[c] = "idle" /\ (d # c => pc'[d] = pc[d])
           /\ d \in verdict'.todo => d \in verdict.todo
           /\ d \in verdict'.todo /\ verdict'.kind = "rollback" => verdict.kind = "rollback"
           /\ verdict.at # {c} => verdict' = verdict
           /\ verdict'.kind \in {verdict.kind, "none"}
<1>1. verdict \in VerdictTypes
  BY DEF Types, TypeOK, VerdictTypes
<1>2. pc'[c] = "idle" /\ (d # c => pc'[d] = pc[d])
  BY DEF End, Types, TypeOK
<1>3. CASE verdict' = verdict
  BY <1>2, <1>3
<1>4. CASE verdict' = NoVerdict /\ verdict.at = {c}
  BY <1>2, <1>4 DEF NoVerdict
<1>5. CASE verdict' = [verdict EXCEPT !.todo = @ \ {c}, !.at = {}] /\ verdict.at = {c}
  BY <1>1, <1>2, <1>5 DEF VerdictTypes
<1> QED
  BY <1>3, <1>4, <1>5 DEF End, Without

\* The steps that touch one component only keep what holds of it.
LEMMA JudgeHolds ==
    ASSUME OnlyOrScripted, Types, Types', NEW c \in Components, Held(c), Trusted',
           \/ CommitNv(c) \/ CommitRefused(c) \/ RollbackRefused(c)
           \/ RollbackNv(c) \/ RollbackNvFails(c) \/ RollbackWipe(c)
    PROVE  Held(c)' /\ pending' = pending
<1> USE DEF disk
<1>n. node' = node /\ Updated' = Updated /\ Only' = Only /\ pending' = pending
      /\ serving' = serving /\ primary' = primary /\ secondary' = secondary
  BY DEF CommitNv, CommitRefused, RollbackRefused, RollbackNv, RollbackNvFails, RollbackWipe,
         Updated, Only
<1>t. TypesOf(c)
  BY TypesOfEach
<1>1. CASE CommitNv(c)
  <2>1. /\ bank' = bank /\ flash' = flash /\ pc'[c] = "commit_vector"
        /\ nv'[c].active = nv[c].active /\ nv'[c].committed
    BY <1>1 DEF CommitNv, Types, TypeOK
  <2>2. /\ c \in Updated /\ pc[c] = "idle"
        /\ ~Only => verdict'.kind = "commit" /\ verdict'.at = {c}
    BY <1>1, Begun DEF CommitNv
  <2>3. Bootable(c)' /\ Idle(c)' /\ TrialOf(c)' /\ PackageOf(c)' /\ HandlerOf(c)'
    BY <1>n, <2>1, <2>2 DEF Held, Bootable, Idle, TrialOf, PackageOf, HandlerOf
  <2>4. OpenOf(c)' /\ ScriptOf(c)'
    BY <1>n, <2>1, <2>2 DEF Held, OpenOf, Open, ScriptOf
  <2>5. TurnOf(c)'
    BY <1>n, <2>1, <2>2 DEF TurnOf
  <2> QED
    BY <1>n, <2>3, <2>4, <2>5 DEF Held
<1>2. CASE CommitRefused(c) \/ RollbackRefused(c)
  <2>1. Eased(c)
    BY <1>2, EasedWithout DEF CommitRefused, RollbackRefused, Turn
  <2>2. Alone(c)
    BY <1>2 DEF CommitRefused, RollbackRefused, Alone
  <2> QED
    BY <1>n, <2>1, <2>2, Frame
<1>3. CASE RollbackNv(c)
  <2>1. /\ bank' = bank /\ flash' = flash /\ pc'[c] = "wipe" /\ pc[c] = "rollback_nv"
        /\ nv'[c] = [active |-> Other(nv[c].active), committed |-> TRUE]
        /\ verdict' = verdict
    BY <1>3 DEF RollbackNv, RolledBack, Types, TypeOK
  <2>2. c \in Updated
    BY <2>1 DEF Held, Idle
  <2>3. /\ secondary[c].bank = Other(nv[c].active)
        /\ primary[c].bank = secondary[c].bank
    BY <2>1 DEF Held, HandlerOf
  <2>4. Bootable(c)' /\ Idle(c)' /\ TrialOf(c)' /\ PackageOf(c)' /\ HandlerOf(c)'
    BY <1>n, <2>1, <2>2, <2>3 DEF Held, Bootable, Idle, TrialOf, PackageOf, HandlerOf
  <2>5. OpenOf(c)' /\ ScriptOf(c)' /\ TurnOf(c)'
    BY <1>n, <2>1, <2>2, <2>3 DEF Held, OpenOf, Open, ScriptOf, TurnOf
  <2> QED
    BY <1>n, <2>4, <2>5 DEF Held
<1>4. CASE RollbackNvFails(c)
  <2>1. bank' = bank /\ flash' = flash /\ pc[c] = "rollback_nv" /\ nv' = nv
    BY <1>4 DEF RollbackNvFails
  <2>2. /\ pc'[c] = "idle" /\ (c \in verdict'.todo => c \in verdict.todo)
        /\ c \in verdict'.todo /\ verdict'.kind = "rollback" => verdict.kind = "rollback"
    BY <1>4, Ended DEF RollbackNvFails
  <2>3. Bootable(c)' /\ Idle(c)' /\ TrialOf(c)' /\ PackageOf(c)' /\ HandlerOf(c)'
    BY <1>n, <2>1, <2>2 DEF Held, Bootable, Idle, TrialOf, PackageOf, HandlerOf
  <2>4. OpenOf(c)' /\ ScriptOf(c)' /\ TurnOf(c)'
    BY <1>n, <2>1, <2>2 DEF Held, OpenOf, Open, ScriptOf, TurnOf
  <2> QED
    BY <1>n, <2>3, <2>4 DEF Held
<1>5. CASE RollbackWipe(c)
  <2>1. flash'[c] = NoFlash /\ pc[c] = "wipe" /\ nv' = nv
    BY <1>5 DEF RollbackWipe, Types, TypeOK
  <2>2. pc'[c] = "idle" /\ (c \in verdict'.todo => c \in verdict.todo)
    BY <1>5, Ended DEF RollbackWipe
  <2>3. /\ nv[c].committed /\ secondary[c].bank = nv[c].active
        /\ primary[c].bank = secondary[c].bank
    BY <2>1 DEF Held, HandlerOf
  <2>4. \A a \in Banks : a # Other(nv[c].active) => bank'[c][a] = bank[c][a]
    <3>1. Target(c) \in Banks /\ NoImage \in Image
      BY <1>t, OtherBank, BoundsAssumption DEF Target, TypesOf, Image, NoImage
    <3> QED
      BY <1>5, <3>1, BankWrite DEF RollbackWipe, Target
  <2>5. bank'[c][secondary[c].bank] = bank[c][secondary[c].bank]
    BY <2>3, <2>4, <1>t, OtherBank DEF TypesOf
  <2>6. Bootable(c)' /\ Idle(c)' /\ TrialOf(c)' /\ HandlerOf(c)'
    BY <1>n, <2>1, <2>2, <2>3, <2>5 DEF Held, Bootable, Idle, TrialOf, HandlerOf
  <2>7. PackageOf(c)' /\ OpenOf(c)' /\ ScriptOf(c)' /\ TurnOf(c)'
    BY <1>n, <2>1, <2>2, <2>3 DEF PackageOf, OpenOf, Open, ScriptOf, TurnOf, NoFlash
  <2> QED
    BY <1>n, <2>6, <2>7 DEF Held
<1> QED
  BY <1>1, <1>2, <1>3, <1>4, <1>5

\* ... and leave the others alone.
LEMMA JudgeAlone ==
    ASSUME Types, NEW c \in Components, NEW d \in Components, d # c,
           \/ CommitNv(c) \/ CommitRefused(c) \/ RollbackRefused(c)
           \/ RollbackNv(c) \/ RollbackNvFails(c) \/ RollbackWipe(c)
    PROVE  Alone(d) /\ Eased(d) /\ node' = node /\ serving' = serving
<1> USE DEF disk
<1>1. node' = node /\ serving' = serving /\ primary' = primary /\ secondary' = secondary
  BY DEF CommitNv, CommitRefused, RollbackRefused, RollbackNv, RollbackNvFails, RollbackWipe
<1>2. pc[d] # "commit_vector"
  BY DEF CommitNv, CommitRefused, RollbackRefused, RollbackNv, RollbackNvFails, RollbackWipe,
         NvFree
<1>3. nv'[d] = nv[d]
  BY DEF CommitNv, CommitRefused, RollbackRefused, RollbackNv, RollbackNvFails, RollbackWipe,
         Types, TypeOK
<1>4. bank'[d] = bank[d] /\ flash'[d] = flash[d]
  BY DEF CommitNv, CommitRefused, RollbackRefused, RollbackNv, RollbackNvFails, RollbackWipe,
         Types, TypeOK
<1>5. pc'[d] = pc[d]
  BY DEF CommitNv, CommitRefused, RollbackRefused, RollbackNv, RollbackNvFails, RollbackWipe,
         End, Types, TypeOK
<1>6. \/ verdict' = Without(c)
      \/ verdict' = [verdict EXCEPT !.todo = @ \ {c}, !.at = {c}]
      \/ verdict' = verdict
  BY DEF CommitNv, CommitRefused, RollbackRefused, RollbackNv, RollbackNvFails, RollbackWipe,
         Begin, End
<1>7. Eased(d)
  BY <1>2, <1>6, EasedWithout
<1> QED
  BY <1>1, <1>3, <1>4, <1>5, <1>7 DEF Alone

\* What holds of the others goes on holding.
LEMMA JudgeLeaves ==
    ASSUME Types, NEW c \in Components, NEW d \in Components, d # c, Held(d),
           \/ CommitNv(c) \/ CommitRefused(c) \/ RollbackRefused(c)
           \/ RollbackNv(c) \/ RollbackNvFails(c) \/ RollbackWipe(c)
    PROVE  Held(d)'
BY JudgeAlone, Frame

\* The vector's commit: the floor becomes what boots, of every component.
LEMMA CommitHolds ==
    ASSUME OnlyOrScripted, Types, NEW c \in Components, CommitVector(c), Held(c),
           NEW d \in Components, Held(d)
    PROVE  Held(d)'
<1>n. node' = node /\ Updated' = Updated /\ Only' = Only /\ serving' = serving
      /\ nv' = nv /\ bank' = bank /\ primary' = primary /\ secondary' = primary
      /\ pc[c] = "commit_vector"
  BY DEF CommitVector, Updated, Only
<1>1. c \in Updated /\ nv[c].committed
  BY <1>n DEF Held, Idle, HandlerOf
<1>2. ~Only => verdict.kind = "commit" /\ verdict.at = {c}
  BY <1>n DEF Held, ScriptOf
<1>3. /\ pc'[c] = "idle" /\ (d # c => pc'[d] = pc[d])
      /\ d \in verdict'.todo => d \in verdict.todo
      /\ verdict'.kind \in {verdict.kind, "none"}
  BY Ended DEF CommitVector
<1>4. flash'[c] = NoFlash /\ (d # c => flash'[d] = flash[d])
  BY DEF CommitVector, Types, TypeOK
<1>5. Bootable(d)' /\ Idle(d)'
  BY <1>n, <1>1, <1>3, <1>4 DEF Held, Bootable, Idle
<1>6. CASE d = c
  <2>1. TrialOf(d)' /\ HandlerOf(d)'
    BY <1>n, <1>1, <1>3, <1>6 DEF TrialOf, HandlerOf
  <2>2. PackageOf(d)' /\ OpenOf(d)' /\ ScriptOf(d)' /\ TurnOf(d)'
    BY <1>n, <1>1, <1>3, <1>4, <1>6 DEF PackageOf, OpenOf, Open, ScriptOf, TurnOf, NoFlash
  <2> QED
    BY <1>5, <2>1, <2>2 DEF Held
<1>7. CASE d # c
  <2>1. Only => /\ d \notin Updated /\ nv[d].committed /\ flash[d] = NoFlash
                /\ d \notin verdict.todo
    BY <1>1, <1>7, OthersIdle DEF Held, Idle
  <2>2. TrialOf(d)'
    BY <1>n, <2>1 DEF TrialOf
  <2>3. HandlerOf(d)' /\ OpenOf(d)'
    BY <1>n, <1>3, <1>4, <1>7 DEF Held, HandlerOf, OpenOf, Open
  <2>4. PackageOf(d)'
    BY <1>n, <1>3, <1>4, <1>7, <2>1 DEF PackageOf, NoFlash
  <2>5. ScriptOf(d)'
    BY <1>n, <1>2, <1>3, <1>4, <1>7 DEF Held, ScriptOf
  <2>6. TurnOf(d)'
    BY <1>n, <1>2, <1>3, <2>1 DEF TurnOf
  <2> QED
    BY <1>5, <2>2, <2>3, <2>4, <2>5, <2>6 DEF Held
<1> QED
  BY <1>6, <1>7

\* The vector's rollback: the floor boots, of every component.
LEMMA RollbackHolds ==
    ASSUME OnlyOrScripted, Types, NEW c \in Components, RollbackVector(c), Held(c),
           NEW d \in Components, Held(d)
    PROVE  Held(d)'
<1>n. node' = node /\ Updated' = Updated /\ Only' = Only /\ serving' = serving
      /\ nv' = nv /\ bank' = bank /\ primary' = secondary /\ secondary' = secondary
      /\ flash' = flash /\ ~nv[c].committed /\ pc[d] # "commit_vector"
  BY DEF RollbackVector, Updated, Only, NvFree
<1>t. TypesOf(c)
  BY TypesOfEach
<1>1. /\ c \in Updated /\ pc[c] = "idle" /\ verdict'.kind = verdict.kind
      /\ ~Only => Turn(c, "rollback")
      /\ \/ verdict' = [verdict EXCEPT !.todo = @ \ {c}, !.at = {c}]
         \/ verdict' = verdict
  BY Begun DEF RollbackVector
<1>2. pc'[c] = "rollback_nv" /\ (d # c => pc'[d] = pc[d])
  BY DEF RollbackVector, Types, TypeOK
<1>3. d \in verdict'.todo => d \in verdict.todo
  BY <1>1, <1>n, EasedWithout DEF Eased
<1>4. secondary[c].bank = Other(nv[c].active)
  <2>1. CASE Only
    BY <1>n, <1>t, <2>1, OtherBank DEF Held, TrialOf, TypesOf
  <2>2. CASE ~Only
    BY <1>1, <1>n, <2>2 DEF Turn, Held, TurnOf
  <2> QED
    BY <2>1, <2>2
<1>5. Bootable(d)' /\ OpenOf(d)'
  BY <1>n DEF Held, Bootable, OpenOf, Open
<1>6. TrialOf(d)' /\ TurnOf(d)'
  BY <1>n, <1>1, <1>3 DEF Held, TrialOf, TurnOf
<1>7. CASE d = c
  <2>1. Idle(d)' /\ PackageOf(d)' /\ HandlerOf(d)'
    BY <1>n, <1>1, <1>2, <1>4, <1>7 DEF Idle, PackageOf, HandlerOf
  <2>2. ScriptOf(d)'
    BY <1>n, <1>2, <1>7 DEF Held, ScriptOf
  <2> QED
    BY <1>5, <1>6, <2>1, <2>2 DEF Held
<1>8. CASE d # c
  <2>1. Idle(d)'
    BY <1>n, <1>2, <1>3, <1>8 DEF Held, Idle
  <2>2. PackageOf(d)' /\ HandlerOf(d)'
    BY <1>n, <1>2, <1>8 DEF Held, PackageOf, HandlerOf
  <2>3. ScriptOf(d)'
    BY <1>n, <1>2, <1>8 DEF Held, ScriptOf
  <2> QED
    BY <1>5, <1>6, <2>1, <2>2, <2>3 DEF Held
<1> QED
  BY <1>7, <1>8

----------------------------------------------------------------------------
(* The node's steps.                                                       *)

\* Copies that differ name different banks, as both are bootable.
LEMMA TrialBanks ==
    ASSUME Types, NEW d \in Components, Held(d), InTrial(d)
    PROVE  primary[d].bank # secondary[d].bank
<1>1. TypesOf(d)
  BY TypesOfEach
<1>2. primary[d].bank = secondary[d].bank => primary[d].img = secondary[d].img
  BY DEF Held, Bootable
<1>3. /\ primary[d] = [bank |-> primary[d].bank, img |-> primary[d].img]
      /\ secondary[d] = [bank |-> secondary[d].bank, img |-> secondary[d].img]
  BY <1>1 DEF TypesOf
<1> QED
  BY <1>2, <1>3 DEF InTrial

\* A component in trial whose NV is uncommitted has its floor in the other bank.
LEMMA TrialFloor ==
    ASSUME Types, NEW d \in Components, Held(d), InTrial(d), ~nv[d].committed
    PROVE  secondary[d].bank = Other(nv[d].active)
<1>1. TypesOf(d) /\ primary[d].bank # secondary[d].bank
  BY TypesOfEach, TrialBanks
<1>2. secondary[d].bank # nv[d].active
  BY <1>1 DEF Held, TrialOf
<1> QED
  BY <1>1, <1>2, OtherBank DEF TypesOf

\* A node verdict.
LEMMA NodeVerdictHolds ==
    ASSUME Types, NEW k \in {"commit", "rollback"}, NodeVerdict(k), NEW d \in Components, Held(d)
    PROVE  Held(d)'
<1> USE DEF disk
<1>n. node' = node /\ Updated' = Updated /\ Only' = Only /\ serving' = serving
      /\ nv' = nv /\ bank' = bank /\ primary' = primary /\ secondary' = secondary
      /\ flash' = flash /\ pc' = pc /\ pc[d] # "commit_vector"
  BY DEF NodeVerdict, Updated, Only, NvFree
<1>1. verdict'.todo = Candidates
  BY DEF NodeVerdict
<1>2. d \in verdict'.todo =>
        InTrial(d) /\ (flash[d].state = "activated" \/ flash[d] = NoFlash)
  BY <1>1 DEF Candidates, TrialSet
<1>3. TurnOf(d)'
  BY <1>n, <1>2, TrialFloor DEF TurnOf, NoFlash
<1>4. Idle(d)'
  BY <1>n, <1>2 DEF Held, Idle, InTrial
<1>5. Bootable(d)' /\ TrialOf(d)' /\ OpenOf(d)' /\ PackageOf(d)' /\ HandlerOf(d)'
  BY <1>n DEF Held, Bootable, TrialOf, OpenOf, Open, PackageOf, HandlerOf
<1>6. ScriptOf(d)'
  BY <1>n DEF Held, ScriptOf
<1> QED
  BY <1>3, <1>4, <1>5, <1>6 DEF Held

\* The boot limit, reached before the process serves.
LEMMA BailOutHolds ==
    ASSUME Types, BailOut, NEW d \in Components, Held(d)
    PROVE  Held(d)'
<1>n. node' = node /\ Updated' = Updated /\ Only' = Only /\ serving' = serving
      /\ nv' = nv /\ bank' = bank /\ primary' = secondary /\ secondary' = secondary
      /\ flash' = flash /\ pc' = pc /\ pc[d] = "idle" /\ ~serving
  BY DEF BailOut, Updated, Only, Quiet
<1>1. d \in verdict'.todo => InTrial(d)
  BY DEF BailOut, TrialSet
<1>2. TurnOf(d)'
  BY <1>n, <1>1, TrialFloor DEF TurnOf, Held, ScriptOf, NoFlash
<1>3. Idle(d)'
  BY <1>n, <1>1 DEF Held, Idle, InTrial
<1>4. Bootable(d)' /\ TrialOf(d)' /\ OpenOf(d)' /\ PackageOf(d)' /\ HandlerOf(d)'
  BY <1>n DEF Held, Bootable, TrialOf, OpenOf, Open, PackageOf, HandlerOf
<1>5. ScriptOf(d)'
  BY <1>n DEF Held, ScriptOf
<1> QED
  BY <1>2, <1>3, <1>4, <1>5 DEF Held

\* A restart, the boot stage restoring the floor or not.
LEMMA RestartHolds ==
    ASSUME Types, NEW n \in BOOLEAN, Restart(n), NEW d \in Components, Held(d)
    PROVE  Held(d)'
<1>n. node' = node /\ Updated' = Updated /\ Only' = Only /\ nv' = nv /\ bank' = bank
      /\ secondary' = secondary /\ flash'[d] = NoFlash /\ pc'[d] = "idle"
      /\ (primary' = primary \/ primary' = secondary)
  BY DEF Restart, BootStage, Updated, Only
<1>1. d \notin verdict'.todo
  BY DEF Restart, NoVerdict
<1>2. Bootable(d)' /\ Idle(d)' /\ TrialOf(d)'
  BY <1>n, <1>1 DEF Held, Bootable, Idle, TrialOf
<1>3. OpenOf(d)' /\ PackageOf(d)' /\ ScriptOf(d)' /\ HandlerOf(d)' /\ TurnOf(d)'
  BY <1>n, <1>1 DEF OpenOf, Open, PackageOf, ScriptOf, HandlerOf, TurnOf, NoFlash
<1> QED
  BY <1>2, <1>3 DEF Held

\* The process begins to serve.
LEMMA ServeHolds ==
    ASSUME Types, Serve, NEW d \in Components, Held(d)
    PROVE  Held(d)'
<1>1. Alone(d) /\ node' = node /\ serving' = TRUE /\ verdict' = verdict
  BY DEF Serve, Alone, disk
<1>2. Eased(d)
  BY <1>1, EasedSame
<1> QED
  BY <1>1, <1>2, Frame

----------------------------------------------------------------------------
(* The theorem.                                                            *)

\* A provisioned node boots the factory image from bank A.
LEMMA InitHeld == Init => HeldInv
<1> SUFFICES ASSUME Init, NEW c \in Components
             PROVE  Held(c)
  BY DEF HeldInv, Init
<1>1. /\ nv[c] = [active |-> "A", committed |-> TRUE]
      /\ primary[c] = [bank |-> "A", img |-> 1] /\ secondary[c] = primary[c]
      /\ flash[c] = NoFlash /\ pc[c] = "idle" /\ c \notin verdict.todo
      /\ bank[c]["A"] = 1 /\ serving
  BY DEF Init, NoVerdict, Banks
<1>2. Bootable(c) /\ Idle(c) /\ TrialOf(c) /\ HandlerOf(c)
  BY <1>1 DEF Bootable, Idle, TrialOf, HandlerOf
<1>3. OpenOf(c) /\ PackageOf(c) /\ ScriptOf(c) /\ TurnOf(c)
  BY <1>1 DEF OpenOf, Open, PackageOf, ScriptOf, TurnOf, NoFlash
<1> QED
  BY <1>1, <1>2, <1>3 DEF Held

\* A fault seen stays seen.
LEMMA SeenGrows ==
    ASSUME Types, [Next]_vars
    PROVE  faults.seen \subseteq faults'.seen
<1>1. CASE UNCHANGED vars
  BY <1>1 DEF vars
<1>2. CASE \E c \in Components : Flash(c)
  BY <1>2
  DEF Flash, StartFlash, Upload, Abort, Validate, Invalidate, Activate, Relabel,
      FinalizeInstall, FinalizeInstallFails, FinalizeActivate, FinalizeActivateFails,
      UndoInstall, UndoInstallFails, EcuResetGuest, HealthConfirmed, EcuResetNode, Fault
<1>3. CASE \E c \in Components : Judge(c)
  BY <1>3
  DEF Judge, CommitNv, CommitRefused, CommitVector, CommitVectorFails, RollbackVector,
      RollbackRefused, RollbackNv, RollbackNvFails, RollbackWipe, Fault
<1>4. CASE Reset \/ Die
  <2>1. faults \in [n : 0 .. MaxFaults, seen : SUBSET Faults]
    BY DEF Types, TypeOK
  <2>2. CASE Reset
    BY <2>1, <2>2 DEF Reset
  <2>3. CASE Die
    BY <2>3 DEF Die
  <2> QED
    BY <1>4, <2>2, <2>3
<1>5. CASE \/ \E kind \in {"commit", "rollback"} : NodeVerdict(kind)
           \/ Serve \/ BailOut
  BY <1>5 DEF NodeVerdict, Serve, BailOut
<1> QED
  BY <1>1, <1>2, <1>3, <1>4, <1>5 DEF Next

\* So what holds while a fault has not been seen held before.
LEMMA FaultsSeen ==
    ASSUME Types, [Next]_vars
    PROVE  Trusted' => Trusted
BY SeenGrows DEF Trusted, Saw

\* Every step keeps the invariant: of the component whose step it is, and of
\* the others.
LEMMA NextHeld ==
    ASSUME OnlyOrScripted, Types, Types', HeldInv, [Next]_vars
    PROVE  HeldInv'
<1> SUFFICES ASSUME Trusted'
             PROVE  pending' = Unstaged /\ \A d \in Components : Held(d)'
  BY DEF HeldInv
<1>1. pending = Unstaged /\ \A d \in Components : Held(d)
  BY FaultsSeen DEF HeldInv
<1>2. CASE UNCHANGED vars
  <2>1. pending' = Unstaged
    BY <1>1, <1>2 DEF vars
  <2>2. ASSUME NEW d \in Components PROVE Held(d)'
    <3>1. Alone(d) /\ node' = node /\ serving' = serving /\ verdict' = verdict
      BY <1>2 DEF vars, Alone
    <3>2. Eased(d)
      BY <1>1, <3>1, EasedSame
    <3> QED
      BY <1>1, <3>1, <3>2, Frame
  <2> QED
    BY <2>1, <2>2
<1>3. ASSUME NEW c \in Components, Flash(c)
      PROVE  pending' = Unstaged /\ \A d \in Components : Held(d)'
  <2>1. Held(c)' /\ pending' = Unstaged
    BY <1>1, <1>3, FlashHolds
  <2>2. ASSUME NEW d \in Components, d # c PROVE Held(d)'
    BY <1>1, <1>3, <2>2, FlashLeaves
  <2> QED
    BY <2>1, <2>2
<1>4. ASSUME NEW c \in Components, Judge(c)
      PROVE  pending' = Unstaged /\ \A d \in Components : Held(d)'
  <2>1. CASE \/ CommitNv(c) \/ CommitRefused(c) \/ RollbackRefused(c)
             \/ RollbackNv(c) \/ RollbackNvFails(c) \/ RollbackWipe(c)
    <3>1. Held(c)' /\ pending' = Unstaged
      BY <1>1, <2>1, JudgeHolds
    <3>2. ASSUME NEW d \in Components, d # c PROVE Held(d)'
      BY <1>1, <2>1, <3>2, JudgeLeaves
    <3> QED
      BY <3>1, <3>2
  <2>2. CASE CommitVector(c)
    <3>1. pending' = Unstaged
      BY <1>1, <2>2 DEF CommitVector
    <3> QED
      BY <1>1, <2>2, <3>1, CommitHolds
  <2>3. CASE CommitVectorFails(c)
    BY <2>3 DEF CommitVectorFails, Fault, Trusted, Saw
  <2>4. CASE RollbackVector(c)
    <3>1. pending' = Unstaged
      BY <2>4 DEF RollbackVector
    <3> QED
      BY <1>1, <2>4, <3>1, RollbackHolds
  <2> QED
    BY <1>4, <2>1, <2>2, <2>3, <2>4 DEF Judge
<1>5. ASSUME NEW k \in {"commit", "rollback"}, NodeVerdict(k)
      PROVE  pending' = Unstaged /\ \A d \in Components : Held(d)'
  <2>1. pending' = Unstaged
    BY <1>1, <1>5 DEF NodeVerdict
  <2> QED
    BY <1>1, <1>5, <2>1, NodeVerdictHolds
<1>6. ASSUME NEW n \in BOOLEAN, Restart(n)
      PROVE  pending' = Unstaged /\ \A d \in Components : Held(d)'
  <2>1. pending' = Unstaged
    BY <1>6 DEF Restart
  <2> QED
    BY <1>1, <1>6, <2>1, RestartHolds
<1>7. CASE Serve
  <2>1. pending' = Unstaged
    BY <1>1, <1>7 DEF Serve
  <2> QED
    BY <1>1, <1>7, <2>1, ServeHolds
<1>8. CASE BailOut
  <2>1. pending' = Unstaged
    BY <1>1, <1>8 DEF BailOut
  <2> QED
    BY <1>1, <1>8, <2>1, BailOutHolds
<1>9. Reset \/ Die => \E n \in BOOLEAN : Restart(n)
  BY DEF Reset, Die
<1> QED
  BY <1>2, <1>3, <1>4, <1>5, <1>6, <1>7, <1>8, <1>9 DEF Next

\* The inductive invariant.
LEMMA HeldHolds ==
    ASSUME OnlyOrScripted
    PROVE  Spec => []HeldInv
<1>1. Types /\ Types' /\ HeldInv /\ [Next]_vars => HeldInv'
  BY NextHeld
<1> QED
  BY <1>1, InitHeld, TypesHold, PTL DEF Spec

\* What the node boots and what it falls back to is on disk.  The uploads of
\* backend.rs overwrite, and its rollback_flash wipes, only banks that neither
\* copy of the boot vector names, whatever else fails, dies or is restored by
\* the boot stage in between, on every node that updates one component, by any
\* requests, or several by campaigns.
THEOREM VectorStaysBootable ==
    ASSUME OnlyOrScripted
    PROVE  Spec => []VectorBootable
<1>1. HeldInv => VectorBootable
  BY DEF HeldInv, VectorBootable, Trusted, Held, Bootable
<1> QED
  BY <1>1, HeldHolds, PTL

----------------------------------------------------------------------------
(* Transfers and trials.                                                   *)

\* The kind of node never changes.
LEMMA NodeKept == [Next]_vars => node' = node
BY DEF Next, vars, Flash, StartFlash, Upload, Abort, Validate, Invalidate, Activate, Relabel,
       FinalizeInstall, FinalizeInstallFails, FinalizeActivate, FinalizeActivateFails,
       UndoInstall, UndoInstallFails, EcuResetGuest, HealthConfirmed, EcuResetNode, Judge, CommitNv,
       CommitRefused, CommitVector, CommitVectorFails, RollbackVector, RollbackRefused,
       RollbackNv, RollbackNvFails, RollbackWipe, NodeVerdict, Reset, Die, Restart, Serve,
       BailOut

\* A transfer that finalize has not seen is of a component out of trial.
FreshOf(c) ==
    ~Refinalized =>
        /\ flash[c].state # "validated"
        /\ flash[c].state \in {"transferring", "staged"} => ~InTrial(c)

FreshInv == Trusted => \A c \in Components : FreshOf(c)

\* Verdicts and the node's steps begin no trial and no transfer.
LEMMA TrialsEnd ==
    ASSUME Types, NEW d \in Components,
           \/ \E c \in Components : Judge(c)
           \/ \E k \in {"commit", "rollback"} : NodeVerdict(k)
           \/ Serve \/ BailOut \/ UNCHANGED vars
    PROVE  (InTrial(d)' => InTrial(d)) /\ flash'[d] \in {flash[d], NoFlash}
<1> USE DEF disk
<1>1. CASE \E c \in Components : Judge(c)
  <2>1. InTrial(d)' => InTrial(d)
    BY <1>1 DEF InTrial, Judge, CommitNv, CommitRefused, CommitVector, CommitVectorFails,
                RollbackVector, RollbackRefused, RollbackNv, RollbackNvFails, RollbackWipe
  <2>2. flash'[d] \in {flash[d], NoFlash}
    BY <1>1 DEF Judge, CommitNv, CommitRefused, CommitVector, CommitVectorFails,
                RollbackVector, RollbackRefused, RollbackNv, RollbackNvFails, RollbackWipe,
                Types, TypeOK
  <2> QED
    BY <2>1, <2>2
<1>2. CASE \E k \in {"commit", "rollback"} : NodeVerdict(k)
  BY <1>2 DEF NodeVerdict, InTrial
<1>3. CASE Serve \/ BailOut \/ UNCHANGED vars
  BY <1>3 DEF Serve, BailOut, InTrial, vars
<1> QED
  BY <1>1, <1>2, <1>3

\* The component that is flashed.
LEMMA FlashFresh ==
    ASSUME Types, NEW c \in Components, Flash(c), Held(c), FreshOf(c), pending = Unstaged
    PROVE  FreshOf(c)'
<1> USE DEF disk
<1>n. node' = node /\ secondary' = secondary
  BY DEF Flash, StartFlash, Upload, Abort, Validate, Invalidate, Activate, Relabel,
         FinalizeInstall, FinalizeInstallFails, FinalizeActivate, FinalizeActivateFails,
         UndoInstall, UndoInstallFails, EcuResetGuest, HealthConfirmed, EcuResetNode
<1>o. Refinalized' <=> Refinalized
  BY <1>n DEF Refinalized, Requests
<1>1. CASE StartFlash(c)
  <2>1. flash'[c].state = "transferring" /\ ~InTrial(c)'
    BY <1>1 DEF StartFlash, FlashCanStart, InTrial, Types, TypeOK
  <2> QED
    BY <2>1 DEF FreshOf
<1>2. CASE Upload(c)
  <2>1. flash'[c].state = "staged" /\ Open(c)
    BY <1>2 DEF Upload, Open, Types, TypeOK
  <2>2. ~InTrial(c)
    BY <2>1, TrialBanks DEF Held, OpenOf
  <2>3. ~InTrial(c)'
    BY <1>2, <2>2 DEF Upload, InTrial
  <2> QED
    BY <2>1, <2>3 DEF FreshOf
<1>3. CASE Abort(c)
  <2>1. flash'[c].state = "none"
    BY <1>3 DEF Abort, NoFlash, Types, TypeOK
  <2> QED
    BY <2>1 DEF FreshOf
<1>4. CASE Validate(c) \/ Invalidate(c) \/ Activate(c)
  <2>1. Refinalized
    BY <1>4 DEF Validate, Invalidate, Activate, Relabel, Refinalized
  <2> QED
    BY <1>o, <2>1 DEF FreshOf
<1>5. CASE FinalizeInstall(c) \/ FinalizeInstallFails(c) \/ FinalizeActivateFails(c)
           \/ UndoInstall(c) \/ UndoInstallFails(c)
  <2>1. flash' = flash /\ primary' = primary
    BY <1>5 DEF FinalizeInstall, FinalizeInstallFails, FinalizeActivateFails, UndoInstall,
                UndoInstallFails
  <2> QED
    BY <1>n, <1>o, <2>1 DEF FreshOf, InTrial
<1>6. CASE FinalizeActivate(c)
  <2>1. flash'[c].state \in {"none", "awaiting_reboot"}
    BY <1>6, InStateType DEF FinalizeActivate, Types, TypeOK, States, NoFlash
  <2> QED
    BY <2>1 DEF FreshOf
<1>7. CASE EcuResetGuest(c) \/ HealthConfirmed(c) \/ EcuResetNode(c)
  <2>1. flash'[c].state \in {"none", "verifying", "activated"}
    BY <1>7, InStateType
    DEF EcuResetGuest, HealthConfirmed, EcuResetNode, NoFlash, Types, TypeOK, States
  <2> QED
    BY <2>1 DEF FreshOf
<1> QED
  BY <1>1, <1>2, <1>3, <1>4, <1>5, <1>6, <1>7 DEF Flash

\* Every step keeps it, of every component.
LEMMA NextFresh ==
    ASSUME Types, HeldInv, FreshInv, [Next]_vars
    PROVE  FreshInv'
<1> SUFFICES ASSUME Trusted', NEW d \in Components
             PROVE  FreshOf(d)'
  BY DEF FreshInv
<1>1. Held(d) /\ FreshOf(d) /\ pending = Unstaged
  BY FaultsSeen DEF HeldInv, FreshInv
<1>2. Refinalized' <=> Refinalized
  BY NodeKept DEF Refinalized, Requests
<1>3. ASSUME NEW c \in Components, Flash(c) PROVE FreshOf(d)'
  <2>1. CASE c = d
    BY <1>1, <1>3, <2>1, FlashFresh
  <2>2. CASE c # d
    <3>1. Alone(d)
      BY <1>1, <1>3, <2>2, FlashAlone
    <3> QED
      BY <1>1, <1>2, <3>1 DEF FreshOf, Alone, InTrial
  <2> QED
    BY <2>1, <2>2
<1>4. CASE \/ \E c \in Components : Judge(c)
           \/ \E k \in {"commit", "rollback"} : NodeVerdict(k)
           \/ Serve \/ BailOut \/ UNCHANGED vars
  <2>1. (InTrial(d)' => InTrial(d)) /\ flash'[d] \in {flash[d], NoFlash}
    BY <1>4, TrialsEnd
  <2> QED
    BY <1>1, <1>2, <2>1 DEF FreshOf, NoFlash
<1>5. CASE Reset \/ Die
  <2>1. flash'[d] = NoFlash
    BY <1>5 DEF Reset, Die, Restart
  <2> QED
    BY <2>1 DEF FreshOf, NoFlash
<1> QED
  BY <1>3, <1>4, <1>5 DEF Next

\* The transfers' invariant.
LEMMA FreshHolds ==
    ASSUME OnlyOrScripted
    PROVE  Spec => []FreshInv
<1>1. Init => FreshInv
  BY DEF Init, FreshInv, FreshOf, NoFlash
<1>2. Types /\ HeldInv /\ FreshInv /\ [Next]_vars => FreshInv'
  BY NextFresh
<1> QED
  BY <1>1, <1>2, TypesHold, HeldHolds, PTL DEF Spec

----------------------------------------------------------------------------
(* The fan-out of a verdict.                                               *)

\* Without a verdict nothing is left to do and nobody is at it.
VerdictInv == verdict.kind = "none" => verdict = NoVerdict

\* The fan-out goes on with the others.
LEMMA WithoutKeeps ==
    ASSUME Types, NEW c \in Components, NEW d \in Components, d # c, d \in verdict.todo
    PROVE  /\ Without(c).kind = verdict.kind /\ d \in Without(c).todo /\ Without(c).at = {}
           /\ Without(c).todo \subseteq verdict.todo
<1>1. verdict \in VerdictTypes
  BY DEF Types, TypeOK, VerdictTypes
<1>2. Without(c) = [verdict EXCEPT !.todo = @ \ {c}, !.at = {}]
  BY DEF Without
<1> QED
  BY <1>1, <1>2 DEF VerdictTypes

\* What is left of it.
LEMMA WithoutLeft ==
    ASSUME Types, NEW c \in Components
    PROVE  /\ Without(c).at = {} /\ Without(c).todo \subseteq verdict.todo
           /\ Without(c).kind \in {verdict.kind, "none"}
           /\ Without(c).kind = "none" /\ verdict.kind # "none" => Without(c) = NoVerdict
<1>1. verdict \in VerdictTypes
  BY DEF Types, TypeOK, VerdictTypes
<1>2. CASE Without(c) = NoVerdict
  BY <1>2 DEF NoVerdict
<1>3. CASE Without(c) = [verdict EXCEPT !.todo = @ \ {c}, !.at = {}]
  BY <1>1, <1>3 DEF VerdictTypes
<1> QED
  BY <1>2, <1>3 DEF Without

\* A component's turn.
LEMMA TurnTaken ==
    ASSUME Types, NEW c \in Components,
           verdict' = [verdict EXCEPT !.todo = @ \ {c}, !.at = {c}]
    PROVE  verdict'.kind = verdict.kind /\ verdict'.at = {c} /\ verdict'.todo = verdict.todo \ {c}
<1>1. verdict \in VerdictTypes
  BY DEF Types, TypeOK, VerdictTypes
<1> QED
  BY <1>1 DEF VerdictTypes

\* Nothing is left to do, and nobody is at it, where there is no verdict.
LEMMA VerdictGone ==
    ASSUME Types, [Next]_vars, VerdictInv
    PROVE  VerdictInv'
<1> USE DEF VerdictInv
<1>1. CASE verdict' = verdict
  BY <1>1
<1>2. ASSUME NEW c \in Components, Judge(c)
      PROVE  VerdictInv'
  <2>1. \/ verdict' = Without(c) /\ verdict.kind # "none"
        \/ verdict' = [verdict EXCEPT !.todo = @ \ {c}, !.at = {c}] /\ verdict.kind # "none"
        \/ verdict' = verdict
    <3>1. \A k \in {"commit", "rollback"} : Begin(c, k) =>
            \/ verdict' = [verdict EXCEPT !.todo = @ \ {c}, !.at = {c}] /\ verdict.kind # "none"
            \/ verdict' = verdict
      BY DEF Begin, Turn
    <3>2. End(c) => \/ verdict' = Without(c) /\ verdict.kind # "none"
                    \/ verdict' = verdict
      BY DEF End, NoVerdict
    <3> QED
      BY <1>2, <3>1, <3>2
      DEF Judge, CommitNv, CommitRefused, CommitVector, CommitVectorFails, RollbackVector,
          RollbackRefused, RollbackNv, RollbackNvFails, RollbackWipe, Turn
  <2>2. CASE verdict' = Without(c) /\ verdict.kind # "none"
    BY <2>2, WithoutLeft
  <2>3. CASE verdict' = [verdict EXCEPT !.todo = @ \ {c}, !.at = {c}] /\ verdict.kind # "none"
    BY <2>3, TurnTaken
  <2> QED
    BY <2>1, <2>2, <2>3
<1>3. CASE \/ \E kind \in {"commit", "rollback"} : NodeVerdict(kind)
           \/ Reset \/ Die \/ BailOut
  <2>1. CASE \E kind \in {"commit", "rollback"} : NodeVerdict(kind)
    BY <2>1 DEF NodeVerdict
  <2>2. CASE Reset \/ Die
    BY <2>2 DEF Reset, Die, Restart
  <2>3. CASE BailOut
    BY <2>3 DEF BailOut
  <2> QED
    BY <1>3, <2>1, <2>2, <2>3
<1>4. ASSUME NEW c \in Components, Flash(c) PROVE verdict' = verdict
  BY <1>4
  DEF Flash, StartFlash, Upload, Abort, Validate, Invalidate, Activate, Relabel,
      FinalizeInstall, FinalizeInstallFails, FinalizeActivate, FinalizeActivateFails,
      UndoInstall, UndoInstallFails, EcuResetGuest, HealthConfirmed, EcuResetNode
<1>5. Serve \/ UNCHANGED vars => verdict' = verdict
  BY DEF Serve, vars
<1> QED
  BY <1>1, <1>2, <1>3, <1>4, <1>5 DEF Next

----------------------------------------------------------------------------
(* Campaigns over several components.                                      *)

\* Every kind of node updates one component at most, or several by campaigns.
OnlyOrCampaign ==
    \A n \in Nodes : \/ \A c, d \in n.updated : c = d
                     \/ n.requests \subseteq {"overlap"}

\* A campaign is scripted.
LEMMA CampaignScripted == OnlyOrCampaign => OnlyOrScripted
BY DEF OnlyOrCampaign, OnlyOrScripted

\* Several updated components are more than one.
LEMMA Several ==
    ASSUME Types, ~Only
    PROVE  Cardinality(Updated) > 1
<1>1. PICK c \in Updated, d \in Updated : c # d
  BY DEF Only
<1>2. IsFiniteSet(Updated)
  BY NodeFields, ComponentsAssumption, FS_Subset DEF Types
<1>3. IsFiniteSet({c}) /\ Cardinality({c}) = 1
  BY FS_Singleton
<1>4. IsFiniteSet({c} \cup {d}) /\ Cardinality({c} \cup {d}) = 2
  BY <1>1, <1>3, FS_AddElement
<1>5. Cardinality({c} \cup {d}) <= Cardinality(Updated) /\ Cardinality(Updated) \in Nat
  BY <1>1, <1>2, FS_Subset, FS_CardinalityType
<1> QED
  BY <1>4, <1>5

\* Several components and campaigns only; the boot vector is trusted and no death
\* in finalize has lost the transfers of the others.
Orderly == ~Only /\ Requests = {} /\ ~Saw({"seal", "commit_vector", "die_finalize"})

\* A trial the node rebooted into, or a verdict being fanned out.
Judging == verdict.kind # "none" \/ \E d \in Components : InTrial(d) /\ rebooted

\* A trial before the reset keeps its transfer; after it, and while a verdict is
\* fanned out, there are no transfers, and what a commit finds in trial runs.
OrderlyOf(c) ==
    /\ flash[c].state \in {"none", "transferring", "staged", "awaiting_reboot"}
    /\ InTrial(c) /\ ~rebooted => flash[c].state = "awaiting_reboot"
    /\ InTrial(c) /\ rebooted => fresh = {}
    /\ Judging => flash[c] = NoFlash /\ pc[c] \notin {"activate", "undo_install"}
    /\ InTrial(c) /\ verdict.kind = "commit" => running[c] = primary[c].bank
    /\ pc[c] \in {"rollback_nv", "wipe"} => verdict.kind = "rollback" /\ verdict.at = {c}

OrderlyInv == Orderly => \A c \in Components : OrderlyOf(c)

\* What the steps below start from.
Calm ==
    /\ Types /\ pending = Unstaged /\ VerdictInv /\ ~Only /\ Requests = {}
    /\ \A c \in Components : Held(c) /\ OrderlyOf(c)

\* Where a fan-out is, no other handler is at work.
LEMMA CampaignIdle ==
    ASSUME Calm, verdict.kind # "none", NEW d \in Components,
           verdict.at = {} \/ \E c \in Components : c # d /\ verdict.at = {c}
    PROVE  pc[d] = "idle" /\ flash[d] = NoFlash
<1>1. OrderlyOf(d) /\ ScriptOf(d) /\ TypesOf(d) /\ ~Only
  BY TypesOfEach DEF Calm, Held
<1>2. flash[d] = NoFlash /\ pc[d] \notin {"activate", "undo_install"}
  BY <1>1 DEF OrderlyOf, Judging
<1>3. verdict.at # {d}
  OBVIOUS
<1>4. pc[d] \notin {"rollback_nv", "wipe"}
  BY <1>1, <1>3 DEF OrderlyOf
<1>5. pc[d] # "commit_vector"
  BY <1>1, <1>3 DEF ScriptOf
<1> QED
  BY <1>1, <1>2, <1>4, <1>5 DEF TypesOf, Pcs

\* Nothing is flashed while there is something to judge.
LEMMA FlashUnjudged ==
    ASSUME Calm, NEW c \in Components, Flash(c)
    PROVE  /\ ~Judging
           /\ \/ StartFlash(c) \/ Upload(c) \/ Abort(c)
              \/ FinalizeInstall(c) \/ FinalizeInstallFails(c)
              \/ FinalizeActivate(c) \/ FinalizeActivateFails(c)
              \/ UndoInstall(c) \/ UndoInstallFails(c)
<1>c. OrderlyOf(c) /\ Requests = {}
  BY DEF Calm
<1>1. ~(Validate(c) \/ Invalidate(c) \/ Activate(c) \/ EcuResetGuest(c) \/ HealthConfirmed(c)
         \/ EcuResetNode(c))
  BY <1>c DEF Validate, Invalidate, Activate, Relabel, EcuResetGuest, HealthConfirmed,
              EcuResetNode, OrderlyOf
<1>2. CASE StartFlash(c)
  <2>1. verdict = NoVerdict
    BY <1>2, <1>c DEF StartFlash
  <2> QED
    BY <1>2, <2>1 DEF StartFlash, FlashCanStart, TrialSet, Judging, NoVerdict
<1>3. CASE flash[c] # NoFlash \/ pc[c] \in {"activate", "undo_install"}
  BY <1>c, <1>1, <1>3 DEF OrderlyOf, Flash
<1>4. \/ StartFlash(c) \/ Upload(c) \/ Abort(c)
      \/ FinalizeInstall(c) \/ FinalizeInstallFails(c)
      \/ FinalizeActivate(c) \/ FinalizeActivateFails(c)
      \/ UndoInstall(c) \/ UndoInstallFails(c)
  BY <1>1 DEF Flash
<1>5. CASE Upload(c) \/ Abort(c) \/ FinalizeInstall(c) \/ FinalizeInstallFails(c)
  <2>1. flash[c] # NoFlash
    BY <1>5, <1>c DEF Upload, Abort, FinalizeInstall, FinalizeInstallFails, Finalize, NoFlash
  <2> QED
    BY <1>3, <2>1
<1>6. CASE \/ FinalizeActivate(c) \/ FinalizeActivateFails(c)
           \/ UndoInstall(c) \/ UndoInstallFails(c)
  BY <1>3, <1>6 DEF FinalizeActivate, FinalizeActivateFails, UndoInstall, UndoInstallFails
<1> QED
  BY <1>2, <1>4, <1>5, <1>6

\* Nor does flashing make something to judge.
LEMMA FlashOrderly ==
    ASSUME Calm, NEW c \in Components, Flash(c), NEW d \in Components
    PROVE  OrderlyOf(d)'
<1> USE DEF disk
<1>n. node' = node /\ verdict' = verdict /\ secondary' = secondary
  BY DEF Flash, StartFlash, Upload, Abort, Validate, Invalidate, Activate, Relabel,
         FinalizeInstall, FinalizeInstallFails, FinalizeActivate, FinalizeActivateFails,
         UndoInstall, UndoInstallFails, EcuResetGuest, HealthConfirmed, EcuResetNode
<1>t. Types /\ TypesOf(c) /\ pending = Unstaged
  BY TypesOfEach DEF Calm
<1>c. OrderlyOf(c) /\ OrderlyOf(d) /\ Held(c) /\ ScriptOf(c) /\ ~Only
  BY DEF Calm, Held
<1>1. \/ StartFlash(c) \/ Upload(c) \/ Abort(c)
      \/ FinalizeInstall(c) \/ FinalizeInstallFails(c)
      \/ FinalizeActivate(c) \/ FinalizeActivateFails(c)
      \/ UndoInstall(c) \/ UndoInstallFails(c)
  BY FlashUnjudged
<1>2. ~Judging
  BY FlashUnjudged
<1>3. verdict.kind = "none" /\ verdict'.kind = "none" /\ pc[d] \notin {"rollback_nv", "wipe"}
  BY <1>n, <1>c, <1>2 DEF Judging, OrderlyOf
<1>4. ASSUME NEW e \in Components, InTrial(e)' PROVE ~rebooted'
  <2>1. CASE FinalizeActivate(c)
    BY <2>1 DEF FinalizeActivate
  <2>2. CASE ~FinalizeActivate(c)
    <3>1. primary' = primary /\ rebooted' = rebooted
      BY <2>2, <1>1 DEF StartFlash, Upload, Abort, FinalizeInstall, FinalizeInstallFails,
                        FinalizeActivateFails, UndoInstall, UndoInstallFails
    <3> QED
      BY <1>n, <1>2, <1>4, <3>1 DEF InTrial, Judging
  <2> QED
    BY <2>1, <2>2
<1>5. ~Judging'
  BY <1>3, <1>4 DEF Judging
<1>6. CASE d # c
  <2>1. Alone(d)
    BY <1>6, <1>t, FlashAlone
  <2>2. InTrial(d) => ~rebooted
    BY <1>2 DEF Judging
  <2> QED
    BY <1>n, <1>c, <1>3, <1>4, <1>5, <2>1, <2>2 DEF OrderlyOf, Alone, InTrial
<1>7. CASE d = c
  <2>1. /\ flash'[c].state \in {"none", "transferring", "staged", "awaiting_reboot"}
        /\ InTrial(c)' => flash'[c].state = "awaiting_reboot"
        /\ pc'[c] \notin {"rollback_nv", "wipe"}
    <3>i. InTrial(c) => flash[c].state = "awaiting_reboot"
      BY <1>c, <1>2 DEF OrderlyOf, Judging
    <3>1. CASE StartFlash(c)
      BY <1>n, <1>t, <1>3, <1>7, <3>1 DEF StartFlash, FlashCanStart, InTrial, Types, TypeOK
    <3>2. CASE Upload(c)
      <4>1. Open(c)
        BY <3>2 DEF Upload, Open
      <4>2. ~InTrial(c)
        BY <4>1, <1>t, <1>c, TrialBanks DEF Held, OpenOf
      <4> QED
        BY <1>n, <1>t, <1>3, <1>7, <3>2, <4>2 DEF Upload, InTrial, Types, TypeOK
    <3>3. CASE Abort(c)
      BY <1>n, <1>t, <1>3, <1>7, <3>3, <3>i DEF Abort, InTrial, Types, TypeOK, NoFlash
    <3>4. CASE FinalizeInstall(c) \/ FinalizeInstallFails(c) \/ FinalizeActivateFails(c)
               \/ UndoInstall(c) \/ UndoInstallFails(c)
      BY <1>n, <1>t, <1>c, <3>4, <3>i
      DEF FinalizeInstall, FinalizeInstallFails, FinalizeActivateFails, UndoInstall,
          UndoInstallFails, InTrial, Types, TypeOK, OrderlyOf
    <3>5. CASE FinalizeActivate(c)
      <4>1. flash[c] # NoFlash
        BY <3>5, <1>c DEF FinalizeActivate, ScriptOf, NoFlash
      <4>2. flash'[c] = [state |-> "awaiting_reboot", package |-> flash[c].package]
        BY <3>5, <4>1, <1>t, InStateType DEF FinalizeActivate, Types, TypeOK, States
      <4> QED
        BY <1>t, <3>5, <4>2 DEF FinalizeActivate, Types, TypeOK
    <3> QED
      BY <1>1, <3>1, <3>2, <3>3, <3>4, <3>5
  <2> QED
    BY <1>n, <1>3, <1>4, <1>5, <1>7, <2>1 DEF OrderlyOf
<1> QED
  BY <1>6, <1>7

\* A verdict ends trials and begins none.
LEMMA JudgeOrderly ==
    ASSUME Calm, NEW c \in Components, Judge(c), NEW d \in Components
    PROVE  OrderlyOf(d)'
<1> USE DEF disk
<1>t. Types /\ OrderlyOf(c) /\ OrderlyOf(d) /\ ScriptOf(c) /\ ~Only /\ Requests = {}
  BY DEF Calm, Held
<1>n. rebooted' = rebooted /\ running' = running /\ (fresh = {} => fresh' = {})
      /\ (InTrial(d)' => primary' = primary)
  <2>1. rebooted' = rebooted /\ running' = running
    BY DEF Judge, CommitNv, CommitRefused, CommitVector, CommitVectorFails, RollbackVector,
           RollbackRefused, RollbackNv, RollbackNvFails, RollbackWipe
  <2>2. fresh' = fresh \/ RollbackWipe(c)
    BY DEF Judge, CommitNv, CommitRefused, CommitVector, CommitVectorFails, RollbackVector,
           RollbackRefused, RollbackNv, RollbackNvFails
  <2>3. fresh = {} => fresh' = {}
    BY <2>2 DEF RollbackWipe
  <2>4. InTrial(d)' => primary' = primary
    BY DEF Judge, CommitNv, CommitRefused, CommitVector, CommitVectorFails, RollbackVector,
           RollbackRefused, RollbackNv, RollbackNvFails, RollbackWipe, InTrial
  <2> QED
    BY <2>1, <2>3, <2>4
<1>1. /\ verdict.kind # "none" /\ (verdict.at = {} \/ verdict.at = {c})
      /\ pc[c] \in {"rollback_nv", "wipe"} => verdict.kind = "rollback" /\ verdict.at = {c}
  <2>1. CASE CommitNv(c) \/ CommitRefused(c) \/ RollbackVector(c) \/ RollbackRefused(c)
    BY <1>t, <2>1 DEF CommitNv, CommitRefused, RollbackVector, RollbackRefused, Begin, Turn
  <2>2. CASE CommitVector(c) \/ CommitVectorFails(c)
    BY <1>t, <2>2 DEF CommitVector, CommitVectorFails, ScriptOf
  <2>3. CASE RollbackNv(c) \/ RollbackNvFails(c) \/ RollbackWipe(c)
    BY <1>t, <2>3 DEF RollbackNv, RollbackNvFails, RollbackWipe, OrderlyOf
  <2> QED
    BY <2>1, <2>2, <2>3 DEF Judge
<1>2. flash[d] = NoFlash /\ (d # c => pc[d] = "idle")
  <2>1. flash[d] = NoFlash
    BY <1>1, <1>t DEF OrderlyOf, Judging
  <2> QED
    BY <1>1, <2>1, CampaignIdle
<1>3. flash'[d] = NoFlash /\ (InTrial(d)' => InTrial(d))
  BY <1>2, <1>t, TrialsEnd
<1>4. verdict' = verdict \/ verdict' = Without(c)
        \/ verdict' = [verdict EXCEPT !.todo = @ \ {c}, !.at = {c}]
  BY DEF Judge, CommitNv, CommitRefused, CommitVector, CommitVectorFails, RollbackVector,
         RollbackRefused, RollbackNv, RollbackNvFails, RollbackWipe, Begin, End
<1>5. verdict'.kind \in {verdict.kind, "none"}
  BY <1>4, <1>t, WithoutLeft, TurnTaken
<1>6. /\ pc'[d] \notin {"activate", "undo_install"}
      /\ pc'[d] \in {"rollback_nv", "wipe"} => verdict'.kind = "rollback" /\ verdict'.at = {d}
  <2>1. CASE d # c
    <3>1. pc'[d] = "idle"
      BY <1>2, <1>t, <2>1, Ended
      DEF Judge, CommitNv, CommitRefused, CommitVector, CommitVectorFails, RollbackVector,
          RollbackRefused, RollbackNv, RollbackNvFails, RollbackWipe, Types, TypeOK
    <3> QED
      BY <3>1
  <2>2. CASE d = c /\ RollbackVector(c)
    <3>1. /\ verdict' = [verdict EXCEPT !.todo = @ \ {c}, !.at = {c}]
          /\ verdict.kind = "rollback"
      BY <1>t, <2>2 DEF RollbackVector, Begin, Turn
    <3>2. verdict'.kind = "rollback" /\ verdict'.at = {c} /\ pc'[c] = "rollback_nv"
      BY <1>t, <2>2, <3>1, TurnTaken DEF RollbackVector, Types, TypeOK
    <3> QED
      BY <2>2, <3>2
  <2>3. CASE d = c /\ RollbackNv(c)
    <3>1. verdict' = verdict /\ pc[c] = "rollback_nv" /\ pc'[c] = "wipe"
      BY <1>t, <2>3 DEF RollbackNv, Types, TypeOK
    <3> QED
      BY <1>1, <2>3, <3>1
  <2>4. CASE d = c /\ ~RollbackVector(c) /\ ~RollbackNv(c)
    <3>1. pc'[c] \in {"idle", "commit_vector"}
      BY <1>t, <2>4, Ended
      DEF Judge, CommitNv, CommitRefused, CommitVector, CommitVectorFails, RollbackRefused,
          RollbackNvFails, RollbackWipe, Turn, Types, TypeOK
    <3> QED
      BY <2>4, <3>1
  <2> QED
    BY <2>1, <2>2, <2>3, <2>4
<1>7. InTrial(d)' => rebooted /\ fresh' = {}
  <2>1. InTrial(d) => rebooted
    BY <1>2, <1>t DEF OrderlyOf, NoFlash
  <2> QED
    BY <1>n, <1>3, <1>t, <2>1 DEF OrderlyOf
<1>8. InTrial(d)' /\ verdict'.kind = "commit" => running'[d] = primary'[d].bank
  BY <1>n, <1>3, <1>5, <1>t DEF OrderlyOf
<1> QED
  BY <1>n, <1>3, <1>6, <1>7, <1>8 DEF OrderlyOf, NoFlash

\* A node verdict is given after the reset, on everything in trial.
LEMMA AllCandidates ==
    ASSUME Calm, NEW k, NodeVerdict(k), NEW d \in Components
    PROVE  /\ rebooted /\ Judging
           /\ InTrial(d) => d \in Candidates
<1>1. PICK e \in Candidates : TRUE
  BY DEF NodeVerdict
<1>2. e \in Components /\ InTrial(e) /\ OrderlyOf(e) /\ OrderlyOf(d)
  BY <1>1 DEF Candidates, TrialSet, Calm
<1>3. flash[e] = NoFlash
  BY <1>1, <1>2 DEF Candidates, OrderlyOf
<1>4. rebooted /\ fresh = {}
  BY <1>2, <1>3 DEF OrderlyOf, NoFlash, Calm, Types, TypeOK
<1>5. Judging
  BY <1>2, <1>4 DEF Judging
<1>6. flash[d] = NoFlash
  BY <1>2, <1>5 DEF OrderlyOf
<1>7. InTrial(d) => d \in Candidates
  BY <1>4, <1>6 DEF Candidates, TrialSet, PendingReset
<1> QED
  BY <1>4, <1>5, <1>7

\* What a death cuts.
LEMMA DeathCuts ==
    ASSUME Types, Die
    PROVE  /\ "die_verdict" \in faults'.seen \/ \E c \in Components : pc[c] # "idle"
           /\ \A c \in Components :
                /\ pc[c] \in {"activate", "undo_install"} => "die_finalize" \in faults'.seen
                /\ pc[c] = "commit_vector" => "die_commit" \in faults'.seen
                /\ pc[c] \in {"rollback_nv", "wipe"} => "die_rollback" \in faults'.seen
<1>1. Cut \subseteq faults'.seen
  BY DEF Die
<1>2. ASSUME \A c \in Components : pc[c] = "idle" PROVE "die_verdict" \in Cut
  <2>1. verdict # NoVerdict /\ \A c \in verdict.at : pc[c] = "idle"
    BY <1>2 DEF Die, Quiet, Types, TypeOK
  <2> QED
    BY <2>1 DEF Cut
<1>3. ASSUME NEW c \in Components
      PROVE  /\ pc[c] \in {"activate", "undo_install"} => "die_finalize" \in Cut
             /\ pc[c] = "commit_vector" => "die_commit" \in Cut
             /\ pc[c] \in {"rollback_nv", "wipe"} => "die_rollback" \in Cut
  BY DEF Cut, At
<1> QED
  BY <1>1, <1>2, <1>3

\* A restart that finds a trial, and not in finalize, comes after its reset.
LEMMA RestartOrderly ==
    ASSUME Calm, [Next]_vars, Orderly', Reset \/ Die, NEW d \in Components
    PROVE  OrderlyOf(d)'
<1>1. PICK n \in BOOLEAN : Restart(n) /\ (Reset => n = TRUE)
  BY DEF Reset, Die
<1>n. flash'[d] = NoFlash /\ pc'[d] = "idle" /\ verdict' = NoVerdict
      /\ (primary' = primary \/ primary' = secondary) /\ secondary' = secondary
  BY <1>1 DEF Restart, BootStage
<1>t. Types /\ OrderlyOf(d) /\ ~Only
  BY DEF Calm
<1>2. InTrial(d)' => InTrial(d)
  BY <1>n DEF InTrial
<1>3. Die => Judging
  <2> SUFFICES ASSUME Die, verdict.kind = "none" PROVE FALSE
    BY DEF Judging
  <2>1. verdict = NoVerdict
    BY DEF Calm, VerdictInv
  <2>2. PICK c \in Components : pc[c] # "idle"
    BY <2>1 DEF Die, Quiet
  <2>3. pc[c] \notin {"activate", "undo_install"}
    BY <1>t, DeathCuts DEF Orderly, Saw
  <2>4. pc[c] \notin {"rollback_nv", "wipe", "commit_vector"}
    BY <1>t DEF Calm, Held, ScriptOf, OrderlyOf
  <2> QED
    BY <1>t, <2>2, <2>3, <2>4 DEF Types, TypeOK, Pcs
<1>4. InTrial(d)' => rebooted' /\ fresh' = {}
  <2>1. CASE n = TRUE
    BY <1>1, <2>1 DEF Restart
  <2>2. CASE n = FALSE
    <3>1. Die /\ rebooted' = rebooted /\ fresh' = fresh
      BY <1>1, <1>t, <2>2 DEF Restart, Types, TypeOK
    <3>2. InTrial(d) => rebooted
      BY <1>3, <1>t, <3>1 DEF OrderlyOf, NoFlash
    <3> QED
      BY <1>2, <1>t, <3>1, <3>2 DEF OrderlyOf
  <2> QED
    BY <2>1, <2>2
<1> QED
  BY <1>n, <1>4 DEF OrderlyOf, NoFlash, NoVerdict

\* The other steps of the node.
LEMMA NodeOrderly ==
    ASSUME Calm, NEW d \in Components,
           \/ \E k \in {"commit", "rollback"} : NodeVerdict(k)
           \/ BailOut \/ Serve \/ UNCHANGED vars
    PROVE  OrderlyOf(d)'
<1>t. Types /\ OrderlyOf(d) /\ ScriptOf(d) /\ ~Only
  BY DEF Calm, Held
<1>1. ASSUME NEW k \in {"commit", "rollback"}, NodeVerdict(k) PROVE OrderlyOf(d)'
  <2>1. /\ primary' = primary /\ secondary' = secondary /\ flash' = flash /\ pc' = pc
        /\ fresh' = fresh /\ rebooted' = rebooted /\ running' = running
        /\ verdict = NoVerdict /\ verdict'.kind = k
    BY <1>1 DEF NodeVerdict, disk
  <2>2. Judging /\ (InTrial(d) => d \in Candidates)
    BY <1>1, AllCandidates
  <2>3. k = "commit" /\ d \in Candidates => running[d] = primary[d].bank
    BY <1>1 DEF NodeVerdict, MayCommit
  <2>4. InTrial(d)' <=> InTrial(d)
    BY <2>1 DEF InTrial
  <2>5. pc[d] \notin {"activate", "undo_install", "rollback_nv", "wipe"} /\ flash[d] = NoFlash
    BY <1>t, <2>1, <2>2 DEF OrderlyOf, NoVerdict
  <2> QED
    BY <1>t, <2>1, <2>2, <2>3, <2>4, <2>5 DEF OrderlyOf
<1>2. CASE BailOut
  <2>1. flash'[d] = NoFlash /\ pc'[d] = "idle" /\ verdict'.kind = "rollback" /\ ~InTrial(d)'
    BY <1>2, <1>t DEF BailOut, Quiet, ScriptOf, InTrial
  <2> QED
    BY <2>1 DEF OrderlyOf, NoFlash
<1>3. CASE Serve \/ UNCHANGED vars
  <2>1. /\ primary' = primary /\ secondary' = secondary /\ flash' = flash /\ pc' = pc
        /\ fresh' = fresh /\ rebooted' = rebooted /\ running' = running /\ verdict' = verdict
    BY <1>3 DEF Serve, vars, disk
  <2>2. (Judging' <=> Judging) /\ (InTrial(d)' <=> InTrial(d))
    BY <2>1 DEF Judging, InTrial
  <2> QED
    BY <1>t, <2>1, <2>2 DEF OrderlyOf
<1> QED
  BY <1>1, <1>2, <1>3

\* Where the guard holds after a step, the step had all of this to start from.
LEMMA CalmBefore ==
    ASSUME Types, HeldInv, VerdictInv, OrderlyInv, [Next]_vars, Orderly'
    PROVE  Calm
<1>1. faults.seen \subseteq faults'.seen /\ node' = node
  BY SeenGrows, NodeKept
<1>2. Orderly
  BY <1>1 DEF Orderly, Only, Updated, Requests, Saw
<1> QED
  BY <1>2 DEF Calm, Orderly, OrderlyInv, HeldInv, Trusted, Saw

\* Every step keeps it.
LEMMA NextOrderly ==
    ASSUME Types, HeldInv, VerdictInv, OrderlyInv, [Next]_vars
    PROVE  OrderlyInv'
<1> SUFFICES ASSUME Orderly', NEW d \in Components
             PROVE  OrderlyOf(d)'
  BY DEF OrderlyInv
<1>1. Calm
  BY CalmBefore
<1>2. ASSUME NEW c \in Components, Flash(c) \/ Judge(c) PROVE OrderlyOf(d)'
  BY <1>1, <1>2, FlashOrderly, JudgeOrderly
<1>3. CASE Reset \/ Die
  BY <1>1, <1>3, RestartOrderly
<1>4. CASE \/ \E k \in {"commit", "rollback"} : NodeVerdict(k)
           \/ BailOut \/ Serve \/ UNCHANGED vars
  BY <1>1, <1>4, NodeOrderly
<1> QED
  BY <1>2, <1>3, <1>4 DEF Next

\* What campaigns keep to.
LEMMA OrderlyHolds ==
    ASSUME OnlyOrCampaign
    PROVE  Spec => []OrderlyInv /\ []VerdictInv
<1>1. Init => OrderlyInv /\ VerdictInv
  <2> SUFFICES ASSUME Init, NEW c \in Components PROVE OrderlyOf(c)
    BY DEF Init, OrderlyInv, VerdictInv
  <2>1. /\ primary[c] = secondary[c] /\ flash[c] = NoFlash /\ pc[c] = "idle"
        /\ verdict = NoVerdict /\ \A d \in Components : primary[d] = secondary[d]
    BY DEF Init
  <2>2. ~InTrial(c) /\ ~Judging
    BY <2>1 DEF InTrial, Judging, NoVerdict
  <2> QED
    BY <2>1, <2>2 DEF OrderlyOf, NoFlash, NoVerdict
<1>2. Types /\ HeldInv /\ VerdictInv /\ OrderlyInv /\ [Next]_vars => OrderlyInv'
  BY NextOrderly
<1>3. Types /\ VerdictInv /\ [Next]_vars => VerdictInv'
  BY VerdictGone
<1>4. Spec => []HeldInv
  BY CampaignScripted, HeldHolds
<1> QED
  BY <1>1, <1>2, <1>3, <1>4, TypesHold, PTL DEF Spec

----------------------------------------------------------------------------
(* No component is stuck.  The invariant speaks again of one component at  *)
(* a time, under the guard of NoneStuck.                                   *)

\* The property's own guard.
Firm ==
    /\ ~Saw({"seal", "commit_vector", "die_commit"})
    /\ Saw({"activator"}) =>
         /\ ~Refinalized /\ ~WithinVerdict
         /\ Cardinality(Updated) > 1 => ~Saw({"commit_nv", "die_verdict", "die_finalize"})

\* Several components and campaigns only, none of them cut or refused in finalize
\* or commit.
Strict ==
    /\ ~Only /\ Requests = {}
    /\ ~Saw({"seal", "commit_vector", "die_commit", "commit_nv", "die_verdict", "die_finalize"})

\* Both copies name the bank that NV is not in.
Back(c) == primary[c].bank = Other(nv[c].active) /\ secondary[c].bank = Other(nv[c].active)

\* A component committed in NV boots NV's bank and, but for a commit under way,
\* falls back to it.  An NV trial that an undo will end is one that both copies
\* are out of.
SoundOf(c) ==
    /\ nv[c].committed =>
         /\ primary[c].bank = nv[c].active
         /\ pc[c] # "commit_vector" => secondary[c].bank = nv[c].active
    /\ pc[c] = "activate" /\ ~nv[c].committed /\ ~Refinalized /\ (Only \/ Strict) => Back(c)
    /\ pc[c] = "undo_install" /\ ~nv[c].committed => Back(c)

\* Of several components, by campaigns: a commit has everything in trial still
\* to come or at hand, and commits what runs; a rollback that a component is at
\* has ended every trial.  The floor of an NV trial is the other bank, until a
\* sibling's commit has moved it.
CampaignOf(c) ==
    /\ InTrial(c) /\ verdict.kind = "commit" => c \in verdict.todo \cup verdict.at
    /\ InTrial(c) /\ verdict.kind = "rollback" => verdict.at = {}
    /\ verdict.kind = "commit" /\ c \in verdict.todo =>
         running[c] = primary[c].bank /\ nv[c].active = primary[c].bank
    /\ ~nv[c].committed =>
         \/ secondary[c].bank = Other(nv[c].active)
         \/ verdict.kind = "commit" /\ c \in verdict.todo

SoundInv == Firm => \A c \in Components : SoundOf(c) /\ (Strict => CampaignOf(c))

\* What has been seen stays seen.
LEMMA GuardsBefore ==
    ASSUME Types, [Next]_vars
    PROVE  (Firm' => Firm) /\ (Strict' => Strict)
<1>1. faults.seen \subseteq faults'.seen /\ node' = node
  BY SeenGrows, NodeKept
<1> QED
  BY <1>1 DEF Firm, Strict, Saw, WithinVerdict, Refinalized, Only, Updated, Requests

\* What the steps below start from.
Ready ==
    /\ Types /\ pending = Unstaged /\ Firm /\ VerdictInv
    /\ \A c \in Components : Held(c) /\ FreshOf(c) /\ SoundOf(c)
    /\ \A c \in Components : Strict => OrderlyOf(c) /\ CampaignOf(c)

\* Campaigns that are not cut are orderly.
LEMMA StrictCalm ==
    ASSUME Ready, Strict
    PROVE  Calm
BY DEF Ready, Strict, Calm

\* A component the step leaves alone.
LEMMA SoundFrame ==
    ASSUME NEW d \in Components, SoundOf(d), Alone(d), node' = node, Strict' => Strict
    PROVE  SoundOf(d)'
<1>1. (Only' <=> Only) /\ (Refinalized' <=> Refinalized)
  BY DEF Only, Updated, Refinalized, Requests
<1>2. Back(d)' <=> Back(d)
  BY DEF Alone, Back
<1> QED
  BY <1>1, <1>2 DEF SoundOf, Alone

----------------------------------------------------------------------------
(* Flashing.                                                               *)

\* A failed activator, still within the guard: nothing the undo could strand.
LEMMA ActivatorFails ==
    ASSUME OnlyOrCampaign, Types, [Next]_vars, Firm', Fault("activator")
    PROVE  ~Refinalized /\ (Only \/ Strict)
<1>1. faults.seen \subseteq faults'.seen /\ node' = node /\ Saw({"activator"})'
  BY SeenGrows, NodeKept DEF Saw, Fault
<1>2. ~Refinalized
  BY <1>1 DEF Firm, Refinalized, Requests
<1>3. ASSUME ~Only PROVE Strict
  <2>1. Cardinality(Updated) > 1
    BY <1>3, Several
  <2>2. "overlap" \notin Requests
    BY <1>1, <2>1 DEF Firm, WithinVerdict, Updated, Requests
  <2>3. Requests = {}
    BY <1>3, <2>2 DEF OnlyOrCampaign, Types, Only, Updated, Requests
  <2>4. ~Saw({"seal", "commit_vector", "die_commit", "commit_nv", "die_verdict",
              "die_finalize"})
    BY <1>1, <2>1 DEF Firm, Saw, Updated
  <2> QED
    BY <1>3, <2>3, <2>4 DEF Strict
<1> QED
  BY <1>2, <1>3

\* A finalize that finds its component in an NV trial, in a first finalize: both
\* copies are out of it.
LEMMA FinalizeBack ==
    ASSUME Ready, NEW c \in Components, Finalize(c), ~nv[c].committed, ~Refinalized,
           Only \/ Strict
    PROVE  Back(c)
<1>t. TypesOf(c) /\ Held(c) /\ FreshOf(c) /\ (Strict => OrderlyOf(c) /\ CampaignOf(c))
  BY TypesOfEach DEF Ready
<1>1. flash[c].state = "staged"
  BY <1>t DEF Finalize, Refinalized, FreshOf
<1>2. primary[c] = secondary[c]
  BY <1>1, <1>t DEF FreshOf, InTrial
<1>3. secondary[c].bank = Other(nv[c].active)
  <2>1. CASE Only
    <3>1. secondary[c].bank # nv[c].active
      BY <2>1, <1>t DEF Held, TrialOf
    <3> QED
      BY <3>1, <1>t, OtherBank DEF TypesOf
  <2>2. CASE Strict
    <3>1. verdict.kind # "commit"
      BY <1>1, <1>t, <2>2 DEF OrderlyOf, Judging, NoFlash
    <3> QED
      BY <3>1, <1>t, <2>2 DEF CampaignOf
  <2> QED
    BY <2>1, <2>2
<1> QED
  BY <1>2, <1>3 DEF Back

\* The component that is flashed.
LEMMA FlashSound ==
    ASSUME OnlyOrCampaign, Ready, [Next]_vars, Firm', NEW c \in Components, Flash(c)
    PROVE  SoundOf(c)'
<1> USE DEF disk
<1>n. node' = node /\ secondary' = secondary /\ (Strict' => Strict)
  <2>1. secondary' = secondary
    BY DEF Flash, StartFlash, Upload, Abort, Validate, Invalidate, Activate, Relabel,
           FinalizeInstall, FinalizeInstallFails, FinalizeActivate, FinalizeActivateFails,
           UndoInstall, UndoInstallFails, EcuResetGuest, HealthConfirmed, EcuResetNode
  <2> QED
    BY <2>1, NodeKept, GuardsBefore DEF Ready
<1>o. (Only' <=> Only) /\ (Refinalized' <=> Refinalized)
  BY <1>n DEF Only, Updated, Refinalized, Requests
<1>t. Types /\ TypesOf(c) /\ SoundOf(c) /\ pending = Unstaged
  BY TypesOfEach DEF Ready
<1>1. CASE \/ StartFlash(c) \/ Upload(c) \/ Abort(c) \/ Validate(c) \/ Invalidate(c) \/ Activate(c)
           \/ EcuResetGuest(c) \/ HealthConfirmed(c) \/ EcuResetNode(c)
  <2>1. nv' = nv /\ primary' = primary /\ pc' = pc
    BY <1>1 DEF StartFlash, Upload, Abort, Validate, Invalidate, Activate, Relabel,
                EcuResetGuest, HealthConfirmed, EcuResetNode
  <2> QED
    BY <1>n, <1>o, <1>t, <2>1 DEF SoundOf, Back
<1>2. CASE FinalizeInstall(c) \/ FinalizeInstallFails(c)
  <2>1. Finalize(c) /\ primary' = primary /\ pc[c] = "idle" /\ pc'[c] = "activate"
    BY <1>2, <1>t DEF FinalizeInstall, FinalizeInstallFails, Finalize, Types, TypeOK
  <2>2. \/ nv'[c] = nv[c]
        \/ nv[c].committed /\ nv'[c] = [active |-> Other(nv[c].active), committed |-> FALSE]
    BY <1>2, <1>t DEF FinalizeInstall, FinalizeInstallFails, Installed, Types, TypeOK
  <2>3. CASE nv'[c] = nv[c]
    BY <1>n, <1>o, <1>t, <2>1, <2>3, FinalizeBack DEF SoundOf, Back
  <2>4. CASE nv[c].committed /\ nv'[c] = [active |-> Other(nv[c].active), committed |-> FALSE]
    <3>1. Back(c)'
      BY <1>n, <1>t, <2>1, <2>4, OtherBank DEF SoundOf, Back, TypesOf
    <3> QED
      BY <2>1, <2>4, <3>1 DEF SoundOf
  <2> QED
    BY <2>2, <2>3, <2>4
<1>3. CASE FinalizeActivate(c)
  <2>1. /\ pc[c] = "activate" /\ nv' = nv /\ pc'[c] = "idle"
        /\ primary'[c] = [bank |-> nv[c].active, img |-> bank[c][nv[c].active]]
    BY <1>3, <1>t DEF FinalizeActivate, Staged, Types, TypeOK, Vector
  <2> QED
    BY <1>n, <1>t, <2>1 DEF SoundOf
<1>4. CASE FinalizeActivateFails(c)
  <2>1. /\ pc[c] = "activate" /\ nv' = nv /\ primary' = primary /\ pc'[c] = "undo_install"
    BY <1>4, <1>t DEF FinalizeActivateFails, Types, TypeOK
  <2>2. Fault("activator")
    BY <1>4 DEF FinalizeActivateFails, Firm, Saw, Fault
  <2>3. ~nv[c].committed => Back(c)
    BY <1>t, <2>1, <2>2, ActivatorFails DEF SoundOf
  <2> QED
    BY <1>n, <1>t, <2>1, <2>3 DEF SoundOf, Back
<1>5. CASE UndoInstall(c)
  <2>1. /\ pc[c] = "undo_install" /\ primary' = primary /\ pc'[c] = "idle"
    BY <1>5, <1>t DEF UndoInstall, Types, TypeOK
  <2>2. \/ nv[c].committed /\ nv'[c] = nv[c]
        \/ ~nv[c].committed /\ nv'[c] = [active |-> Other(nv[c].active), committed |-> TRUE]
    BY <1>5, <1>t DEF UndoInstall, RolledBack, Types, TypeOK
  <2> QED
    BY <1>n, <1>t, <2>1, <2>2 DEF SoundOf, Back
<1>6. CASE UndoInstallFails(c)
  <2>1. nv' = nv /\ ~nv[c].committed /\ pc'[c] = "idle"
    BY <1>6, <1>t DEF UndoInstallFails, Types, TypeOK
  <2> QED
    BY <2>1 DEF SoundOf
<1> QED
  BY <1>1, <1>2, <1>3, <1>4, <1>5, <1>6 DEF Flash

\* Campaigns stay campaigns.
LEMMA FlashCampaign ==
    ASSUME Ready, Strict, NEW c \in Components, Flash(c), NEW d \in Components
    PROVE  CampaignOf(d)'
<1> USE DEF disk
<1>n. verdict' = verdict /\ secondary' = secondary
  BY DEF Flash, StartFlash, Upload, Abort, Validate, Invalidate, Activate, Relabel,
         FinalizeInstall, FinalizeInstallFails, FinalizeActivate, FinalizeActivateFails,
         UndoInstall, UndoInstallFails, EcuResetGuest, HealthConfirmed, EcuResetNode
<1>t. Types /\ TypesOf(c) /\ pending = Unstaged /\ CampaignOf(d) /\ SoundOf(c)
  BY TypesOfEach DEF Ready
<1>1. \/ StartFlash(c) \/ Upload(c) \/ Abort(c)
      \/ FinalizeInstall(c) \/ FinalizeInstallFails(c)
      \/ FinalizeActivate(c) \/ FinalizeActivateFails(c)
      \/ UndoInstall(c) \/ UndoInstallFails(c)
  BY StrictCalm, FlashUnjudged
<1>2. verdict.kind = "none" /\ verdict'.kind = "none"
  BY <1>n, StrictCalm, FlashUnjudged DEF Judging
<1>3. ~nv'[d].committed => secondary[d].bank = Other(nv'[d].active)
  <2>1. CASE nv'[d] = nv[d]
    BY <2>1, <1>t, <1>2 DEF CampaignOf
  <2>2. CASE d # c
    BY <2>1, <2>2, <1>t, FlashAlone DEF Alone
  <2>3. CASE d = c /\ FinalizeInstall(c) /\ nv'[c] # nv[c]
    <3>1. nv[c].committed /\ nv'[c].active = Other(nv[c].active) /\ pc[c] = "idle"
      BY <2>3, <1>t DEF FinalizeInstall, Finalize, Installed, Types, TypeOK
    <3>2. secondary[c].bank = nv[c].active
      BY <3>1, <1>t DEF SoundOf
    <3> QED
      BY <2>3, <3>1, <3>2, <1>t, OtherBank DEF TypesOf
  <2>4. CASE d = c /\ UndoInstall(c)
    BY <2>4, <1>t DEF UndoInstall, RolledBack, Types, TypeOK
  <2> QED
    BY <1>1, <2>1, <2>2, <2>3, <2>4
    DEF StartFlash, Upload, Abort, FinalizeInstallFails, FinalizeActivate,
        FinalizeActivateFails, UndoInstallFails
<1> QED
  BY <1>n, <1>2, <1>3 DEF CampaignOf

----------------------------------------------------------------------------
(* Verdicts.                                                               *)

\* No verdict strands a component.
LEMMA JudgeSound ==
    ASSUME Ready, [Next]_vars, Firm', NEW c \in Components, Judge(c), NEW d \in Components
    PROVE  SoundOf(d)'
<1>n. node' = node /\ (Strict' => Strict)
  BY NodeKept, GuardsBefore DEF Ready
<1>o. (Only' <=> Only) /\ (Refinalized' <=> Refinalized)
  BY <1>n DEF Only, Updated, Refinalized, Requests
<1>t. Types /\ TypesOf(c) /\ SoundOf(d) /\ SoundOf(c) /\ Held(c)
  BY TypesOfEach DEF Ready
<1>1. CASE d # c /\ \/ CommitNv(c) \/ CommitRefused(c) \/ RollbackRefused(c)
                    \/ RollbackNv(c) \/ RollbackNvFails(c) \/ RollbackWipe(c)
  BY <1>1, <1>n, <1>t, JudgeAlone, SoundFrame
<1>2. CASE d = c /\ CommitNv(c)
  <2>1. pc'[c] = "commit_vector" /\ nv'[c].active = nv[c].active /\ primary' = primary
        /\ primary[c].bank = nv[c].active
    BY <1>2, <1>t DEF CommitNv, MayCommit, PendingReboot, Types, TypeOK
  <2> QED
    BY <1>2, <2>1 DEF SoundOf
<1>3. CASE d = c /\ (CommitRefused(c) \/ RollbackRefused(c))
  <2>1. Alone(c)
    BY <1>3 DEF CommitRefused, RollbackRefused, Alone, disk
  <2> QED
    BY <1>3, <1>n, <1>t, <2>1, SoundFrame
<1>4. CASE d = c /\ RollbackNv(c)
  <2>1. pc[c] = "rollback_nv" /\ pc'[c] = "wipe" /\ primary' = primary /\ secondary' = secondary
        /\ nv'[c].active = Other(nv[c].active)
    BY <1>4, <1>t DEF RollbackNv, RolledBack, Types, TypeOK
  <2>2. primary[c].bank = Other(nv[c].active) /\ secondary[c].bank = Other(nv[c].active)
    BY <1>t, <2>1 DEF Held, HandlerOf
  <2> QED
    BY <1>4, <2>1, <2>2 DEF SoundOf
<1>5. CASE d = c /\ (RollbackNvFails(c) \/ RollbackWipe(c))
  <2>1. pc[c] # "commit_vector" /\ pc'[c] = "idle" /\ primary' = primary
        /\ secondary' = secondary /\ nv' = nv
    BY <1>5, <1>t, Ended DEF RollbackNvFails, RollbackWipe, disk
  <2> QED
    BY <1>5, <1>t, <2>1 DEF SoundOf
<1>6. CASE CommitVector(c)
  <2>1. nv' = nv /\ primary' = primary /\ secondary' = primary
        /\ pc'[c] = "idle" /\ (d # c => pc'[d] = pc[d])
    BY <1>6, <1>t, Ended DEF CommitVector
  <2> QED
    BY <1>n, <1>o, <1>t, <2>1 DEF SoundOf, Back
<1>7. CASE RollbackVector(c)
  <2>1. nv' = nv /\ primary' = secondary /\ secondary' = secondary /\ pc[d] # "commit_vector"
        /\ pc'[c] = "rollback_nv" /\ (d # c => pc'[d] = pc[d])
    BY <1>7, <1>t DEF RollbackVector, NvFree, Types, TypeOK
  <2> QED
    BY <1>n, <1>o, <1>t, <2>1 DEF SoundOf, Back
<1>8. ~CommitVectorFails(c)
  BY DEF CommitVectorFails, Fault, Firm, Saw
<1> QED
  BY <1>1, <1>2, <1>3, <1>4, <1>5, <1>6, <1>7, <1>8 DEF Judge

\* commit_flash's first write, in a campaign.
LEMMA CommitNvCampaign ==
    ASSUME Ready, Strict, NEW c \in Components, CommitNv(c), NEW d \in Components
    PROVE  CampaignOf(d)'
<1>n. primary' = primary /\ secondary' = secondary /\ running' = running
  BY DEF CommitNv
<1>o. InTrial(d)' <=> InTrial(d)
  BY <1>n DEF InTrial
<1>t. Types /\ CampaignOf(d)
  BY DEF Ready
<1>1. /\ verdict.kind = "commit" /\ verdict.at = {}
      /\ verdict' = [verdict EXCEPT !.todo = @ \ {c}, !.at = {c}]
  BY DEF CommitNv, Begin, Turn, Strict
<1>2. verdict'.kind = "commit" /\ verdict'.at = {c} /\ verdict'.todo = verdict.todo \ {c}
  BY <1>1, <1>t, TurnTaken
<1>3. nv'[c].committed /\ (d # c => nv'[d] = nv[d])
  BY <1>t DEF CommitNv, Types, TypeOK
<1> QED
  BY <1>n, <1>o, <1>t, <1>1, <1>2, <1>3 DEF CampaignOf

\* In a campaign no component's commit is refused.
LEMMA CampaignCommits ==
    ASSUME Ready, Strict, Strict', NEW c \in Components
    PROVE  ~CommitRefused(c)
<1> SUFFICES ASSUME CommitRefused(c) PROVE FALSE
  OBVIOUS
<1>1. OrderlyOf(c) /\ CampaignOf(c) /\ verdict.kind = "commit" /\ c \in verdict.todo /\ Judging
  BY DEF Ready, CommitRefused, Turn, Judging
<1>2. MayCommit(c)
  BY <1>1 DEF OrderlyOf, CampaignOf, MayCommit, NoFlash, PendingReboot
<1>3. ~Fault("commit_nv")
  BY DEF Strict, Saw, Fault
<1> QED
  BY <1>2, <1>3 DEF CommitRefused

\* The vector's commit, in a campaign: what it leaves in an NV trial is still to come.
LEMMA CommitVectorCampaign ==
    ASSUME Ready, Strict, NEW c \in Components, CommitVector(c), NEW d \in Components
    PROVE  CampaignOf(d)'
<1>n. nv' = nv /\ primary' = primary /\ secondary' = primary /\ running' = running
      /\ pc[c] = "commit_vector" /\ End(c)
  BY DEF CommitVector
<1>o. ~InTrial(d)'
  BY <1>n DEF InTrial
<1>t. Types /\ Held(c) /\ CampaignOf(d) /\ ~Only
  BY DEF Ready, Strict
<1>1. verdict.kind = "commit" /\ verdict.at = {c} /\ verdict' = Without(c) /\ nv[c].committed
  BY <1>n, <1>t DEF Held, ScriptOf, HandlerOf, End
<1>5. verdict'.kind \in {"commit", "none"} /\ verdict'.todo \subseteq verdict.todo
  BY <1>t, <1>1, WithoutLeft
<1>6. d \in verdict'.todo => running[d] = primary[d].bank /\ nv[d].active = primary[d].bank
  BY <1>t, <1>1, <1>5 DEF CampaignOf
<1>7. ASSUME ~nv[d].committed
      PROVE  \/ primary[d].bank = Other(nv[d].active)
             \/ verdict'.kind = "commit" /\ d \in verdict'.todo
  <2>1. d # c
    BY <1>1, <1>7
  <2>2. CASE d \in verdict.todo
    BY <1>1, <1>t, <2>1, <2>2, WithoutKeeps
  <2>3. CASE d \notin verdict.todo
    <3>1. primary[d] = secondary[d]
      BY <1>1, <1>t, <2>1, <2>3 DEF CampaignOf, InTrial
    <3> QED
      BY <1>t, <1>7, <2>3, <3>1 DEF CampaignOf
  <2> QED
    BY <2>2, <2>3
<1> QED
  BY <1>n, <1>o, <1>5, <1>6, <1>7 DEF CampaignOf

\* The steps of a rollback, in a campaign.
LEMMA RollbackCampaign ==
    ASSUME Ready, Strict, NEW c \in Components, NEW d \in Components,
           \/ RollbackVector(c) \/ RollbackRefused(c) \/ RollbackNv(c)
           \/ RollbackNvFails(c) \/ RollbackWipe(c)
    PROVE  CampaignOf(d)'
<1> USE DEF disk
<1>n. secondary' = secondary
  BY DEF RollbackVector, RollbackRefused, RollbackNv, RollbackNvFails, RollbackWipe
<1>t. Types /\ OrderlyOf(c) /\ CampaignOf(d)
  BY DEF Ready
<1>1. verdict.kind = "rollback"
  BY <1>t DEF RollbackVector, RollbackRefused, RollbackNv, RollbackNvFails, RollbackWipe,
              Begin, Turn, Strict, OrderlyOf
<1>2. verdict'.kind \in {"rollback", "none"} /\ (verdict'.at = {} \/ ~InTrial(d)')
  <2>1. CASE RollbackVector(c)
    <3>1. verdict' = [verdict EXCEPT !.todo = @ \ {c}, !.at = {c}]
      BY <2>1 DEF RollbackVector, Begin, Strict
    <3> QED
      BY <1>1, <1>t, <2>1, <3>1, TurnTaken DEF RollbackVector, InTrial
  <2>2. CASE RollbackRefused(c)
    BY <1>1, <1>t, <2>2, WithoutLeft DEF RollbackRefused
  <2>3. CASE RollbackNv(c)
    BY <1>1, <1>t, <2>3 DEF RollbackNv, CampaignOf, InTrial
  <2>4. CASE RollbackNvFails(c) \/ RollbackWipe(c)
    <3>1. End(c) /\ verdict.at = {c}
      BY <1>t, <2>4 DEF RollbackNvFails, RollbackWipe, OrderlyOf
    <3> QED
      BY <1>1, <1>t, <3>1, WithoutLeft DEF End
  <2> QED
    BY <2>1, <2>2, <2>3, <2>4
<1>3. ~nv'[d].committed => secondary[d].bank = Other(nv'[d].active)
  <2>1. ~nv[d].committed => secondary[d].bank = Other(nv[d].active)
    BY <1>1, <1>t DEF CampaignOf
  <2>2. nv'[d] = nv[d] \/ nv'[d].committed
    BY <1>t DEF RollbackVector, RollbackRefused, RollbackNv, RollbackNvFails, RollbackWipe,
                RolledBack, Types, TypeOK
  <2> QED
    BY <2>1, <2>2
<1> QED
  BY <1>n, <1>2, <1>3 DEF CampaignOf

----------------------------------------------------------------------------
(* The node's steps.                                                       *)

\* A node verdict.
LEMMA NodeVerdictSound ==
    ASSUME Ready, [Next]_vars, NEW k \in {"commit", "rollback"}, NodeVerdict(k),
           NEW d \in Components
    PROVE  SoundOf(d)' /\ (Strict' => CampaignOf(d)')
<1>n. node' = node /\ (Strict' => Strict) /\ primary' = primary /\ secondary' = secondary
      /\ fresh' = fresh /\ rebooted' = rebooted /\ running' = running /\ verdict = NoVerdict
      /\ Alone(d) /\ verdict'.kind = k /\ verdict'.todo = Candidates /\ verdict'.at = {}
  BY NodeKept, GuardsBefore DEF NodeVerdict, Alone, disk, Ready
<1>o. InTrial(d)' <=> InTrial(d)
  BY <1>n DEF InTrial
<1>1. SoundOf(d)'
  BY <1>n, SoundFrame DEF Ready
<1>2. ASSUME Strict PROVE CampaignOf(d)'
  <2>1. CampaignOf(d)
    BY <1>2 DEF Ready
  <2>2. InTrial(d) => d \in Candidates
    BY <1>2, StrictCalm, AllCandidates
  <2>3. k = "commit" /\ d \in Candidates => running[d] = primary[d].bank /\ ~PendingReboot(d)
    BY DEF NodeVerdict, MayCommit
  <2>4. ~nv[d].committed => secondary[d].bank = Other(nv[d].active)
    BY <1>n, <2>1 DEF CampaignOf, NoVerdict
  <2> QED
    BY <1>n, <1>o, <2>1, <2>2, <2>3, <2>4 DEF CampaignOf, Alone, PendingReboot
<1> QED
  BY <1>n, <1>1, <1>2

\* The boot limit.
LEMMA BailOutSound ==
    ASSUME Ready, [Next]_vars, BailOut, NEW d \in Components
    PROVE  SoundOf(d)' /\ (Strict' => CampaignOf(d)')
<1>n. node' = node /\ (Strict' => Strict) /\ nv' = nv /\ primary' = secondary
      /\ secondary' = secondary /\ flash' = flash /\ pc' = pc /\ pc[d] = "idle"
      /\ verdict = NoVerdict /\ ~serving /\ verdict'.kind = "rollback"
  BY NodeKept, GuardsBefore DEF BailOut, Quiet, Ready
<1>o. ~InTrial(d)'
  BY <1>n DEF InTrial
<1>t. SoundOf(d) /\ (Strict => CampaignOf(d))
  BY DEF Ready
<1>1. SoundOf(d)'
  BY <1>n, <1>t DEF SoundOf
<1>2. ASSUME Strict PROVE CampaignOf(d)'
  <2>1. ~nv[d].committed => secondary[d].bank = Other(nv[d].active)
    BY <1>n, <1>t, <1>2 DEF CampaignOf, NoVerdict
  <2> QED
    BY <1>n, <1>o, <2>1 DEF CampaignOf
<1> QED
  BY <1>n, <1>1, <1>2

\* A restart.  One that cuts a campaign, within the guard, cuts a rollback.
LEMMA RestartSound ==
    ASSUME Ready, [Next]_vars, Firm', Reset \/ Die, NEW d \in Components
    PROVE  SoundOf(d)' /\ (Strict' => CampaignOf(d)')
<1>1. PICK n \in BOOLEAN : Restart(n) /\ (Reset => n = TRUE)
  BY DEF Reset, Die
<1>n. (Strict' => Strict) /\ nv' = nv /\ secondary' = secondary /\ flash'[d] = NoFlash
      /\ pc'[d] = "idle" /\ verdict' = NoVerdict /\ (primary' = primary \/ primary' = secondary)
  BY <1>1, GuardsBefore DEF Restart, BootStage, Ready
<1>t. Types /\ SoundOf(d) /\ (Strict => CampaignOf(d))
  BY DEF Ready
<1>2. pc[d] # "commit_vector"
  <2>1. Reset => pc[d] = "idle"
    BY DEF Reset, Quiet
  <2>2. Die => pc[d] # "commit_vector"
    BY <1>t, DeathCuts DEF Firm, Saw
  <2> QED
    BY <2>1, <2>2
<1>3. SoundOf(d)'
  BY <1>n, <1>t, <1>2 DEF SoundOf
<1>4. ASSUME Strict', Strict PROVE CampaignOf(d)'
  <2>1. verdict.kind # "commit"
    <3>1. CASE Reset
      BY <3>1 DEF Reset, Quiet, NoVerdict
    <3>2. CASE Die
      <4>1. PICK c \in Components : pc[c] # "idle"
        BY <1>t, <1>4, <3>2, DeathCuts DEF Strict, Saw
      <4>2. pc[c] \in {"rollback_nv", "wipe"}
        <5>1. pc[c] \in Pcs
          BY <1>t DEF Types, TypeOK
        <5>2. pc[c] \notin {"activate", "undo_install", "commit_vector"}
          BY <1>t, <1>4, <3>2, DeathCuts DEF Strict, Saw
        <5> QED
          BY <4>1, <5>1, <5>2 DEF Pcs
      <4> QED
        BY <1>4, <4>2 DEF Ready, OrderlyOf
    <3> QED
      BY <3>1, <3>2
  <2>2. ~nv'[d].committed => secondary'[d].bank = Other(nv'[d].active)
    BY <1>n, <1>t, <1>4, <2>1 DEF CampaignOf
  <2> QED
    BY <1>n, <2>2 DEF CampaignOf, NoVerdict
<1> QED
  BY <1>n, <1>3, <1>4

\* Steps that change nothing but whether the process serves.
LEMMA ServeSound ==
    ASSUME Ready, [Next]_vars, Serve \/ UNCHANGED vars, NEW d \in Components
    PROVE  SoundOf(d)' /\ (Strict' => CampaignOf(d)')
<1>n. node' = node /\ (Strict' => Strict) /\ primary' = primary /\ secondary' = secondary
      /\ fresh' = fresh /\ rebooted' = rebooted /\ running' = running /\ verdict' = verdict
      /\ Alone(d)
  BY NodeKept, GuardsBefore DEF Serve, vars, Alone, disk, Ready
<1>o. \A e \in Components : InTrial(e)' <=> InTrial(e)
  BY <1>n DEF InTrial
<1>1. SoundOf(d)'
  BY <1>n, SoundFrame DEF Ready
<1>2. ASSUME Strict PROVE CampaignOf(d)'
  <2>1. CampaignOf(d)
    BY <1>2 DEF Ready
  <2> QED
    BY <1>n, <1>o, <2>1 DEF CampaignOf, Alone
<1> QED
  BY <1>n, <1>1, <1>2

----------------------------------------------------------------------------
(* The theorem.                                                            *)

\* A provisioned node has NV and vector on bank A, committed.
LEMMA InitSound == Init => SoundInv
<1> SUFFICES ASSUME Init PROVE SoundInv
  OBVIOUS
<1>1. ASSUME NEW c \in Components PROVE SoundOf(c) /\ CampaignOf(c)
  <2>1. /\ nv[c] = [active |-> "A", committed |-> TRUE]
        /\ primary[c] = [bank |-> "A", img |-> 1] /\ secondary[c] = primary[c]
        /\ pc[c] = "idle" /\ verdict = NoVerdict
    BY DEF Init
  <2> QED
    BY <2>1 DEF SoundOf, CampaignOf, InTrial, NoVerdict
<1> QED
  BY <1>1 DEF SoundInv

\* Where the guards hold after a step, the step had all of this to start from.
LEMMA ReadyBefore ==
    ASSUME Types, HeldInv, FreshInv, VerdictInv, OrderlyInv, SoundInv, [Next]_vars, Firm'
    PROVE  Ready
<1>1. Firm /\ Trusted
  BY GuardsBefore DEF Firm, Trusted, Saw
<1>2. Strict => Orderly
  BY DEF Strict, Orderly, Saw
<1> QED
  BY <1>1, <1>2 DEF Ready, HeldInv, FreshInv, OrderlyInv, SoundInv

\* Every step keeps the invariant.
LEMMA NextSound ==
    ASSUME OnlyOrCampaign, Types, HeldInv, FreshInv, VerdictInv, OrderlyInv, SoundInv,
           [Next]_vars
    PROVE  SoundInv'
<1> SUFFICES ASSUME Firm', NEW d \in Components
             PROVE  SoundOf(d)' /\ (Strict' => CampaignOf(d)')
  BY DEF SoundInv
<1>1. Ready /\ (Strict' => Strict) /\ node' = node
  BY ReadyBefore, GuardsBefore, NodeKept
<1>2. ASSUME NEW c \in Components, Flash(c)
      PROVE  SoundOf(d)' /\ (Strict' => CampaignOf(d)')
  <2>1. SoundOf(d)'
    <3>1. CASE d = c
      BY <1>1, <1>2, <3>1, FlashSound
    <3>2. CASE d # c
      BY <1>1, <1>2, <3>2, FlashAlone, SoundFrame DEF Ready
    <3> QED
      BY <3>1, <3>2
  <2> QED
    BY <1>1, <1>2, <2>1, FlashCampaign
<1>3. ASSUME NEW c \in Components, Judge(c)
      PROVE  SoundOf(d)' /\ (Strict' => CampaignOf(d)')
  <2>1. SoundOf(d)'
    BY <1>1, <1>3, JudgeSound
  <2>2. ASSUME Strict' PROVE CampaignOf(d)'
    <3>1. ~CommitVectorFails(c) /\ ~CommitRefused(c)
      BY <1>1, <2>2, CampaignCommits DEF CommitVectorFails, Fault, Firm, Saw
    <3> QED
      BY <1>1, <1>3, <2>2, <3>1, CommitNvCampaign, CommitVectorCampaign, RollbackCampaign
      DEF Judge
  <2> QED
    BY <2>1, <2>2
<1>4. ASSUME NEW k \in {"commit", "rollback"}, NodeVerdict(k)
      PROVE  SoundOf(d)' /\ (Strict' => CampaignOf(d)')
  BY <1>1, <1>4, NodeVerdictSound
<1>5. CASE Reset \/ Die
  BY <1>1, <1>5, RestartSound
<1>6. CASE Serve \/ UNCHANGED vars
  BY <1>1, <1>6, ServeSound
<1>7. CASE BailOut
  BY <1>1, <1>7, BailOutSound
<1> QED
  BY <1>2, <1>3, <1>4, <1>5, <1>6, <1>7 DEF Next

\* The inductive invariant.
LEMMA SoundHolds ==
    ASSUME OnlyOrCampaign
    PROVE  Spec => []SoundInv
<1>1. Types /\ HeldInv /\ FreshInv /\ VerdictInv /\ OrderlyInv /\ SoundInv /\ [Next]_vars
        => SoundInv'
  BY NextSound
<1>2. Spec => []HeldInv /\ []FreshInv /\ []OrderlyInv /\ []VerdictInv
  BY CampaignScripted, HeldHolds, FreshHolds, OrderlyHolds
<1> QED
  BY <1>1, <1>2, InitSound, TypesHold, PTL DEF Spec

\* No component is stuck: one that is committed in NV boots NV's bank, so that
\* start_flash, commit or rollback of backend.rs goes on being admitted.  That
\* survives a death anywhere but in a commit, a boot stage that restores the
\* floor without knowing NV, and any failed write but a seal, a vector commit or
\* the activators NoneStuck names, on every node that updates one component, by
\* any requests, or several by campaigns.
THEOREM NothingStuck ==
    ASSUME OnlyOrCampaign
    PROVE  Spec => []NoneStuck
<1>1. SoundInv => NoneStuck
  <2> SUFFICES ASSUME SoundInv, Firm, Quiet, NEW c \in Components, nv[c].committed
               PROVE  ~PendingReboot(c)
    BY DEF NoneStuck, Firm, CommittedBoots
  <2> QED
    BY DEF SoundInv, SoundOf, PendingReboot
<1> QED
  BY <1>1, SoundHolds, PTL

----------------------------------------------------------------------------
(* NV follows the vector.                                                  *)

\* The guard of NvFollowsVector.
Clean == ~Saw(Parting) /\ ~WithinVerdict

\* A component at rest whose NV is in trial is in trial in the vector too, or
\* its turn in a fan-out that has moved the vector is still to come.
RestOf(c) ==
    /\ pc[c] = "idle" /\ ~nv[c].committed =>
         \/ InTrial(c)
         \/ c \in verdict.todo /\ (verdict.kind = "rollback" \/ (~Only /\ verdict.kind = "commit"))
    /\ ~Only /\ verdict.kind = "rollback" /\ InTrial(c) => c \in verdict.todo

RestInv == Clean => \A c \in Components : RestOf(c)

\* The guard excludes more than NoneStuck's does.
LEMMA CleanMeans ==
    ASSUME OnlyOrCampaign, Types, Clean
    PROVE  Firm /\ (~Only => Strict)
<1>1. Firm
  BY DEF Clean, Firm, Saw, Parting
<1>2. ASSUME ~Only PROVE Strict
  <2>1. Cardinality(Updated) > 1
    BY <1>2, Several
  <2>2. Requests = {}
    BY <1>2, <2>1 DEF Clean, WithinVerdict, OnlyOrCampaign, Types, Only, Updated, Requests
  <2>3. ~Saw({"seal", "commit_vector", "die_commit", "commit_nv", "die_verdict",
              "die_finalize"})
    BY <2>1 DEF Clean, Saw, Parting
  <2> QED
    BY <1>2, <2>2, <2>3 DEF Strict
<1> QED
  BY <1>1, <1>2

\* The guard, once lost, stays lost.
LEMMA CleanBefore ==
    ASSUME Types, [Next]_vars, Clean'
    PROVE  Clean
<1>1. faults.seen \subseteq faults'.seen /\ node' = node
  BY SeenGrows, NodeKept
<1> QED
  BY <1>1 DEF Clean, Saw, Parting, WithinVerdict, Refinalized, Updated, Requests

\* What the steps below start from.
Resting == Ready /\ Clean /\ (~Only => Strict) /\ \A c \in Components : RestOf(c)

\* A component that is committed is out of trial, but for a commit under way.
LEMMA CommittedOut ==
    ASSUME Ready, NEW d \in Components, nv[d].committed, pc[d] # "commit_vector"
    PROVE  ~InTrial(d)
BY TrialBanks DEF Ready, SoundOf

\* Where one component is updated, the others are committed and at rest.
LEMMA OthersCommitted ==
    ASSUME Ready, Only, NEW c \in Updated, NEW d \in Components, d # c
    PROVE  nv[d].committed
BY OthersIdle DEF Ready, Held, Idle

\* Flashing: a finalize that succeeds leaves NV and vector in one trial.
LEMMA FlashRests ==
    ASSUME Resting, NEW c \in Components, Flash(c), Clean', NEW d \in Components
    PROVE  RestOf(d)'
<1> USE DEF disk
<1>n. node' = node /\ verdict' = verdict /\ secondary' = secondary
  BY DEF Flash, StartFlash, Upload, Abort, Validate, Invalidate, Activate, Relabel,
         FinalizeInstall, FinalizeInstallFails, FinalizeActivate, FinalizeActivateFails,
         UndoInstall, UndoInstallFails, EcuResetGuest, HealthConfirmed, EcuResetNode
<1>o. Only' <=> Only
  BY <1>n DEF Only, Updated
<1>t. Ready /\ Types /\ TypesOf(c) /\ RestOf(d) /\ Held(c) /\ pending = Unstaged
  BY TypesOfEach DEF Resting, Ready
<1>1. CASE d # c
  <2>1. Alone(d)
    BY <1>1, <1>t, FlashAlone
  <2> QED
    BY <1>n, <1>o, <1>t, <2>1 DEF RestOf, Alone, InTrial
<1>2. CASE d = c /\ \/ StartFlash(c) \/ Upload(c) \/ Abort(c)
                    \/ Validate(c) \/ Invalidate(c) \/ Activate(c)
                    \/ EcuResetGuest(c) \/ HealthConfirmed(c) \/ EcuResetNode(c)
  <2>1. nv' = nv /\ primary' = primary /\ pc' = pc
    BY <1>2 DEF StartFlash, Upload, Abort, Validate, Invalidate, Activate, Relabel,
                EcuResetGuest, HealthConfirmed, EcuResetNode
  <2> QED
    BY <1>n, <1>o, <1>t, <2>1 DEF RestOf, InTrial
<1>3. CASE d = c /\ (FinalizeInstall(c) \/ FinalizeInstallFails(c) \/ FinalizeActivateFails(c))
  <2>1. primary' = primary /\ pc'[c] # "idle"
    BY <1>3, <1>t DEF FinalizeInstall, FinalizeInstallFails, FinalizeActivateFails, Types, TypeOK
  <2> QED
    BY <1>3, <1>n, <1>o, <1>t, <2>1 DEF RestOf, InTrial
<1>4. CASE d = c /\ UndoInstall(c)
  <2>1. primary' = primary /\ nv'[c].committed
    BY <1>4, <1>t DEF UndoInstall, RolledBack, Types, TypeOK
  <2> QED
    BY <1>4, <1>n, <1>o, <1>t, <2>1 DEF RestOf, InTrial
<1>5. CASE d = c /\ FinalizeActivate(c)
  <2>1. /\ nv' = nv /\ pc[c] = "activate"
        /\ primary'[c] = [bank |-> nv[c].active, img |-> bank[c][nv[c].active]]
    BY <1>5, <1>t DEF FinalizeActivate, Staged, Types, TypeOK, Vector
  <2>2. ~Only => ~Judging
    BY <1>t, StrictCalm, FlashUnjudged DEF Resting
  <2>3. ~nv[c].committed => secondary[c].bank # nv[c].active
    <3>1. CASE Only
      BY <1>t, <3>1 DEF Held, TrialOf
    <3>2. CASE ~Only
      <4>1. CampaignOf(c) /\ verdict.kind = "none"
        BY <3>2, <2>2 DEF Resting, Ready, Judging
      <4> QED
        BY <4>1, <1>t, OtherBank DEF CampaignOf, TypesOf
    <3> QED
      BY <3>1, <3>2
  <2>4. ~nv[c].committed => InTrial(c)'
    BY <1>n, <2>1, <2>3 DEF InTrial
  <2> QED
    BY <1>5, <1>n, <1>o, <2>1, <2>2, <2>4 DEF RestOf, Judging
<1>6. ~UndoInstallFails(c)
  BY DEF UndoInstallFails, Fault, Clean, Saw, Parting
<1> QED
  BY <1>1, <1>2, <1>3, <1>4, <1>5, <1>6 DEF Flash

\* commit_flash, refused or not.
LEMMA CommitRests ==
    ASSUME OnlyOrCampaign, Resting, Strict' \/ Only, NEW c \in Components, NEW d \in Components,
           CommitNv(c) \/ CommitRefused(c) \/ CommitVector(c)
    PROVE  RestOf(d)'
<1> USE DEF disk
<1>n. node' = node /\ primary' = primary
  BY DEF CommitNv, CommitRefused, CommitVector
<1>o. Only' <=> Only
  BY <1>n DEF Only, Updated
<1>t. Ready /\ Types /\ RestOf(d) /\ RestOf(c) /\ Held(c) /\ OnlyOrScripted /\ (~Only => Strict)
  BY CampaignScripted DEF Resting, Ready
<1>1. c \in Updated
  BY <1>t DEF CommitNv, CommitRefused, CommitVector, Begin, Turn, Held, Idle
<1>2. CASE Only /\ d # c
  <2>1. nv'[d] = nv[d]
    BY <1>2, <1>t DEF CommitNv, CommitRefused, CommitVector, Types, TypeOK
  <2> QED
    BY <1>o, <1>1, <1>2, <1>t, <2>1, OthersCommitted DEF RestOf
<1>3. CASE d = c /\ (CommitNv(c) \/ CommitVector(c))
  <2>1. nv'[c].committed
    BY <1>3, <1>t DEF CommitNv, CommitVector, Held, HandlerOf, Types, TypeOK
  <2>2. ~Only => verdict'.kind # "rollback"
    <3>1. ~Only /\ CommitNv(c) => verdict'.kind = "commit"
      BY <1>t, Begun DEF CommitNv
    <3>2. ~Only /\ CommitVector(c) => verdict.kind = "commit" /\ End(c)
      BY <1>t DEF CommitVector, Held, ScriptOf
    <3> QED
      BY <1>3, <1>t, <3>1, <3>2, Ended
  <2> QED
    BY <1>3, <1>o, <2>1, <2>2 DEF RestOf
<1>4. CASE Only /\ d = c /\ CommitRefused(c)
  <2>1. verdict.kind = "commit" /\ nv' = nv /\ secondary' = secondary /\ pc' = pc
    BY <1>4 DEF CommitRefused, Turn
  <2> QED
    BY <1>4, <1>n, <1>o, <1>t, <2>1 DEF RestOf, InTrial
<1>5. CASE ~Only /\ d # c
  <2>0. ~CommitRefused(c)
    BY <1>5, <1>t, CampaignCommits
  <2>1. CASE CommitNv(c)
    <3>1. Alone(d)
      BY <1>5, <1>t, <2>1, JudgeAlone
    <3>2. verdict' = [verdict EXCEPT !.todo = @ \ {c}, !.at = {c}] /\ verdict.kind = "commit"
      BY <1>5, <1>t, <2>1 DEF CommitNv, Begin, Turn, Strict
    <3>3. verdict'.kind = "commit" /\ verdict'.todo = verdict.todo \ {c}
      BY <1>t, <3>2, TurnTaken
    <3> QED
      BY <1>5, <1>o, <1>t, <3>1, <3>2, <3>3 DEF RestOf, Alone, InTrial
  <2>2. CASE CommitVector(c)
    <3>1. verdict.kind = "commit" /\ verdict.at = {c} /\ verdict' = Without(c) /\ nv' = nv
          /\ secondary' = primary
      BY <1>5, <1>t, <2>2 DEF CommitVector, Held, ScriptOf, End
    <3>2. pc[d] = "idle" /\ CampaignOf(d)
      BY <1>5, <1>t, <3>1, StrictCalm, CampaignIdle DEF Ready
    <3>3. ~nv[d].committed => d \in verdict.todo
      BY <1>5, <1>t, <3>1, <3>2 DEF RestOf, CampaignOf
    <3>4. ~nv[d].committed => verdict'.kind = "commit" /\ d \in verdict'.todo
      BY <1>5, <1>t, <3>1, <3>3, WithoutKeeps
    <3>5. ~InTrial(d)'
      BY <1>n, <3>1 DEF InTrial
    <3> QED
      BY <1>5, <1>o, <3>1, <3>4, <3>5 DEF RestOf
  <2> QED
    BY <2>0, <2>1, <2>2
<1>6. CASE ~Only /\ d = c /\ CommitRefused(c)
  BY <1>6, <1>t, CampaignCommits
<1> QED
  BY <1>2, <1>3, <1>4, <1>5, <1>6

\* rollback_flash, refused or not.
LEMMA RollbackRests ==
    ASSUME OnlyOrCampaign, Resting, Clean', NEW c \in Components, NEW d \in Components,
           RollbackVector(c) \/ RollbackRefused(c) \/ RollbackNv(c) \/ RollbackWipe(c)
    PROVE  RestOf(d)'
<1> USE DEF disk
<1>n. node' = node /\ secondary' = secondary /\ (primary' = primary \/ primary' = secondary)
  BY DEF RollbackVector, RollbackRefused, RollbackNv, RollbackWipe
<1>o. (Only' <=> Only) /\ (InTrial(d)' => InTrial(d))
  BY <1>n DEF Only, Updated, InTrial
<1>t. Ready /\ Types /\ RestOf(d) /\ RestOf(c) /\ Held(c) /\ (~Only => Strict)
  BY DEF Resting, Ready
<1>1. c \in Updated
  BY <1>t DEF RollbackVector, RollbackRefused, RollbackNv, RollbackWipe, Begin, Turn, Held, Idle
<1>2. CASE Only /\ d # c
  <2>1. nv'[d] = nv[d]
    BY <1>2, <1>t DEF RollbackVector, RollbackRefused, RollbackNv, RollbackWipe, Types, TypeOK
  <2> QED
    BY <1>o, <1>1, <1>2, <1>t, <2>1, OthersCommitted DEF RestOf
<1>3. CASE RollbackRefused(c) /\ d = c
  <2>1. nv' = nv /\ primary' = primary /\ verdict' = Without(c) /\ pc[c] = "idle"
    BY <1>3 DEF RollbackRefused, Turn
  <2>2. ~Only => nv[c].committed
    <3>1. ~Only => ~Fault("rollback_vector")
      BY <1>n, <1>t, Several DEF Clean, Saw, Parting, Fault, Updated
    <3> QED
      BY <1>3, <3>1 DEF RollbackRefused
  <2>3. nv[c].committed => ~InTrial(c)
    BY <1>t, <2>1, CommittedOut
  <2>4. ASSUME ~nv[c].committed PROVE InTrial(c)
    <3>1. PICK e \in Components : InTrial(e)
      BY <1>3, <2>4 DEF RollbackRefused, TrialSet
    <3>2. e \in Updated
      BY <1>t, <3>1 DEF Ready, Held, Idle, InTrial
    <3>3. e = c
      BY <1>1, <2>2, <2>4, <3>2 DEF Only
    <3> QED
      BY <3>1, <3>3
  <2> QED
    BY <1>3, <1>n, <1>o, <2>1, <2>2, <2>3, <2>4 DEF RestOf, InTrial
<1>4. CASE RollbackVector(c) /\ d = c
  <2>1. pc'[c] # "idle" /\ ~InTrial(c)'
    BY <1>4, <1>n, <1>t DEF RollbackVector, Types, TypeOK, InTrial
  <2> QED
    BY <1>4, <2>1 DEF RestOf
<1>5. CASE (RollbackNv(c) \/ RollbackWipe(c)) /\ d = c
  <2>1. nv'[c].committed /\ ~InTrial(c)
    <3>1. CASE RollbackNv(c)
      <4>1. nv'[c].committed
        BY <1>t, <3>1 DEF RollbackNv, RolledBack, Types, TypeOK
      <4>2. Held(c)
        BY <1>t DEF Ready
      <4>3. primary[c].bank = secondary[c].bank
        BY <3>1, <4>2 DEF RollbackNv, Held, HandlerOf
      <4> QED
        BY <1>t, <4>1, <4>2, <4>3, TrialBanks
    <3>2. CASE RollbackWipe(c)
      BY <1>t, <3>2, CommittedOut DEF RollbackWipe, Held, HandlerOf
    <3> QED
      BY <1>5, <3>1, <3>2
  <2> QED
    BY <1>5, <1>o, <2>1 DEF RestOf
<1>6. CASE ~Only /\ d # c
  <2>1. nv'[d] = nv[d] /\ pc'[d] = pc[d]
    BY <1>6, <1>t, Ended
    DEF RollbackVector, RollbackRefused, RollbackNv, RollbackWipe, Types, TypeOK
  <2>2. verdict.kind = "rollback"
    BY <1>6, <1>t DEF RollbackVector, RollbackRefused, RollbackNv, RollbackWipe, Begin, Turn,
                      Strict, Ready, OrderlyOf
  <2>3. d \in verdict.todo => verdict'.kind = "rollback" /\ d \in verdict'.todo
    <3>1. \/ verdict' = [verdict EXCEPT !.todo = @ \ {c}, !.at = {c}]
          \/ verdict' = Without(c) \/ verdict' = verdict
      BY <1>6, <1>t DEF RollbackVector, RollbackRefused, RollbackNv, RollbackWipe, Begin, End
    <3> QED
      BY <1>6, <1>t, <2>2, <3>1, TurnTaken, WithoutKeeps
  <2> QED
    BY <1>6, <1>o, <1>t, <2>1, <2>2, <2>3 DEF RestOf
<1> QED
  BY <1>2, <1>3, <1>4, <1>5, <1>6

\* The node's steps.
LEMMA NodeRests ==
    ASSUME OnlyOrCampaign, Resting, Clean', NEW d \in Components,
           \/ \E k \in {"commit", "rollback"} : NodeVerdict(k)
           \/ Reset \/ BailOut \/ Serve \/ UNCHANGED vars
    PROVE  RestOf(d)'
<1> USE DEF disk
<1>t. Ready /\ Types /\ RestOf(d) /\ (~Only => Strict)
  BY DEF Resting, Ready
<1>r. verdict = NoVerdict /\ pc[d] = "idle" /\ ~nv[d].committed => InTrial(d)
  BY <1>t DEF RestOf, NoVerdict
<1>1. ASSUME NEW k \in {"commit", "rollback"}, NodeVerdict(k) PROVE RestOf(d)'
  <2>1. node' = node /\ nv' = nv /\ primary' = primary /\ secondary' = secondary /\ pc' = pc
        /\ verdict = NoVerdict /\ verdict'.todo = Candidates
    BY <1>1 DEF NodeVerdict
  <2>2. ~Only => (InTrial(d) => d \in Candidates)
    BY <1>1, <1>t, StrictCalm, AllCandidates
  <2> QED
    BY <1>r, <2>1, <2>2 DEF RestOf, InTrial, Only, Updated
<1>2. CASE Reset
  <2>1. "boot_stage" \notin faults'.seen
    BY DEF Clean, Saw, Parting
  <2>2. faults'.seen = faults.seen \cup Restored
    BY <1>2, <1>t DEF Reset, Types, TypeOK
  <2>3. primary' = primary
    BY <2>1, <2>2 DEF Restored
  <2>4. verdict = NoVerdict /\ pc[d] = "idle" /\ verdict' = NoVerdict /\ nv' = nv
        /\ secondary' = secondary
    BY <1>2 DEF Reset, Quiet, Restart
  <2> QED
    BY <1>r, <2>3, <2>4 DEF RestOf, InTrial, NoVerdict
<1>3. CASE BailOut
  <2>1. verdict = NoVerdict /\ pc[d] = "idle" /\ nv' = nv /\ primary' = secondary
        /\ secondary' = secondary /\ verdict'.kind = "rollback" /\ verdict'.todo = TrialSet
    BY <1>3 DEF BailOut, Quiet
  <2> QED
    BY <1>r, <2>1 DEF RestOf, InTrial, TrialSet
<1>4. CASE Serve \/ UNCHANGED vars
  BY <1>t, <1>4 DEF Serve, vars, RestOf, InTrial, Only, Updated
<1> QED
  BY <1>1, <1>2, <1>3, <1>4

\* Every step keeps the invariant; a death ends its guard.
LEMMA NextRests ==
    ASSUME OnlyOrCampaign, Types, Types', HeldInv, FreshInv, VerdictInv, OrderlyInv, SoundInv,
           RestInv, [Next]_vars
    PROVE  RestInv'
<1> SUFFICES ASSUME Clean', NEW d \in Components
             PROVE  RestOf(d)'
  BY DEF RestInv
<1>1. Clean /\ Firm /\ (~Only => Strict)
  BY CleanBefore, CleanMeans
<1>2. Resting
  <2>1. Strict => Orderly
    BY DEF Strict, Orderly, Saw
  <2> QED
    BY <1>1, <2>1 DEF Resting, RestInv, Ready, HeldInv, FreshInv, OrderlyInv, SoundInv, Firm,
                      Trusted, Saw
<1>3. Strict' \/ Only
  <2>1. node' = node /\ faults.seen \subseteq faults'.seen
    BY NodeKept, SeenGrows
  <2>2. ~Only => Cardinality(Updated) > 1
    BY Several
  <2> QED
    BY <1>1, <2>1, <2>2 DEF Strict, Only, Updated, Requests, Clean, Saw, Parting
<1>4. ASSUME NEW c \in Components, Flash(c) PROVE RestOf(d)'
  BY <1>2, <1>4, FlashRests
<1>5. ASSUME NEW c \in Components, Judge(c) PROVE RestOf(d)'
  <2>1. ~CommitVectorFails(c) /\ ~RollbackNvFails(c)
    BY DEF CommitVectorFails, RollbackNvFails, Fault, Clean, Saw, Parting
  <2> QED
    BY <1>2, <1>3, <1>5, <2>1, CommitRests, RollbackRests DEF Judge
<1>6. ~Die
  <2> SUFFICES ASSUME Die PROVE FALSE
    OBVIOUS
  <2>1. \A c \in Components : pc[c] = "idle"
    <3>1. \A c \in Components : pc[c] \in Pcs
      BY DEF Types, TypeOK
    <3>2. \A c \in Components : pc[c] \notin {"activate", "undo_install", "commit_vector",
                                              "rollback_nv", "wipe"}
      BY DeathCuts DEF Clean, Saw, Parting
    <3> QED
      BY <3>1, <3>2 DEF Pcs
  <2> QED
    BY <2>1, DeathCuts DEF Clean, Saw, Parting
<1> QED
  BY <1>2, <1>4, <1>5, <1>6, NodeRests DEF Next

\* The inductive invariant.
LEMMA RestHolds ==
    ASSUME OnlyOrCampaign
    PROVE  Spec => []RestInv
<1>1. Init => RestInv
  BY DEF Init, RestInv, RestOf, InTrial, NoVerdict
<1>2. Types /\ Types' /\ HeldInv /\ FreshInv /\ VerdictInv /\ OrderlyInv /\ SoundInv /\ RestInv
      /\ [Next]_vars => RestInv'
  BY NextRests
<1>3. Spec => []HeldInv /\ []FreshInv /\ []OrderlyInv /\ []VerdictInv
  BY CampaignScripted, HeldHolds, FreshHolds, OrderlyHolds
<1> QED
  BY <1>1, <1>2, <1>3, TypesHold, SoundHolds, PTL DEF Spec

\* Between handlers a component's NV boot state is what the boot vector says:
\* the bank it boots, in trial or committed as the vector has it.  backend.rs
\* writes the two one after the other, and the vector's verbs move every
\* component at once; the fan-out of run_verdict brings each back together.  On
\* every node that updates one component, by any requests, or several by
\* campaigns, under the faults NvFollowsVector names.
THEOREM NvFollows ==
    ASSUME OnlyOrCampaign
    PROVE  Spec => []NvFollowsVector
<1>1. Types /\ HeldInv /\ SoundInv /\ RestInv => NvFollowsVector
  <2> SUFFICES ASSUME Types, HeldInv, SoundInv, RestInv, Quiet, Clean, NEW c \in Components
               PROVE  nv[c] = [active |-> primary[c].bank, committed |-> ~InTrial(c)]
    BY DEF NvFollowsVector, Clean
  <2>t. TypesOf(c) /\ Held(c) /\ SoundOf(c) /\ RestOf(c) /\ (~Only => CampaignOf(c))
    BY TypesOfEach, CleanMeans DEF SoundInv, RestInv, HeldInv, Firm, Trusted, Saw
  <2>q. pc[c] = "idle" /\ verdict = NoVerdict
    BY DEF Quiet
  <2>1. CASE nv[c].committed
    <3>1. primary[c].bank = nv[c].active /\ secondary[c].bank = nv[c].active
      BY <2>1, <2>t, <2>q DEF SoundOf
    <3>2. ~InTrial(c)
      BY <2>t, <3>1, TrialBanks
    <3> QED
      BY <2>1, <3>1, <3>2 DEF Types, TypeOK
  <2>2. CASE ~nv[c].committed
    <3>1. InTrial(c)
      BY <2>2, <2>t, <2>q DEF RestOf, NoVerdict
    <3>2. primary[c].bank = nv[c].active
      <4>1. secondary[c].bank # nv[c].active
        BY <2>2, <2>t, <3>1, TrialBanks DEF Held, TrialOf
      <4> QED
        BY <2>t, <3>1, <4>1, TrialBanks, OtherBank DEF TypesOf
    <3> QED
      BY <2>2, <3>1, <3>2 DEF Types, TypeOK
  <2> QED
    BY <2>1, <2>2
<1>2. Spec => []HeldInv
  BY CampaignScripted, HeldHolds
<1> QED
  BY <1>1, <1>2, TypesHold, SoundHolds, RestHolds, PTL


----------------------------------------------------------------------------
(* A finalize arms what was uploaded.                                      *)

\* The guard of FinalizeArms.
Installs ==
    /\ ~Saw({"install", "seal", "commit_vector"}) /\ ~WithinVerdict
    /\ Cardinality(Updated) > 1 =>
         ~Saw({"commit_nv", "die_commit", "die_verdict", "die_finalize"})

\* The bank that an upload goes to, before and after its install.
Landing(c) == IF nv[c].committed THEN Other(nv[c].active) ELSE nv[c].active

\* A package is in that bank, until a commit ends its transfer; a finalize past
\* its install has installed it.
ArmOf(c) ==
    flash[c].package =>
        /\ pc[c] # "commit_vector" => bank[c][Landing(c)] = uploaded[c]
        /\ pc[c] = "activate" => ~nv[c].committed

ArmInv == Installs => \A c \in Components : ArmOf(c)

\* The guard excludes what the invariants above exclude.
LEMMA InstallsMeans ==
    ASSUME OnlyOrCampaign, Types, Installs
    PROVE  Trusted /\ (~Only => Strict /\ Firm)
<1>1. Trusted
  BY DEF Installs, Trusted, Saw
<1>2. ASSUME ~Only PROVE Strict /\ Firm
  <2>1. Cardinality(Updated) > 1
    BY <1>2, Several
  <2>2. Requests = {}
    BY <1>2, <2>1 DEF Installs, WithinVerdict, OnlyOrCampaign, Types, Only, Updated, Requests
  <2>3. ~Saw({"seal", "commit_vector", "die_commit", "commit_nv", "die_verdict",
              "die_finalize"})
    BY <2>1 DEF Installs, Saw
  <2>4. Strict
    BY <1>2, <2>2, <2>3 DEF Strict
  <2> QED
    BY <2>2, <2>3, <2>4 DEF Firm, Refinalized, WithinVerdict, Saw
<1> QED
  BY <1>1, <1>2

\* The guard, once lost, stays lost.
LEMMA InstallsBefore ==
    ASSUME Types, [Next]_vars, Installs'
    PROVE  Installs
<1>1. faults.seen \subseteq faults'.seen /\ node' = node
  BY SeenGrows, NodeKept
<1> QED
  BY <1>1 DEF Installs, Saw, WithinVerdict, Updated, Requests

\* What the steps below start from.
Arming ==
    /\ Types /\ pending = Unstaged
    /\ \A c \in Components : Held(c) /\ ArmOf(c) /\ (~Only => OrderlyOf(c) /\ CampaignOf(c))

\* An upload is to the bank that is not NV's, of a component committed in NV.
LEMMA UploadLands ==
    ASSUME Arming, NEW c \in Components, Upload(c)
    PROVE  nv[c].committed
<1>1. Held(c) /\ TypesOf(c) /\ (~Only => OrderlyOf(c) /\ CampaignOf(c))
  BY TypesOfEach DEF Arming
<1>2. Open(c) /\ flash[c] # NoFlash
  BY DEF Upload, Open, NoFlash
<1>3. secondary[c].bank = nv[c].active
  BY <1>1, <1>2 DEF Held, OpenOf
<1>4. Only \/ verdict.kind # "commit"
  BY <1>1, <1>2 DEF OrderlyOf, Judging
<1>5. secondary[c].bank # Other(nv[c].active)
  BY <1>1, <1>3, OtherBank DEF TypesOf
<1> QED
  BY <1>1, <1>3, <1>4, <1>5 DEF Held, TrialOf, CampaignOf

\* Install and its undo keep the landing bank.
LEMMA LandingKept ==
    ASSUME Types, NEW c \in Components,
           \/ nv'[c] = nv[c]
           \/ /\ nv'[c].active = Other(nv[c].active)
              /\ nv'[c].committed <=> ~nv[c].committed
    PROVE  Landing(c)' = Landing(c)
<1>1. Other(Other(nv[c].active)) = nv[c].active
  BY TypesOfEach, OtherBank DEF TypesOf
<1>2. CASE nv'[c] = nv[c]
  BY <1>2 DEF Landing
<1>3. CASE nv'[c].active = Other(nv[c].active) /\ (nv'[c].committed <=> ~nv[c].committed)
  BY <1>1, <1>3 DEF Landing
<1> QED
  BY <1>2, <1>3

\* The component that is flashed.
LEMMA FlashArms ==
    ASSUME Arming, NEW c \in Components, Flash(c), Installs'
    PROVE  ArmOf(c)'
<1> USE DEF disk
<1>t. Types /\ TypesOf(c) /\ ArmOf(c)
  BY TypesOfEach DEF Arming
<1>1. CASE StartFlash(c) \/ Abort(c)
  <2>1. ~flash'[c].package
    BY <1>1, <1>t DEF StartFlash, Abort, NoFlash, Types, TypeOK
  <2> QED
    BY <2>1 DEF ArmOf
<1>2. CASE Upload(c)
  <2>1. nv' = nv /\ pc' = pc /\ pc[c] = "idle" /\ images + 1 \in Image
    BY <1>2, <1>t, BoundsAssumption DEF Upload, Types, TypeOK, Image
  <2>2. bank'[c][Target(c)] = images + 1 /\ uploaded'[c] = images + 1
    <3>1. Target(c) \in Banks
      BY <1>t, OtherBank DEF Target, TypesOf
    <3> QED
      BY <1>2, <1>t, <2>1, <3>1 DEF Upload, Types, TypeOK
  <2>3. Landing(c)' = Target(c)
    BY <1>2, <2>1, UploadLands DEF Landing, Target
  <2> QED
    BY <2>1, <2>2, <2>3 DEF ArmOf
<1>3. CASE \/ Validate(c) \/ Invalidate(c) \/ Activate(c)
           \/ EcuResetGuest(c) \/ HealthConfirmed(c) \/ EcuResetNode(c)
  <2>1. nv' = nv /\ bank' = bank /\ uploaded' = uploaded /\ pc' = pc
    BY <1>3 DEF Validate, Invalidate, Activate, Relabel, EcuResetGuest, HealthConfirmed,
                EcuResetNode
  <2>2. \E s \in States : flash' = flash \/ flash' = InState(c, s)
    BY <1>3 DEF Validate, Invalidate, Activate, Relabel, EcuResetGuest, HealthConfirmed,
                EcuResetNode, States
  <2>3. flash'[c].package = flash[c].package
    <3>1. PICK s \in States : flash' = flash \/ flash' = InState(c, s)
      BY <2>2
    <3>2. InState(c, s)[c].package = flash[c].package
      BY <1>t, InStateType DEF Types, TypeOK
    <3> QED
      BY <3>1, <3>2
  <2> QED
    BY <1>t, <2>1, <2>3 DEF ArmOf, Landing
<1>4. CASE FinalizeInstall(c)
  <2>1. bank' = bank /\ uploaded' = uploaded /\ flash' = flash /\ pc[c] = "idle"
    BY <1>4 DEF FinalizeInstall, Finalize
  <2>2. flash[c].package => nv'[c] = Installed(nv[c])
    BY <1>4, <1>t DEF FinalizeInstall, Types, TypeOK
  <2>3. flash[c].package => Landing(c)' = Landing(c) /\ ~nv'[c].committed
    <3>1. CASE nv[c].committed
      BY <1>t, <2>2, <3>1, LandingKept DEF Installed
    <3>2. CASE ~nv[c].committed
      BY <1>t, <2>2, <3>2, LandingKept DEF Installed
    <3> QED
      BY <3>1, <3>2
  <2> QED
    BY <1>t, <2>1, <2>3 DEF ArmOf
<1>5. ~FinalizeInstallFails(c)
  BY DEF FinalizeInstallFails, Fault, Installs, Saw
<1>6. CASE FinalizeActivate(c) \/ FinalizeActivateFails(c) \/ UndoInstallFails(c)
  <2>1. nv' = nv /\ bank' = bank /\ uploaded' = uploaded
        /\ pc[c] \in {"activate", "undo_install"} /\ pc'[c] \in {"idle", "undo_install"}
    BY <1>6, <1>t DEF FinalizeActivate, FinalizeActivateFails, UndoInstallFails, Types, TypeOK
  <2>2. flash' = flash \/ flash' = InState(c, "awaiting_reboot")
    BY <1>6 DEF FinalizeActivate, FinalizeActivateFails, UndoInstallFails
  <2>3. flash'[c].package = flash[c].package
    BY <1>t, <2>2, InStateType DEF Types, TypeOK, States
  <2> QED
    BY <1>t, <2>1, <2>3 DEF ArmOf, Landing
<1>7. CASE UndoInstall(c)
  <2>1. bank' = bank /\ uploaded' = uploaded /\ flash' = flash /\ pc[c] = "undo_install"
        /\ pc'[c] = "idle"
    BY <1>7, <1>t DEF UndoInstall, Types, TypeOK
  <2>2. nv'[c] = IF nv[c].committed THEN nv[c] ELSE RolledBack(nv[c])
    BY <1>7, <1>t DEF UndoInstall, Types, TypeOK
  <2>3. Landing(c)' = Landing(c)
    BY <1>t, <2>2, LandingKept DEF RolledBack, TypesOf
  <2> QED
    BY <1>t, <2>1, <2>3 DEF ArmOf
<1> QED
  BY <1>1, <1>2, <1>3, <1>4, <1>5, <1>6, <1>7 DEF Flash

\* The component that is judged.
LEMMA JudgeArms ==
    ASSUME Arming, NEW c \in Components, Judge(c), Installs'
    PROVE  ArmOf(c)'
<1> USE DEF disk
<1>t. Types /\ TypesOf(c) /\ ArmOf(c) /\ Held(c)
  BY TypesOfEach DEF Arming
<1>1. CASE CommitNv(c)
  <2>1. pc'[c] = "commit_vector"
    BY <1>1, <1>t DEF CommitNv, Types, TypeOK
  <2> QED
    BY <2>1 DEF ArmOf
<1>2. CASE CommitRefused(c) \/ RollbackRefused(c)
  BY <1>2, <1>t DEF CommitRefused, RollbackRefused, ArmOf, Landing
<1>3. CASE CommitVector(c) \/ RollbackWipe(c)
  <2>1. ~flash'[c].package
    BY <1>3, <1>t DEF CommitVector, RollbackWipe, NoFlash, Types, TypeOK
  <2> QED
    BY <2>1 DEF ArmOf
<1>4. ~CommitVectorFails(c)
  BY DEF CommitVectorFails, Fault, Installs, Saw
<1>5. CASE RollbackVector(c) \/ RollbackNvFails(c)
  <2>1. nv' = nv /\ bank' = bank /\ uploaded' = uploaded /\ flash' = flash
        /\ pc[c] # "commit_vector"
    BY <1>5 DEF RollbackVector, RollbackNvFails, NvFree
  <2>2. pc'[c] \in {"idle", "rollback_nv"}
    BY <1>5, <1>t, Ended DEF RollbackVector, RollbackNvFails, Types, TypeOK
  <2> QED
    BY <1>t, <2>1, <2>2 DEF ArmOf, Landing
<1>6. CASE RollbackNv(c)
  <2>1. bank' = bank /\ uploaded' = uploaded /\ flash' = flash /\ pc[c] = "rollback_nv"
        /\ pc'[c] = "wipe" /\ nv'[c] = RolledBack(nv[c])
    BY <1>6, <1>t DEF RollbackNv, Types, TypeOK
  <2>2. ~nv[c].committed
    BY <1>t, <2>1 DEF Held, HandlerOf
  <2>3. Landing(c)' = Landing(c)
    BY <1>t, <2>1, <2>2, LandingKept DEF RolledBack
  <2> QED
    BY <1>t, <2>1, <2>3 DEF ArmOf
<1> QED
  BY <1>1, <1>2, <1>3, <1>4, <1>5, <1>6 DEF Judge

\* The others.
LEMMA OthersArmed ==
    ASSUME Arming, NEW c \in Components, Flash(c) \/ Judge(c), NEW d \in Components, d # c
    PROVE  ArmOf(d)'
<1> USE DEF disk
<1>t. Types /\ ArmOf(d)
  BY DEF Arming
<1>1. nv'[d] = nv[d] /\ pc'[d] = pc[d]
  <2>1. CASE Flash(c)
    BY <1>t, <2>1, FlashAlone DEF Arming, Alone
  <2>2. CASE Judge(c)
    BY <1>t, <2>2, Ended
    DEF Judge, CommitNv, CommitRefused, CommitVector, CommitVectorFails, RollbackVector,
        RollbackRefused, RollbackNv, RollbackNvFails, RollbackWipe, Types, TypeOK
  <2> QED
    BY <2>1, <2>2
<1>2. bank'[d] = bank[d] /\ flash'[d] = flash[d] /\ uploaded'[d] = uploaded[d]
  <2>1. CASE Flash(c)
    <3>1. uploaded'[d] = uploaded[d]
      BY <1>t, <2>1
      DEF Flash, StartFlash, Upload, Abort, Validate, Invalidate, Activate, Relabel,
          FinalizeInstall, FinalizeInstallFails, FinalizeActivate, FinalizeActivateFails,
          UndoInstall, UndoInstallFails, EcuResetGuest, HealthConfirmed, EcuResetNode, Types, TypeOK
    <3> QED
      BY <1>t, <2>1, <3>1, FlashAlone DEF Arming, Alone
  <2>2. CASE Judge(c)
    BY <1>t, <2>2
    DEF Judge, CommitNv, CommitRefused, CommitVector, CommitVectorFails, RollbackVector,
        RollbackRefused, RollbackNv, RollbackNvFails, RollbackWipe, Types, TypeOK
  <2> QED
    BY <2>1, <2>2
<1> QED
  BY <1>t, <1>1, <1>2 DEF ArmOf, Landing

\* Where the guard holds after a step, the step had all of this to start from.
LEMMA ArmingBefore ==
    ASSUME OnlyOrCampaign, Types, HeldInv, OrderlyInv, SoundInv, ArmInv, Installs
    PROVE  Arming
<1>1. Strict => Orderly
  BY DEF Strict, Orderly, Saw
<1> QED
  BY <1>1, InstallsMeans DEF Arming, HeldInv, OrderlyInv, SoundInv, ArmInv

\* Every step keeps the invariant.
LEMMA NextArms ==
    ASSUME OnlyOrCampaign, Types, HeldInv, OrderlyInv, SoundInv, ArmInv, [Next]_vars
    PROVE  ArmInv'
<1> SUFFICES ASSUME Installs', NEW d \in Components
             PROVE  ArmOf(d)'
  BY DEF ArmInv
<1>1. Arming /\ ArmOf(d)
  BY InstallsBefore, ArmingBefore DEF Arming
<1>2. ASSUME NEW c \in Components, Flash(c) \/ Judge(c) PROVE ArmOf(d)'
  BY <1>1, <1>2, FlashArms, JudgeArms, OthersArmed
<1>3. CASE \/ \E k \in {"commit", "rollback"} : NodeVerdict(k)
           \/ Serve \/ BailOut \/ UNCHANGED vars
  <2>1. nv' = nv /\ bank' = bank /\ uploaded' = uploaded /\ flash' = flash /\ pc' = pc
    BY <1>3 DEF NodeVerdict, Serve, BailOut, vars, disk
  <2> QED
    BY <1>1, <2>1 DEF ArmOf, Landing
<1>4. CASE Reset \/ Die
  <2>1. flash'[d] = NoFlash
    BY <1>4 DEF Reset, Die, Restart
  <2> QED
    BY <2>1 DEF ArmOf, NoFlash
<1> QED
  BY <1>2, <1>3, <1>4 DEF Next

\* A handler leaves "activate" for rest, with the process serving, by its seal only.
LEMMA ActivateEnds ==
    ASSUME Types, pending = Unstaged, NEW c \in Components, [Next]_vars,
           pc[c] = "activate", pc'[c] = "idle", serving'
    PROVE  FinalizeActivate(c)
<1> USE DEF disk
<1>1. ASSUME NEW d \in Components, Flash(d), d # c PROVE FALSE
  BY <1>1, FlashAlone DEF Alone
<1>2. ASSUME NEW d \in Components, Judge(d) PROVE FALSE
  <2>1. CASE d # c
    BY <1>2, <2>1, Ended
    DEF Judge, CommitNv, CommitRefused, CommitVector, CommitVectorFails, RollbackVector,
        RollbackRefused, RollbackNv, RollbackNvFails, RollbackWipe, Types, TypeOK
  <2>2. CASE d = c
    BY <1>2, <2>2
    DEF Judge, CommitNv, CommitRefused, CommitVector, CommitVectorFails, RollbackVector,
        RollbackRefused, RollbackNv, RollbackNvFails, RollbackWipe, Begin, Turn
  <2> QED
    BY <2>1, <2>2
<1>3. ~(Reset \/ Die)
  BY DEF Reset, Die, Restart
<1>4. ~(\/ \E k \in {"commit", "rollback"} : NodeVerdict(k)
        \/ Serve \/ BailOut \/ UNCHANGED vars)
  BY DEF NodeVerdict, Serve, BailOut, vars
<1>5. Flash(c)
  BY <1>1, <1>2, <1>3, <1>4 DEF Next
<1> QED
  BY <1>5 DEF Flash, StartFlash, Upload, Abort, Validate, Invalidate, Activate, Relabel,
              FinalizeInstall, FinalizeInstallFails, Finalize, FinalizeActivate,
              FinalizeActivateFails, UndoInstall, UndoInstallFails, EcuResetGuest, HealthConfirmed,
              EcuResetNode, Types, TypeOK

\* finalize_flash that succeeds makes the uploaded image the one that boots: NV
\* still names the bank that was uploaded to when the provider's activate seals
\* it, although others are flashed and judged between the two.  On every node that
\* updates one component, by any requests, or several by campaigns, under the
\* faults FinalizeArms names.
THEOREM FinalizeArmsUpload ==
    ASSUME OnlyOrCampaign
    PROVE  Spec => FinalizeArms
<1>1. Init => ArmInv
  BY DEF Init, ArmInv, ArmOf, NoFlash
<1>2. Types /\ HeldInv /\ OrderlyInv /\ SoundInv /\ ArmInv /\ [Next]_vars => ArmInv'
  BY NextArms
<1>3. ASSUME Types, HeldInv, OrderlyInv, SoundInv, ArmInv, [Next]_vars, Installs,
             NEW c \in Components, pc[c] = "activate", pc'[c] = "idle", serving', flash[c].package
      PROVE  primary'[c].img = uploaded[c]
  <2>1. Arming /\ ArmOf(c) /\ TypesOf(c)
    BY <1>3, ArmingBefore, TypesOfEach DEF Arming
  <2>2. FinalizeActivate(c)
    BY <1>3, <2>1, ActivateEnds DEF Arming
  <2>3. primary'[c] = [bank |-> nv[c].active, img |-> bank[c][nv[c].active]]
    BY <1>3, <2>1, <2>2 DEF FinalizeActivate, Staged, Types, TypeOK, Vector, Arming
  <2> QED
    BY <1>3, <2>1, <2>3 DEF ArmOf, Landing
<1>4. Types /\ HeldInv /\ OrderlyInv /\ SoundInv /\ ArmInv /\ [Next]_vars =>
        [\A c \in Components :
           /\ pc[c] = "activate" /\ pc'[c] = "idle" /\ serving' /\ flash[c].package
           /\ ~Saw({"install", "seal", "commit_vector"}) /\ ~WithinVerdict
           /\ Cardinality(Updated) > 1 =>
                ~Saw({"commit_nv", "die_commit", "die_verdict", "die_finalize"})
           => primary'[c].img = uploaded[c]]_vars
  BY <1>3 DEF Installs
<1>5. Spec => []HeldInv /\ []OrderlyInv
  BY CampaignScripted, HeldHolds, OrderlyHolds
<1> QED
  BY <1>1, <1>2, <1>4, <1>5, TypesHold, SoundHolds, PTL DEF Spec, FinalizeArms

----------------------------------------------------------------------------
(* The floor moves to what runs.                                           *)

\* Every kind of node updates one component at most, or several by campaigns
\* whose writes to the boot vector do not fail.
OnlyOrSealed ==
    \A n \in Nodes : \/ \A c, d \in n.updated : c = d
                     \/ /\ n.requests \subseteq {"overlap"}
                        /\ n.faults \cap {"seal", "commit_vector"} = {}

\* It is what the invariants of campaigns ask for, and more.
LEMMA SealedMeans ==
    ASSUME OnlyOrSealed
    PROVE  /\ OnlyOrCampaign
           /\ Types /\ ~Only => Trusted
<1>1. OnlyOrCampaign
  BY DEF OnlyOrSealed, OnlyOrCampaign
<1>2. ASSUME Types, ~Only PROVE Trusted
  <2>1. Faults \cap {"seal", "commit_vector"} = {}
    BY <1>2 DEF OnlyOrSealed, Types, Only, Updated, Faults
  <2>2. faults.seen \subseteq Faults
    BY <1>2 DEF Types, TypeOK
  <2> QED
    BY <2>1, <2>2 DEF Trusted, Saw
<1> QED
  BY <1>1, <1>2

\* A component that is not updated is never in trial, nor staged to be.
Untouched(c) ==
    c \notin Updated =>
        /\ flash[c] = NoFlash /\ pc[c] = "idle" /\ c \notin verdict.todo
        /\ primary[c] = secondary[c]
        /\ pending # Unstaged => pending[c] = secondary[c]

\* Between the two writes of a commit the component still runs what boots: the
\* NV lock is kept.
RunsOf(c) == pc[c] = "commit_vector" => running[c] = primary[c].bank

RunsInv == \A c \in Components : Untouched(c) /\ RunsOf(c)

\* Handlers are of updated components.
LEMMA HandlersUpdate ==
    ASSUME Types, RunsInv, NEW c \in Components, Flash(c) \/ Judge(c)
    PROVE  c \in Updated
<1> SUFFICES ASSUME c \notin Updated PROVE FALSE
  OBVIOUS
<1>1. flash[c] = NoFlash /\ pc[c] = "idle" /\ c \notin verdict.todo
  BY DEF RunsInv, Untouched
<1>2. ~Flash(c)
  BY <1>1 DEF Flash, StartFlash, Upload, Abort, Validate, Invalidate, Activate, Relabel,
              FinalizeInstall, FinalizeInstallFails, Finalize, FinalizeActivate,
              FinalizeActivateFails, UndoInstall, UndoInstallFails, EcuResetGuest, HealthConfirmed,
              EcuResetNode, NoFlash
<1>3. ~Judge(c)
  BY <1>1 DEF Judge, CommitNv, CommitRefused, CommitVector, CommitVectorFails, RollbackVector,
              RollbackRefused, RollbackNv, RollbackNvFails, RollbackWipe, Begin, Turn
<1> QED
  BY <1>2, <1>3

\* A handler leaves the components alone that are not updated.
LEMMA HandlersLeave ==
    ASSUME Types, RunsInv, NEW c \in Components, Flash(c) \/ Judge(c), NEW d \in Components
    PROVE  Untouched(d)'
<1> USE DEF disk
<1>n. node' = node
  BY NodeKept DEF Next
<1> SUFFICES ASSUME d \notin Updated
             PROVE  /\ flash'[d] = NoFlash /\ pc'[d] = "idle" /\ d \notin verdict'.todo
                    /\ primary'[d] = secondary'[d]
                    /\ pending' # Unstaged => pending'[d] = secondary'[d]
  BY <1>n DEF Untouched, Updated
<1>1. d # c
  BY HandlersUpdate
<1>2. /\ flash[d] = NoFlash /\ pc[d] = "idle" /\ d \notin verdict.todo
      /\ primary[d] = secondary[d]
      /\ pending # Unstaged => pending[d] = secondary[d]
  BY DEF RunsInv, Untouched
<1>3. Staged(c)[d] = secondary[d]
  BY <1>1, <1>2 DEF Staged, Types, TypeOK, Vector
<1>4. CASE Flash(c)
  <2>1. flash'[d] = flash[d]
    <3>1. \A s : InState(c, s)[d] = flash[d]
      BY <1>1 DEF InState, Types, TypeOK
    <3> QED
      BY <1>1, <1>4, <3>1
      DEF Flash, StartFlash, Upload, Abort, Validate, Invalidate, Activate, Relabel,
          FinalizeInstall, FinalizeInstallFails, FinalizeActivate, FinalizeActivateFails,
          UndoInstall, UndoInstallFails, EcuResetGuest, HealthConfirmed, EcuResetNode, Types, TypeOK
  <2>2. pc'[d] = pc[d] /\ verdict' = verdict /\ secondary' = secondary
    BY <1>1, <1>4
    DEF Flash, StartFlash, Upload, Abort, Validate, Invalidate, Activate, Relabel,
        FinalizeInstall, FinalizeInstallFails, FinalizeActivate, FinalizeActivateFails,
        UndoInstall, UndoInstallFails, EcuResetGuest, HealthConfirmed, EcuResetNode, Types, TypeOK
  <2>3. primary' \in {primary, Staged(c)} /\ pending' \in {pending, Unstaged, Staged(c)}
    BY <1>4
    DEF Flash, StartFlash, Upload, Abort, Validate, Invalidate, Activate, Relabel,
        FinalizeInstall, FinalizeInstallFails, FinalizeActivate, FinalizeActivateFails,
        UndoInstall, UndoInstallFails, EcuResetGuest, HealthConfirmed, EcuResetNode
  <2> QED
    BY <1>2, <1>3, <2>1, <2>2, <2>3
<1>5. CASE Judge(c)
  <2>1. flash'[d] = flash[d] /\ pc'[d] = pc[d]
    BY <1>1, <1>5, Ended
    DEF Judge, CommitNv, CommitRefused, CommitVector, CommitVectorFails, RollbackVector,
        RollbackRefused, RollbackNv, RollbackNvFails, RollbackWipe, Types, TypeOK
  <2>2. verdict' = verdict \/ verdict' = Without(c)
          \/ verdict' = [verdict EXCEPT !.todo = @ \ {c}, !.at = {c}]
    BY <1>5 DEF Judge, CommitNv, CommitRefused, CommitVector, CommitVectorFails,
                RollbackVector, RollbackRefused, RollbackNv, RollbackNvFails, RollbackWipe,
                Begin, End
  <2>3. d \notin verdict'.todo
    BY <1>2, <2>2, WithoutLeft, TurnTaken
  <2>4. /\ primary' \in {primary, secondary} /\ secondary' \in {primary, secondary}
        /\ pending' \in {pending, Unstaged}
    BY <1>5 DEF Judge, CommitNv, CommitRefused, CommitVector, CommitVectorFails,
                RollbackVector, RollbackRefused, RollbackNv, RollbackNvFails, RollbackWipe
  <2> QED
    BY <1>2, <2>1, <2>3, <2>4
<1> QED
  BY <1>4, <1>5

\* The first write of a commit is of a component that runs what boots; until
\* the second, the lock it keeps holds up what would change that.
LEMMA HandlersRun ==
    ASSUME Types, RunsInv, NEW c \in Components, Flash(c) \/ Judge(c), NEW d \in Components
    PROVE  RunsOf(d)'
<1> USE DEF disk
<1> SUFFICES ASSUME pc'[d] = "commit_vector"
             PROVE  running'[d] = primary'[d].bank
  BY DEF RunsOf
<1>1. CASE CommitNv(d)
  BY <1>1 DEF CommitNv, MayCommit
<1>2. CASE ~CommitNv(d)
  <2>1. pc[d] = "commit_vector"
    <3>1. CASE Flash(c)
      BY <3>1 DEF Flash, StartFlash, Upload, Abort, Validate, Invalidate, Activate, Relabel,
                  FinalizeInstall, FinalizeInstallFails, FinalizeActivate,
                  FinalizeActivateFails, UndoInstall, UndoInstallFails, EcuResetGuest,
                  HealthConfirmed,
                  EcuResetNode, Types, TypeOK
    <3>2. CASE Judge(c)
      BY <1>2, <3>2, Ended
      DEF Judge, CommitNv, CommitRefused, CommitVector, CommitVectorFails, RollbackVector,
          RollbackRefused, RollbackNv, RollbackNvFails, RollbackWipe, Types, TypeOK
    <3> QED
      BY <3>1, <3>2
  <2>2. ~NvFree
    BY <2>1 DEF NvFree
  <2>3. running' = running /\ primary' = primary
    BY <2>2
    DEF Flash, StartFlash, Upload, Abort, Validate, Invalidate, Activate, Relabel,
        FinalizeInstall, FinalizeInstallFails, FinalizeActivate, FinalizeActivateFails,
        UndoInstall, UndoInstallFails, EcuResetGuest, HealthConfirmed, EcuResetNode,
        Judge, CommitNv, CommitRefused, CommitVector, CommitVectorFails, RollbackVector,
        RollbackRefused, RollbackNv, RollbackNvFails, RollbackWipe
  <2> QED
    BY <2>1, <2>3 DEF RunsInv, RunsOf
<1> QED
  BY <1>1, <1>2

\* Every step keeps both.
LEMMA NextRuns ==
    ASSUME Types, RunsInv, [Next]_vars
    PROVE  RunsInv'
<1> SUFFICES ASSUME NEW d \in Components PROVE Untouched(d)' /\ RunsOf(d)'
  BY DEF RunsInv
<1>n. node' = node
  BY NodeKept
<1>1. ASSUME NEW c \in Components, Flash(c) \/ Judge(c) PROVE Untouched(d)' /\ RunsOf(d)'
  BY <1>1, HandlersLeave, HandlersRun
<1>2. CASE \/ \E k \in {"commit", "rollback"} : NodeVerdict(k)
           \/ BailOut \/ Serve \/ UNCHANGED vars
  <2>1. /\ secondary' = secondary /\ pending' = pending /\ running' = running
        /\ flash' = flash /\ pc' = pc
        /\ primary' = primary \/ (primary' = secondary /\ \A c \in Components : pc[c] = "idle")
        /\ verdict'.todo \in {verdict.todo, Candidates, TrialSet}
    <3>1. CASE \E k \in {"commit", "rollback"} : NodeVerdict(k)
      BY <3>1 DEF NodeVerdict, disk
    <3>2. CASE BailOut
      BY <3>2 DEF BailOut, Quiet
    <3>3. CASE Serve \/ UNCHANGED vars
      BY <3>3 DEF Serve, vars, disk
    <3> QED
      BY <1>2, <3>1, <3>2, <3>3
  <2>2. Untouched(d)'
    BY <1>n, <2>1 DEF RunsInv, Untouched, Updated, Candidates, TrialSet, InTrial
  <2> QED
    BY <2>1, <2>2 DEF RunsInv, RunsOf
<1>3. CASE Reset \/ Die
  <2>1. PICK n \in BOOLEAN : Restart(n)
    BY <1>3 DEF Reset, Die
  <2>2. /\ secondary' = secondary /\ pending' = Unstaged /\ flash'[d] = NoFlash
        /\ pc'[d] = "idle" /\ verdict' = NoVerdict /\ primary' \in {primary, secondary}
    BY <2>1 DEF Restart, BootStage
  <2> QED
    BY <1>n, <2>2 DEF RunsInv, Untouched, RunsOf, Updated, NoVerdict
<1> QED
  BY <1>1, <1>2, <1>3 DEF Next

\* The floor moves by a commit of the whole vector only.
LEMMA FloorMoves ==
    ASSUME [Next]_vars, secondary' # secondary
    PROVE  \E c \in Components : CommitVector(c)
<1> USE DEF disk
<1>1. ASSUME NEW c \in Components, Flash(c) PROVE FALSE
  BY <1>1
  DEF Flash, StartFlash, Upload, Abort, Validate, Invalidate, Activate, Relabel,
      FinalizeInstall, FinalizeInstallFails, FinalizeActivate, FinalizeActivateFails,
      UndoInstall, UndoInstallFails, EcuResetGuest, HealthConfirmed, EcuResetNode
<1>2. ASSUME NEW c \in Components, Judge(c) PROVE CommitVector(c)
  BY <1>2
  DEF Judge, CommitNv, CommitRefused, CommitVectorFails, RollbackVector, RollbackRefused,
      RollbackNv, RollbackNvFails, RollbackWipe
<1>3. ~(\/ \E k \in {"commit", "rollback"} : NodeVerdict(k)
        \/ Reset \/ Die \/ Serve \/ BailOut \/ UNCHANGED vars)
  BY DEF NodeVerdict, Reset, Die, Restart, Serve, BailOut, vars
<1> QED
  BY <1>1, <1>2, <1>3 DEF Next

\* The rollback floor only ever moves to a bank that its component runs.
\* commit_flash looks at its own component (preflight_commit), while the
\* vector's commit is of every component: the others are untouched, or in a
\* trial whose bank the reset made them all run, which run_verdict looked at
\* before the first of them.  On every node that updates one component, by any
\* requests, or several by campaigns over a boot vector whose writes do not fail.
THEOREM FloorRuns ==
    ASSUME OnlyOrSealed
    PROVE  Spec => FloorHasRun
<1>1. Init => RunsInv
  BY DEF Init, RunsInv, Untouched, RunsOf, NoVerdict
<1>2. Types /\ RunsInv /\ [Next]_vars => RunsInv'
  BY NextRuns
<1>3. ASSUME Types, HeldInv, OrderlyInv, RunsInv, [Next]_vars, NEW d \in Components,
             secondary'[d] # secondary[d], ~WithinVerdict,
             Cardinality(Updated) > 1 =>
               ~Saw({"die_finalize"}) /\ ~({"seal", "undo_install"} \subseteq faults.seen)
      PROVE  running[d] = secondary'[d].bank
  <2>1. PICK c \in Components : CommitVector(c)
    BY <1>3, FloorMoves
  <2>2. secondary' = primary /\ pc[c] = "commit_vector" /\ InTrial(d)
    BY <1>3, <2>1 DEF CommitVector, InTrial
  <2>3. CASE d = c
    BY <1>3, <2>2, <2>3 DEF RunsInv, RunsOf
  <2>4. CASE d # c /\ Only
    <3>1. d \notin Updated
      BY <1>3, <2>1, <2>4, HandlersUpdate DEF Judge, Only
    <3> QED
      BY <1>3, <2>2, <3>1 DEF RunsInv, Untouched, InTrial
  <2>5. CASE ~Only
    <3>1. Trusted /\ OnlyOrCampaign /\ Cardinality(Updated) > 1
      BY <1>3, <2>5, SealedMeans, Several
    <3>2. Requests = {}
      BY <1>3, <2>5, <3>1
      DEF WithinVerdict, OnlyOrCampaign, Types, Only, Updated, Requests
    <3>3. Orderly
      BY <1>3, <2>5, <3>1, <3>2 DEF Orderly, Trusted, Saw
    <3>4. Held(c) /\ OrderlyOf(d)
      BY <1>3, <3>1, <3>3 DEF HeldInv, OrderlyInv
    <3>5. verdict.kind = "commit"
      BY <2>2, <2>5, <3>4 DEF Held, ScriptOf
    <3> QED
      BY <2>2, <3>4, <3>5 DEF OrderlyOf
  <2> QED
    BY <2>3, <2>4, <2>5
<1>4. Types /\ HeldInv /\ OrderlyInv /\ RunsInv /\ [Next]_vars =>
        [\A c \in Components :
           /\ secondary'[c] # secondary[c] /\ ~WithinVerdict
           /\ Cardinality(Updated) > 1 =>
                ~Saw({"die_finalize"}) /\ ~({"seal", "undo_install"} \subseteq faults.seen)
           => running[c] = secondary'[c].bank]_vars
  BY <1>3
<1>5. Spec => []HeldInv /\ []OrderlyInv
  BY SealedMeans, CampaignScripted, HeldHolds, OrderlyHolds
<1> QED
  BY <1>1, <1>2, <1>4, <1>5, TypesHold, PTL DEF Spec, FloorHasRun

=============================================================================
