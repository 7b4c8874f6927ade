--------------------------- MODULE OtaBankProofs ---------------------------
(***************************************************************************)
(* The two ratchets of OtaBank, and the launch-time checks, for every set  *)
(* of bank sets, every set of security versions and every trial limit.     *)
(* None of them is inductive: a bank that is not committed yet may become  *)
(* so, so the invariant says what its record holds from the moment install *)
(* has written it, what a sealed manifest promises until then, and what a  *)
(* disable under way may count on.  Security versions (Secure) hold of     *)
(* every set, generations (Numbered) of those never flashed during their   *)
(* own disable.                                                            *)
(***************************************************************************)
EXTENDS OtaBank, TLAPS

\* The record of bank b is at or above the committed floor.
Cleared(s, b) ==
    /\ meta[s][b].secver >= CommittedMeta(s).floor
    /\ meta[s][b].floor >= CommittedMeta(s).floor

\* The record of bank b and the manifest in it are one generation on from the
\* committed bank's.
Ahead(s, b) ==
    /\ meta[s][b].gen = CommittedMeta(s).gen + 1
    /\ manifest[s][b] = meta[s][b].gen

\* A set written in place is always committed to bank A.
InPlace(s) == s \in SingleBank => Active(s) = "A" /\ boot[s].committed

\* A trial runs a cleared bank, and the committed bank's floor covers its image.
Secure(s) ==
    /\ InPlace(s)
    /\ ~boot[s].committed => Cleared(s, Active(s))
    /\ CommittedMeta(s).floor >= CommittedMeta(s).secver

\* A trial runs a bank one generation on.
TrialAhead(s) == ~boot[s].committed => Ahead(s, Active(s))

\* A package in a transfer is sealed for the generation install will write.
SealedAhead(s) ==
    s \notin SingleBank /\ staged[s] # {} =>
        manifest[s][Other(CommittedBank(s))] = CommittedMeta(s).gen + 1

\* The committed bank's manifest is its own.
CommittedOwn(s) ==
    /\ s \notin SingleBank /\ CommittedMeta(s).gen > 0
    /\ CommittedBank(s) \notin unpinned[s]
    => manifest[s][CommittedBank(s)] = CommittedMeta(s).gen

\* A disable under way is about the committed bank, at the generation it read.
DisableSound(s) ==
    disabling[s].step # "none" =>
        /\ staged[s] = {} /\ boot[s].committed
        /\ disabling[s].bank = Active(s)
        /\ disabling[s].gen = CommittedMeta(s).gen
        /\ disabling[s].step = "sealed" => manifest[s][Active(s)] = disabling[s].gen + 1

Numbered(s) == TrialAhead(s) /\ SealedAhead(s) /\ CommittedOwn(s) /\ DisableSound(s)

SetInv(s) == Secure(s) /\ (s \notin overlapped => Numbered(s))

\* Between install's writes, the target is ready for its trial.
InstallInv ==
    pc = "install_state" =>
        /\ boot[at].committed
        /\ at \notin SingleBank => Cleared(at, Target(at))
        /\ at \notin overlapped => disabling[at].step = "none"
        /\ at \notin SingleBank /\ at \notin overlapped => Ahead(at, Target(at))

\* Between commit's writes, the floor already covers the trial's image.
CommitInv ==
    pc = "commit_state" => /\ ~boot[at].committed
                           /\ meta[at][Active(at)].floor >= meta[at][Active(at)].secver

\* Only a serving process is between two writes.
LockInv == pc # "idle" => node = "serving"

IInv == TypeOK /\ (\A s \in Sets : SetInv(s)) /\ InstallInv /\ CommitInv /\ LockInv

\* What a step may do to the committed record of a set.
Ratchet(s) ==
    /\ CommittedMeta(s)'.floor >= CommittedMeta(s).floor
    /\ CommittedMeta(s)'.secver >= CommittedMeta(s).secver
    /\ s \notin overlapped =>
         /\ CommittedMeta(s)'.gen >= CommittedMeta(s).gen
         /\ CommittedBank(s)' # CommittedBank(s)
              => CommittedMeta(s)'.gen > CommittedMeta(s).gen

\* The invariant and the ratchets of a set across a step.
SetStep(s) == SetInv(s)' /\ Ratchet(s)

----------------------------------------------------------------------------
\* The two banks of a set are each other's sibling.
LEMMA Sibling ==
    ASSUME NEW b \in Banks
    PROVE  Other(b) \in Banks /\ Other(b) # b /\ Other(Other(b)) = b
BY DEF Banks, Other

\* A factory node satisfies the invariant.
LEMMA InitIInv == Init => IInv
BY SecVersAssumption, BoundsAssumption, SingleBankAssumption
   DEF Init, IInv, TypeOK, SetInv, Secure, Numbered, InPlace, TrialAhead, SealedAhead,
       CommittedOwn, DisableSound, InstallInv, CommitInv, LockInv, CommittedMeta,
       CommittedBank, Active, Banks, NoMeta, NoDisable

\* What an automatic rollback, a counted boot and a rollback write is a boot
\* state (RolledBack, Counted).
LEMMA CountedType ==
    ASSUME NEW b \in [active : Banks, committed : BOOLEAN, count : 0 .. MaxTrialBoots]
    PROVE  /\ Kept(b) \in [active : Banks, committed : BOOLEAN, count : 0 .. MaxTrialBoots]
           /\ RolledBack(b) \in [active : Banks, committed : BOOLEAN,
                                 count : 0 .. MaxTrialBoots]
           /\ Counted(b) \in [active : Banks, committed : BOOLEAN,
                              count : 0 .. MaxTrialBoots]
BY BoundsAssumption DEF Kept, RolledBack, Counted, Banks, Other

\* Every step keeps the types.
LEMMA TypeStep == TypeOK /\ [Next]_vars => TypeOK'
<1> SUFFICES ASSUME TypeOK, [Next]_vars PROVE TypeOK'
  OBVIOUS
<1> USE SecVersAssumption, BoundsAssumption, SingleBankAssumption
<1>1. ASSUME NEW s \in Sets, NEW v \in SecVers, Seal(s, v) PROVE TypeOK'
  BY <1>1 DEF Seal, TypeOK, InstallGen, CommittedMeta, CommittedBank, Target, Active, Banks,
             Other
<1>2. ASSUME NEW s \in Sets, NEW v \in SecVers, InstallMeta(s, v) PROVE TypeOK'
  BY <1>2 DEF InstallMeta, TypeOK, disableVars, Installed, Target, Active, Banks, Other
<1>3. ASSUME NEW s \in Sets, CommitMeta(s) PROVE TypeOK'
  <2>1. Active(s) \in Banks
    BY DEF TypeOK, Active
  <2>2. Raised(meta[s][Active(s)]) \in [secver : Nat, floor : Nat, gen : Nat]
    BY <2>1 DEF TypeOK, Raised
  <2>3. [meta[s] EXCEPT ![Active(s)] = Raised(@)]
          \in [Banks -> [secver : Nat, floor : Nat, gen : Nat]]
    BY <2>1, <2>2 DEF TypeOK
  <2>4. meta' = [meta EXCEPT ![s] = [meta[s] EXCEPT ![Active(s)] = Raised(@)]]
    BY <1>3 DEF CommitMeta
  <2>5. meta' \in [Sets -> [Banks -> [secver : Nat, floor : Nat, gen : Nat]]]
    BY <2>3, <2>4 DEF TypeOK
  <2> QED
    BY <1>3, <2>5 DEF CommitMeta, TypeOK, disableVars
<1>4. ASSUME NEW s \in Sets, CommitOnly(s) PROVE TypeOK'
  BY <1>4, CountedType DEF CommitOnly, TypeOK, disableVars
<1>5. ASSUME NEW s \in Sets, Rollback(s) PROVE TypeOK'
  <2>1. Active(s) \in Banks
    BY DEF TypeOK, Active
  <2>2. manifest' \in [Sets -> [Banks -> Nat]]
    <3>1. [manifest[s] EXCEPT ![Active(s)] = 0] \in [Banks -> Nat]
      BY DEF TypeOK
    <3>2. [manifest EXCEPT ![s] = [manifest[s] EXCEPT ![Active(s)] = 0]]
            \in [Sets -> [Banks -> Nat]]
      BY <3>1 DEF TypeOK
    <3> QED
      BY <1>5, <3>2 DEF Rollback, TypeOK
  <2>3. unpinned' \in [Sets -> SUBSET Banks]
    <3>1. CASE unpinned' = unpinned
      BY <3>1 DEF TypeOK
    <3>2. CASE unpinned' = [unpinned EXCEPT ![s] = @ \ {Active(s)}]
      BY <3>2 DEF TypeOK
    <3> QED
      BY <1>5, <3>1, <3>2 DEF Rollback
  <2>4. boot' \in [Sets -> [active : Banks, committed : BOOLEAN, count : 0 .. MaxTrialBoots]]
    BY <1>5, CountedType DEF Rollback, TypeOK
  <2> QED
    BY <1>5, <2>2, <2>3, <2>4 DEF Rollback, TypeOK
<1>6. ASSUME NEW s \in Sets, UndoInstall(s) PROVE TypeOK'
  BY <1>6, CountedType DEF UndoInstall, TypeOK, disableVars
<1>7. ASSUME NEW s \in Sets, HashFailure(s) PROVE TypeOK'
  BY <1>7, CountedType DEF HashFailure, TypeOK, disableVars
<1>8. CASE InstallState
  BY <1>8 DEF InstallState, TypeOK, disableVars, Switched, Target, Active, Banks, Other
<1>9. CASE CommitState
  BY <1>9, CountedType DEF CommitState, TypeOK, disableVars
<1>10. CASE WriteFails
  BY <1>10 DEF WriteFails, TypeOK, disableVars
<1>11. CASE Reset
  BY <1>11 DEF Reset, TypeOK, NoDisable, Banks
<1>12. CASE ProcessBoot
  BY <1>12, CountedType DEF ProcessBoot, TypeOK, disableVars
<1>13. CASE Launch
  BY <1>13 DEF Launch, TypeOK, disableVars
<1>14. CASE UNCHANGED vars
  BY <1>14 DEF vars, TypeOK
<1>15. ASSUME NEW s \in Sets, DisableAdmit(s) PROVE TypeOK'
  BY <1>15 DEF DisableAdmit, TypeOK, Active
<1>16. ASSUME NEW s \in Sets, DisableRecord(s) PROVE TypeOK'
  <2>1. manifest' \in [Sets -> [Banks -> Nat]]
    BY <1>16 DEF DisableRecord, TypeOK
  <2>2. disabling'[s] \in [step : {"none", "await", "sealed"}, bank : Banks, gen : Nat]
    <3>1. disabling[s] \in [step : {"none", "await", "sealed"}, bank : Banks, gen : Nat]
      BY DEF TypeOK
    <3>2. disabling'[s] = [disabling[s] EXCEPT !.step = "sealed"]
      BY <1>16 DEF DisableRecord, TypeOK
    <3> QED
      BY <3>1, <3>2
  <2>3. disabling' \in [Sets -> [step : {"none", "await", "sealed"}, bank : Banks, gen : Nat]]
    BY <1>16, <2>2 DEF DisableRecord, TypeOK
  <2>4. unpinned' \in [Sets -> SUBSET Banks]
    BY <1>16 DEF DisableRecord, TypeOK
  <2> QED
    BY <1>16, <2>1, <2>3, <2>4 DEF DisableRecord, TypeOK
<1>17. ASSUME NEW s \in Sets, DisableTorn(s) PROVE TypeOK'
  BY <1>17 DEF DisableTorn, TypeOK, NoDisable, Banks
<1>18. ASSUME NEW s \in Sets, DisableMeta(s) PROVE TypeOK'
  <2> DEFINE d == disabling[s].bank
             m == [meta[s][d] EXCEPT !.gen = disabling[s].gen + 1]
  <2>1. d \in Banks /\ disabling[s].gen + 1 \in Nat
    BY DEF TypeOK
  <2>2. m \in [secver : Nat, floor : Nat, gen : Nat]
    <3>1. meta[s][d] \in [secver : Nat, floor : Nat, gen : Nat]
      BY <2>1 DEF TypeOK
    <3> QED
      BY <2>1, <3>1
  <2>3. meta' = [meta EXCEPT ![s] = [meta[s] EXCEPT ![d] = m]]
    BY <1>18 DEF DisableMeta
  <2>4. [meta[s] EXCEPT ![d] = m] \in [Banks -> [secver : Nat, floor : Nat, gen : Nat]]
    BY <2>2 DEF TypeOK
  <2>5. meta' \in [Sets -> [Banks -> [secver : Nat, floor : Nat, gen : Nat]]]
    BY <2>3, <2>4 DEF TypeOK
  <2> HIDE DEF d, m
  <2> QED
    BY <1>18, <2>5 DEF DisableMeta, TypeOK, NoDisable, Banks
<1>19. ASSUME NEW s \in Sets, DisableFails(s) PROVE TypeOK'
  BY <1>19 DEF DisableFails, TypeOK, NoDisable, Banks
<1> QED
  BY <1>1, <1>2, <1>3, <1>4, <1>5, <1>6, <1>7, <1>8, <1>9, <1>10, <1>11, <1>12, <1>13,
     <1>14, <1>15, <1>16, <1>17, <1>18, <1>19 DEF Next

----------------------------------------------------------------------------
\* The committed record of a set is a record of numbers.
LEMMA CommittedType ==
    ASSUME TypeOK, NEW s \in Sets
    PROVE  /\ Active(s) \in Banks /\ CommittedBank(s) \in Banks
           /\ CommittedMeta(s) \in [secver : Nat, floor : Nat, gen : Nat]
BY Sibling DEF TypeOK, Active, CommittedBank, CommittedMeta

\* A step leaves the disable of a set alone, or ends it in a reset.
DisableFrame(s) ==
    /\ disabling'[s] = disabling[s] \/ disabling'[s] = NoDisable
    /\ unpinned'[s] = unpinned[s]
    /\ s \in overlapped' <=> s \in overlapped

\* A set none of whose records a step writes, but for the count of boots,
\* keeps its invariant, also when its transfer is dropped.
LEMMA SetFrame ==
    ASSUME TypeOK, NEW s \in Sets, SetInv(s), DisableFrame(s),
           boot'[s].active = boot[s].active, boot'[s].committed <=> boot[s].committed,
           meta'[s] = meta[s], manifest'[s] = manifest[s],
           staged'[s] = staged[s] \/ staged'[s] = {}
    PROVE  SetStep(s)
<1>1. CommittedBank(s)' = CommittedBank(s) /\ CommittedMeta(s)' = CommittedMeta(s)
  BY DEF CommittedBank, CommittedMeta, Active
<1>2. Secure(s)'
  BY <1>1 DEF SetInv, Secure, InPlace, Cleared, Active
<1>3. s \notin overlapped' => Numbered(s)'
  BY <1>1 DEF SetInv, Numbered, TrialAhead, SealedAhead, CommittedOwn, DisableSound, Ahead,
              Active, DisableFrame, NoDisable
<1> QED
  BY <1>1, <1>2, <1>3, CommittedType DEF SetStep, SetInv, Ratchet

\* A trial that is given up leaves the committed bank as it was: rollback,
\* undone install, hash failure and automatic rollback (RolledBack).
LEMMA SetRolledBack ==
    ASSUME TypeOK, NEW s \in Sets, SetInv(s), ~boot[s].committed,
           boot'[s] = RolledBack(boot[s]), meta'[s] = meta[s],
           disabling'[s] = disabling[s], s \in overlapped' <=> s \in overlapped,
           \/ manifest'[s] = manifest[s] /\ unpinned'[s] = unpinned[s]
           \/ /\ manifest'[s] = [manifest[s] EXCEPT ![Active(s)] = 0]
              /\ unpinned'[s] = unpinned[s] \ {Active(s)}
              /\ staged'[s] = {},
           staged'[s] = staged[s] \/ staged'[s] = {}
    PROVE  SetStep(s)
<1>1. /\ Active(s) \in Banks /\ Active(s)' = Other(Active(s))
      /\ boot'[s].committed = TRUE
      /\ CommittedBank(s) = Other(Active(s)) /\ CommittedBank(s)' = Other(Active(s))
  BY DEF TypeOK, Active, CommittedBank, RolledBack
<1>2. Other(Active(s)) \in Banks /\ Other(Active(s)) # Active(s)
  BY <1>1, Sibling
<1>3. CommittedMeta(s)' = CommittedMeta(s)
  BY <1>1 DEF CommittedMeta
<1>4. s \notin SingleBank
  BY DEF SetInv, Secure, InPlace
<1>5. /\ manifest'[s][Other(Active(s))] = manifest[s][Other(Active(s))]
      /\ Other(Active(s)) \in unpinned'[s] <=> Other(Active(s)) \in unpinned[s]
  BY <1>1, <1>2 DEF TypeOK
<1>6. Secure(s)'
  BY <1>1, <1>3, <1>4 DEF SetInv, Secure, InPlace
<1>7. ASSUME s \notin overlapped' PROVE Numbered(s)'
  <2>1. Numbered(s)
    BY <1>7 DEF SetInv
  <2>2. CommittedOwn(s)'
    BY <1>1, <1>3, <1>5, <2>1 DEF Numbered, CommittedOwn
  <2>3. SealedAhead(s)'
    <3>1. SUFFICES ASSUME staged'[s] # {}
                   PROVE  manifest'[s][Other(CommittedBank(s)')] = CommittedMeta(s)'.gen + 1
      BY DEF SealedAhead
    <3>2. manifest'[s] = manifest[s] /\ staged[s] # {}
      BY <3>1
    <3> QED
      BY <1>1, <1>3, <1>4, <2>1, <3>2 DEF Numbered, SealedAhead
  <2>4. DisableSound(s)' /\ TrialAhead(s)'
    BY <1>1, <2>1 DEF Numbered, DisableSound, TrialAhead
  <2> QED
    BY <2>2, <2>3, <2>4 DEF Numbered
<1> QED
  BY <1>1, <1>3, <1>6, <1>7, CommittedType DEF SetStep, SetInv, Ratchet

\* A trial that is committed, its floor covering its image, passes on a floor
\* and a generation no lower than it found (Kept).
LEMMA SetCommitted ==
    ASSUME TypeOK, NEW s \in Sets, SetInv(s), ~boot[s].committed, DisableFrame(s),
           meta[s][Active(s)].floor >= meta[s][Active(s)].secver,
           boot'[s] = Kept(boot[s]), meta'[s] = meta[s], manifest'[s] = manifest[s],
           staged'[s] = {}
    PROVE  SetStep(s)
<1>1. /\ Active(s)' = Active(s) /\ boot'[s].committed = TRUE
      /\ CommittedBank(s)' = Active(s) /\ CommittedMeta(s)' = meta[s][Active(s)]
  BY DEF Active, CommittedBank, CommittedMeta, Kept
<1>2. Cleared(s, Active(s)) /\ CommittedMeta(s).floor >= CommittedMeta(s).secver
  BY DEF SetInv, Secure
<1>3. meta[s][Active(s)] \in [secver : Nat, floor : Nat, gen : Nat]
  BY CommittedType DEF TypeOK
<1>4. Secure(s)'
  BY <1>1 DEF SetInv, Secure, InPlace
<1>5. s \notin overlapped => Ahead(s, Active(s)) /\ disabling[s].step = "none"
  BY DEF SetInv, Numbered, TrialAhead, DisableSound
<1>6. s \notin overlapped' => Numbered(s)'
  BY <1>1, <1>5 DEF Numbered, TrialAhead, SealedAhead, CommittedOwn, DisableSound, Ahead,
                    DisableFrame, NoDisable
<1>7. Ratchet(s)
  BY <1>1, <1>2, <1>3, <1>5, CommittedType DEF Ratchet, Cleared, Ahead
<1> QED
  BY <1>4, <1>6, <1>7 DEF SetStep, SetInv

\* Sealing an upload writes the bank that is not committed, or, in place, a
\* manifest that no promise is about (Seal).
LEMMA SetSealed ==
    ASSUME TypeOK, NEW s \in Sets, NEW v \in SecVers, SetInv(s), Seal(s, v)
    PROVE  SetStep(s)
<1>1. boot[s].committed
  BY DEF Seal, SetInv, Secure, InPlace
<1>2. /\ Active(s) \in Banks /\ CommittedBank(s) = Active(s) /\ CommittedBank(s)' = Active(s)
      /\ CommittedMeta(s)' = CommittedMeta(s) /\ Active(s)' = Active(s)
  BY <1>1, CommittedType DEF Seal, CommittedBank, CommittedMeta, Active
<1>3. Secure(s)' /\ Ratchet(s)
  BY <1>1, <1>2, CommittedType DEF SetInv, Secure, InPlace, Ratchet, Seal
<1>4. ASSUME s \notin overlapped' PROVE Numbered(s)'
  <2>1. /\ s \notin overlapped /\ disabling[s].step = "none" /\ disabling' = disabling
        /\ boot' = boot /\ Numbered(s)
    BY <1>4 DEF Seal, SetInv
  <2>2. TrialAhead(s)' /\ DisableSound(s)'
    BY <1>1, <2>1 DEF TrialAhead, DisableSound
  <2>3. CASE s \in SingleBank
    BY <2>2, <2>3 DEF Numbered, SealedAhead, CommittedOwn
  <2>4. CASE s \notin SingleBank
    <3>1. Target(s) = Other(Active(s)) /\ Target(s) \in Banks /\ Target(s) # Active(s)
      BY <1>2, <2>4, Sibling DEF Target
    <3>2. /\ manifest'[s][Target(s)] = CommittedMeta(s).gen + 1
          /\ manifest'[s][Active(s)] = manifest[s][Active(s)]
          /\ Active(s) \in unpinned'[s] <=> Active(s) \in unpinned[s]
      BY <1>2, <3>1 DEF Seal, InstallGen, TypeOK
    <3>3. CommittedOwn(s)' /\ SealedAhead(s)'
      BY <1>2, <2>1, <3>1, <3>2 DEF Numbered, CommittedOwn, SealedAhead
    <3> QED
      BY <2>2, <3>3 DEF Numbered
  <2> QED
    BY <2>3, <2>4
<1> QED
  BY <1>3, <1>4 DEF SetStep, SetInv

\* install's first write readies the target; in place it is the whole install
\* (InstallMeta).
LEMMA SetInstalling ==
    ASSUME TypeOK, NEW s \in Sets, NEW v \in SecVers, SetInv(s), InstallMeta(s, v)
    PROVE  SetStep(s) /\ InstallInv'
<1>1. /\ boot[s].committed /\ boot' = boot /\ manifest' = manifest /\ staged' = staged
      /\ at' = s /\ v \in Nat /\ v >= meta[s][Active(s)].floor /\ staged[s] # {}
      /\ disabling' = disabling /\ unpinned' = unpinned /\ overlapped' = overlapped
  BY SecVersAssumption DEF InstallMeta, disableVars
<1>2. /\ Active(s) \in Banks /\ CommittedBank(s) = Active(s) /\ CommittedBank(s)' = Active(s)
      /\ Active(s)' = Active(s) /\ CommittedMeta(s) = meta[s][Active(s)]
      /\ Target(s)' = Target(s)
  BY <1>1, CommittedType DEF CommittedBank, CommittedMeta, Active, Target
<1>3. Target(s) \in Banks
  BY <1>2, Sibling DEF Target, Banks
<1>4. meta'[s][Target(s)] = Installed(s, v)
  BY <1>3 DEF InstallMeta, TypeOK
<1>0. s \notin overlapped => Numbered(s) /\ disabling[s].step = "none"
  BY <1>1 DEF SetInv, Numbered, DisableSound
<1>5. CASE s \in SingleBank
  <2>1. Target(s) = Active(s)
    BY <1>5 DEF SetInv, Secure, InPlace, Target
  <2>2. CommittedMeta(s)' = [secver |-> v, floor |-> v, gen |-> CommittedMeta(s).gen + 1]
    BY <1>2, <1>4, <1>5, <2>1 DEF CommittedMeta, Installed
  <2>3. CommittedMeta(s).floor >= CommittedMeta(s).secver
    BY DEF SetInv, Secure
  <2>4. Ratchet(s)
    BY <1>1, <1>2, <2>2, <2>3, CommittedType DEF Ratchet
  <2>5. Secure(s)'
    BY <1>1, <1>2, <1>5, <2>2 DEF SetInv, Secure, InPlace
  <2>6. s \notin overlapped => Numbered(s)'
    BY <1>0, <1>1, <1>5 DEF Numbered, TrialAhead, SealedAhead, CommittedOwn, DisableSound
  <2> QED
    BY <1>0, <1>1, <1>5, <2>4, <2>5, <2>6 DEF SetStep, SetInv, InstallInv
<1>6. CASE s \notin SingleBank
  <2>1. Target(s) = Other(Active(s)) /\ Target(s) # Active(s)
    BY <1>2, <1>6, Sibling DEF Target
  <2>2. meta'[s][Active(s)] = meta[s][Active(s)]
    BY <1>2, <2>1 DEF InstallMeta, TypeOK
  <2>3. CommittedMeta(s)' = CommittedMeta(s)
    BY <1>2, <2>2 DEF CommittedMeta
  <2>4. Secure(s)'
    BY <1>1, <1>2, <1>6, <2>3 DEF SetInv, Secure, InPlace
  <2>5. s \notin overlapped => Numbered(s)'
    BY <1>0, <1>1, <1>2, <2>3 DEF Numbered, TrialAhead, SealedAhead, CommittedOwn, DisableSound
  <2>6. s \notin overlapped => manifest[s][Target(s)] = CommittedMeta(s).gen + 1
    BY <1>0, <1>1, <1>2, <1>6, <2>1 DEF Numbered, SealedAhead
  <2>7. Cleared(s, Target(s))' /\ (s \notin overlapped => Ahead(s, Target(s))')
    BY <1>1, <1>2, <1>4, <1>6, <2>3, <2>6, CommittedType DEF Cleared, Ahead, Installed
  <2>8. InstallInv'
    BY <1>0, <1>1, <2>7 DEF InstallInv
  <2> QED
    BY <1>1, <1>2, <2>3, <2>4, <2>5, <2>8, CommittedType DEF SetStep, SetInv, Ratchet
<1> QED
  BY <1>5, <1>6

\* install's second write starts a trial of the bank it readied (InstallState).
LEMMA SetInstalled ==
    ASSUME TypeOK, SetInv(at), InstallInv, InstallState
    PROVE  SetStep(at)
<1>1. /\ at \in Sets /\ boot[at].committed /\ meta' = meta /\ manifest' = manifest
      /\ staged' = staged /\ at' = at
      /\ boot'[at] = Switched(at)
      /\ disabling' = disabling /\ unpinned' = unpinned /\ overlapped' = overlapped
  BY DEF TypeOK, InstallInv, InstallState, disableVars
<1>2. /\ Active(at) \in Banks /\ CommittedBank(at) = Active(at)
      /\ CommittedMeta(at) = meta[at][Active(at)]
  BY <1>1, CommittedType DEF CommittedBank, CommittedMeta
<1>3. CASE at \in SingleBank
  <2>1. boot'[at].active = boot[at].active
    BY <1>1, <1>3 DEF SetInv, Secure, InPlace, Switched, Active
  <2>2. boot'[at].committed <=> boot[at].committed
    BY <1>1, <1>3 DEF Switched
  <2>3. SetInv(at) /\ DisableFrame(at)
    BY <1>1 DEF DisableFrame
  <2> QED
    BY <1>1, <2>1, <2>2, <2>3, SetFrame
<1>4. CASE at \notin SingleBank
  <2>1. /\ Target(at) = Other(Active(at)) /\ Other(Target(at)) = Active(at)
    BY <1>2, <1>4, Sibling DEF Target
  <2>2. ~boot'[at].committed /\ boot'[at].active = Target(at)
    BY <1>1, <1>4 DEF Switched
  <2>3. Active(at)' = Target(at) /\ CommittedBank(at)' = Active(at)
        /\ CommittedMeta(at)' = CommittedMeta(at)
    BY <1>1, <1>2, <2>1, <2>2 DEF Active, CommittedBank, CommittedMeta
  <2>4. /\ Cleared(at, Target(at))
        /\ at \notin overlapped => Ahead(at, Target(at)) /\ disabling[at].step = "none"
    BY <1>4 DEF InstallInv, InstallState
  <2>5. Secure(at)'
    BY <1>1, <1>4, <2>3, <2>4 DEF SetInv, Secure, InPlace, Cleared
  <2>6. at \notin overlapped => Numbered(at)'
    BY <1>1, <1>2, <1>4, <2>3, <2>4
       DEF SetInv, Numbered, TrialAhead, SealedAhead, CommittedOwn, DisableSound, Ahead
  <2> QED
    BY <1>1, <1>2, <2>3, <2>5, <2>6, CommittedType DEF SetStep, SetInv, Ratchet
<1> QED
  BY <1>3, <1>4

\* commit's first write raises the floor of the trial only (CommitMeta).
LEMMA SetRaised ==
    ASSUME TypeOK, NEW s \in Sets, SetInv(s), CommitMeta(s)
    PROVE  SetStep(s) /\ CommitInv'
<1>1. /\ ~boot[s].committed /\ boot' = boot /\ manifest' = manifest /\ staged' = staged
      /\ at' = s /\ meta[s][Active(s)].secver > meta[s][Active(s)].floor
      /\ disabling' = disabling /\ unpinned' = unpinned /\ overlapped' = overlapped
  BY DEF CommitMeta, disableVars
<1>2. /\ Active(s) \in Banks /\ Active(s)' = Active(s)
      /\ CommittedBank(s) = Other(Active(s)) /\ CommittedBank(s)' = CommittedBank(s)
      /\ CommittedBank(s) \in Banks /\ CommittedBank(s) # Active(s)
  BY <1>1, CommittedType, Sibling DEF CommittedBank, Active
<1>3. /\ meta'[s][Active(s)] = Raised(meta[s][Active(s)])
      /\ meta'[s][CommittedBank(s)] = meta[s][CommittedBank(s)]
  BY <1>2 DEF CommitMeta, TypeOK
<1>4. CommittedMeta(s)' = CommittedMeta(s)
  BY <1>2, <1>3 DEF CommittedMeta
<1>5. meta[s][Active(s)] \in [secver : Nat, floor : Nat, gen : Nat]
  BY <1>2 DEF TypeOK
<1>6. Secure(s)'
  BY <1>1, <1>2, <1>3, <1>4, <1>5, CommittedType
     DEF SetInv, Secure, InPlace, Cleared, Raised, Active
<1>7. s \notin overlapped => Numbered(s)'
  BY <1>1, <1>2, <1>3, <1>4
     DEF SetInv, Numbered, TrialAhead, SealedAhead, CommittedOwn, DisableSound, Ahead, Raised
<1>8. CommitInv'
  BY <1>1, <1>2, <1>3, <1>5 DEF CommitInv, Raised
<1> QED
  BY <1>1, <1>2, <1>4, <1>6, <1>7, <1>8, CommittedType DEF SetStep, SetInv, Ratchet

----------------------------------------------------------------------------
\* A disable is admitted of a committed set, whose transfer it has taken
\* (DisableAdmit).
LEMMA SetAdmitted ==
    ASSUME TypeOK, NEW s \in Sets, SetInv(s), DisableAdmit(s)
    PROVE  SetStep(s)
<1>1. /\ boot[s].committed /\ boot' = boot /\ meta' = meta /\ manifest' = manifest
      /\ staged'[s] = {} /\ unpinned' = unpinned /\ overlapped' = overlapped
  BY DEF DisableAdmit, SetInv, Secure, InPlace, TypeOK
<1>2. /\ Active(s)' = Active(s) /\ CommittedBank(s)' = CommittedBank(s)
      /\ CommittedMeta(s)' = CommittedMeta(s) /\ CommittedMeta(s) = meta[s][Active(s)]
  BY <1>1 DEF Active, CommittedBank, CommittedMeta
<1>3. Secure(s)' /\ Ratchet(s)
  BY <1>1, <1>2, CommittedType DEF SetInv, Secure, InPlace, Ratchet
<1>4. /\ disabling'[s].step = "await" /\ disabling'[s].bank = Active(s)
      /\ disabling'[s].gen = meta[s][Active(s)].gen
  BY DEF DisableAdmit, TypeOK
<1>5. s \notin overlapped => Numbered(s)'
  BY <1>1, <1>2, <1>4
     DEF SetInv, Numbered, TrialAhead, SealedAhead, CommittedOwn, DisableSound
<1> QED
  BY <1>1, <1>3, <1>5 DEF SetStep, SetInv

\* Writing the sentinel, whole or in part, touches the serving bank's manifest,
\* which promises nothing from then on (DisableRecord, DisableTorn).
LEMMA SetSentinel ==
    ASSUME TypeOK, NEW s \in Sets, SetInv(s), DisableRecord(s) \/ DisableTorn(s)
    PROVE  SetStep(s)
<1>1. /\ boot' = boot /\ meta' = meta /\ staged' = staged /\ overlapped' = overlapped
      /\ disabling[s].step = "await"
  BY DEF DisableRecord, DisableTorn
<1>2. /\ Active(s)' = Active(s) /\ CommittedBank(s)' = CommittedBank(s)
      /\ CommittedMeta(s)' = CommittedMeta(s)
  BY <1>1 DEF Active, CommittedBank, CommittedMeta
<1>3. Secure(s)' /\ Ratchet(s)
  BY <1>1, <1>2, CommittedType DEF SetInv, Secure, InPlace, Cleared, Ratchet
<1>4. ASSUME s \notin overlapped PROVE Numbered(s)'
  <2>1. /\ staged[s] = {} /\ boot[s].committed /\ disabling[s].bank = Active(s)
        /\ disabling[s].gen = CommittedMeta(s).gen /\ CommittedBank(s) = Active(s)
    BY <1>1, <1>4 DEF SetInv, Numbered, DisableSound, CommittedBank
  <2>2. Active(s) \in unpinned'[s]
    BY <2>1 DEF DisableRecord, DisableTorn, TypeOK
  <2>3. TrialAhead(s)' /\ SealedAhead(s)' /\ CommittedOwn(s)'
    BY <1>1, <1>2, <2>1, <2>2 DEF TrialAhead, SealedAhead, CommittedOwn
  <2>4. \/ disabling'[s].step = "none"
        \/ /\ disabling'[s].step = "sealed" /\ disabling'[s].bank = disabling[s].bank
           /\ disabling'[s].gen = disabling[s].gen
           /\ manifest'[s][Active(s)] = disabling[s].gen + 1
    BY <2>1, CommittedType DEF DisableRecord, DisableTorn, TypeOK, NoDisable
  <2>5. DisableSound(s)'
    BY <1>1, <1>2, <2>1, <2>4 DEF DisableSound
  <2> QED
    BY <2>3, <2>5 DEF Numbered
<1> QED
  BY <1>1, <1>3, <1>4 DEF SetStep, SetInv

\* The disable's NV write raises the serving bank's generation to its
\* sentinel's, and nothing else of the record (DisableMeta).
LEMMA SetPinned ==
    ASSUME TypeOK, NEW s \in Sets, SetInv(s), DisableMeta(s)
    PROVE  SetStep(s)
<1> DEFINE d == disabling[s].bank
<1>1. /\ boot' = boot /\ manifest' = manifest /\ overlapped' = overlapped
      /\ disabling[s].step = "sealed" /\ disabling'[s].step = "none"
      /\ staged'[s] = staged[s] \/ staged'[s] = {}
      /\ unpinned'[s] = unpinned[s] \ {d}
      /\ d \in Banks /\ disabling[s].gen \in Nat
  BY DEF DisableMeta, TypeOK, NoDisable
<1>2. Active(s)' = Active(s) /\ CommittedBank(s)' = CommittedBank(s)
  BY <1>1 DEF Active, CommittedBank
<1>3. ASSUME NEW b \in Banks
      PROVE  /\ meta'[s][b].secver = meta[s][b].secver /\ meta'[s][b].floor = meta[s][b].floor
             /\ meta'[s][b].gen = IF b = d THEN disabling[s].gen + 1 ELSE meta[s][b].gen
  <2>1. meta'[s] = [meta[s] EXCEPT ![d] = [@ EXCEPT !.gen = disabling[s].gen + 1]]
    BY DEF DisableMeta, TypeOK
  <2>2. meta[s] \in [Banks -> [secver : Nat, floor : Nat, gen : Nat]]
    BY DEF TypeOK
  <2>3. CASE b = d
    <3>1. meta'[s][b] = [meta[s][b] EXCEPT !.gen = disabling[s].gen + 1]
      BY <2>1, <2>2, <2>3
    <3>2. meta[s][b] \in [secver : Nat, floor : Nat, gen : Nat]
      BY <2>2
    <3> QED
      BY <2>3, <3>1, <3>2
  <2>4. CASE b # d
    BY <2>1, <2>2, <2>4
  <2> QED
    BY <2>3, <2>4
<1>4. /\ CommittedMeta(s)'.secver = CommittedMeta(s).secver
      /\ CommittedMeta(s)'.floor = CommittedMeta(s).floor
      /\ CommittedMeta(s)'.gen = IF CommittedBank(s) = d THEN disabling[s].gen + 1
                                 ELSE CommittedMeta(s).gen
  BY <1>2, <1>3, CommittedType DEF CommittedMeta
<1>5. Secure(s)'
  BY <1>1, <1>2, <1>3, <1>4, CommittedType DEF SetInv, Secure, InPlace, Cleared
<1>6. ASSUME s \notin overlapped PROVE Numbered(s)' /\ CommittedMeta(s)'.gen >= CommittedMeta(s).gen
  <2>1. /\ staged[s] = {} /\ boot[s].committed /\ d = Active(s)
        /\ disabling[s].gen = CommittedMeta(s).gen /\ CommittedBank(s) = Active(s)
        /\ manifest[s][Active(s)] = disabling[s].gen + 1
    BY <1>1, <1>6 DEF SetInv, Numbered, DisableSound, CommittedBank
  <2>2. CommittedMeta(s)'.gen = disabling[s].gen + 1
    BY <1>4, <2>1
  <2>3. Numbered(s)'
    BY <1>1, <1>2, <2>1, <2>2
       DEF Numbered, TrialAhead, SealedAhead, CommittedOwn, DisableSound
  <2> QED
    BY <1>1, <2>1, <2>2, <2>3
<1> QED
  BY <1>1, <1>2, <1>4, <1>5, <1>6, CommittedType DEF SetStep, SetInv, Ratchet

----------------------------------------------------------------------------
\* Every step keeps the invariant and the ratchets of every set.
LEMMA InvStep ==
    ASSUME IInv, [Next]_vars
    PROVE  IInv' /\ \A s \in Sets : SetStep(s)
<1> USE DEF IInv
<1>0. TypeOK'
  BY TypeStep
<1>1. ASSUME NEW s \in Sets, NEW v \in SecVers, Seal(s, v)
      PROVE  IInv' /\ \A t \in Sets : SetStep(t)
  <2>1. ASSUME NEW t \in Sets, t # s PROVE SetStep(t)
    BY <1>1, <2>1, SetFrame DEF Seal, TypeOK, DisableFrame
  <2>2. SetStep(s)
    BY <1>1, SetSealed
  <2> QED
    BY <1>0, <1>1, <2>1, <2>2 DEF SetStep, Seal, Free, InstallInv, CommitInv, LockInv
<1>2. ASSUME NEW s \in Sets, NEW v \in SecVers, InstallMeta(s, v)
      PROVE  IInv' /\ \A t \in Sets : SetStep(t)
  <2>1. ASSUME NEW t \in Sets, t # s PROVE SetStep(t)
    BY <1>2, <2>1, SetFrame DEF InstallMeta, TypeOK, DisableFrame, disableVars
  <2>2. SetStep(s) /\ InstallInv'
    BY <1>2, SetInstalling
  <2> QED
    BY <1>0, <1>2, <2>1, <2>2 DEF SetStep, InstallMeta, Free, CommitInv, LockInv
<1>3. ASSUME NEW s \in Sets, CommitMeta(s)
      PROVE  IInv' /\ \A t \in Sets : SetStep(t)
  <2>1. ASSUME NEW t \in Sets, t # s PROVE SetStep(t)
    BY <1>3, <2>1, SetFrame DEF CommitMeta, TypeOK, DisableFrame, disableVars
  <2>2. SetStep(s) /\ CommitInv'
    BY <1>3, SetRaised
  <2> QED
    BY <1>0, <1>3, <2>1, <2>2 DEF SetStep, CommitMeta, Free, InstallInv, LockInv
<1>4. ASSUME NEW s \in Sets, CommitOnly(s)
      PROVE  IInv' /\ \A t \in Sets : SetStep(t)
  <2>1. ASSUME NEW t \in Sets, t # s PROVE SetStep(t)
    BY <1>4, <2>1, SetFrame DEF CommitOnly, TypeOK, DisableFrame, disableVars
  <2>2. meta[s][Active(s)] \in [secver : Nat, floor : Nat, gen : Nat]
    BY CommittedType DEF TypeOK
  <2>3. meta[s][Active(s)].floor >= meta[s][Active(s)].secver
    BY <1>4, <2>2 DEF CommitOnly
  <2>4. SetStep(s)
    BY <1>4, <2>3, SetCommitted DEF CommitOnly, TypeOK, DisableFrame, disableVars
  <2> QED
    BY <1>0, <1>4, <2>1, <2>4 DEF SetStep, CommitOnly, Free, InstallInv, CommitInv, LockInv
<1>5. ASSUME NEW s \in Sets, Rollback(s)
      PROVE  IInv' /\ \A t \in Sets : SetStep(t)
  <2>1. ASSUME NEW t \in Sets, t # s PROVE SetStep(t)
    BY <1>5, <2>1, SetFrame DEF Rollback, TypeOK, DisableFrame
  <2>2. /\ boot'[s] = RolledBack(boot[s]) /\ meta'[s] = meta[s] /\ staged'[s] = {}
        /\ \/ manifest'[s] = manifest[s] /\ unpinned'[s] = unpinned[s]
           \/ /\ manifest'[s] = [manifest[s] EXCEPT ![Active(s)] = 0]
              /\ unpinned'[s] = unpinned[s] \ {Active(s)}
        /\ ~boot[s].committed /\ disabling' = disabling /\ overlapped' = overlapped
    BY <1>5 DEF Rollback, TypeOK
  <2>3. SetStep(s)
    BY <2>2, SetRolledBack
  <2> QED
    BY <1>0, <1>5, <2>1, <2>3 DEF SetStep, Rollback, Free, InstallInv, CommitInv, LockInv
<1>6. ASSUME NEW s \in Sets, UndoInstall(s)
      PROVE  IInv' /\ \A t \in Sets : SetStep(t)
  <2>1. ASSUME NEW t \in Sets, t # s PROVE SetStep(t)
    BY <1>6, <2>1, SetFrame DEF UndoInstall, TypeOK, DisableFrame, disableVars
  <2>2. SetStep(s)
    BY <1>6, SetRolledBack DEF UndoInstall, TypeOK, disableVars
  <2> QED
    BY <1>0, <1>6, <2>1, <2>2 DEF SetStep, UndoInstall, Free, InstallInv, CommitInv, LockInv
<1>7. ASSUME NEW s \in Sets, HashFailure(s)
      PROVE  IInv' /\ \A t \in Sets : SetStep(t)
  <2>1. ASSUME NEW t \in Sets, t # s PROVE SetStep(t)
    BY <1>7, <2>1, SetFrame DEF HashFailure, TypeOK, DisableFrame, disableVars
  <2>2. SetStep(s)
    BY <1>7, SetRolledBack DEF HashFailure, TypeOK, disableVars
  <2> QED
    BY <1>0, <1>7, <2>1, <2>2 DEF SetStep, HashFailure, InstallInv, CommitInv, LockInv
<1>8. ASSUME InstallState
      PROVE  IInv' /\ \A t \in Sets : SetStep(t)
  <2>1. ASSUME NEW t \in Sets, t # at PROVE SetStep(t)
    BY <1>8, <2>1, SetFrame DEF InstallState, TypeOK, DisableFrame, disableVars
  <2>2. SetStep(at)
    BY <1>8, SetInstalled DEF TypeOK
  <2> QED
    BY <1>0, <1>8, <2>1, <2>2 DEF SetStep, InstallState, InstallInv, CommitInv, LockInv
<1>9. ASSUME CommitState
      PROVE  IInv' /\ \A t \in Sets : SetStep(t)
  <2>1. ASSUME NEW t \in Sets, t # at PROVE SetStep(t)
    BY <1>9, <2>1, SetFrame DEF CommitState, TypeOK, DisableFrame, disableVars
  <2>2. SetStep(at)
    BY <1>9, SetCommitted DEF CommitState, CommitInv, TypeOK, DisableFrame,
                                         disableVars
  <2> QED
    BY <1>0, <1>9, <2>1, <2>2 DEF SetStep, CommitState, InstallInv, CommitInv, LockInv
<1>10. ASSUME ProcessBoot
       PROVE  IInv' /\ \A t \in Sets : SetStep(t)
  <2>1. ASSUME NEW t \in Sets PROVE SetStep(t)
    <3>1. /\ boot'[t] = Counted(boot[t]) /\ meta'[t] = meta[t]
          /\ manifest'[t] = manifest[t] /\ staged'[t] = staged[t]
          /\ DisableFrame(t) /\ disabling'[t] = disabling[t]
      BY <1>10 DEF ProcessBoot, DisableFrame, disableVars
    <3>2. CASE ~boot[t].committed /\ boot[t].count + 1 > MaxTrialBoots
      BY <3>1, <3>2, SetRolledBack DEF Counted, DisableFrame
    <3>3. CASE ~(~boot[t].committed /\ boot[t].count + 1 > MaxTrialBoots)
      <4>1. /\ boot'[t].active = boot[t].active
            /\ boot'[t].committed <=> boot[t].committed
        BY <3>1, <3>3 DEF Counted, TypeOK
      <4> QED
        BY <3>1, <4>1, SetFrame
    <3> QED
      BY <3>2, <3>3
  <2> QED
    BY <1>0, <1>10, <2>1 DEF SetStep, ProcessBoot, InstallInv, CommitInv, LockInv
<1>11. ASSUME WriteFails \/ Reset \/ Launch \/ UNCHANGED vars
       PROVE  IInv' /\ \A t \in Sets : SetStep(t)
  <2>1. ASSUME NEW t \in Sets PROVE SetStep(t)
    BY <1>11, <2>1, SetFrame DEF WriteFails, Reset, Launch, vars, DisableFrame, disableVars
  <2>2. boot' = boot /\ meta' = meta /\ manifest' = manifest /\ at' = at
    BY <1>11 DEF WriteFails, Reset, Launch, vars
  <2>3. \/ pc' = "idle"
        \/ /\ pc' = pc /\ (node' = node \/ node = "boot")
           /\ disabling' = disabling /\ overlapped' = overlapped
    BY <1>11 DEF WriteFails, Reset, Launch, vars, disableVars
  <2>4. InstallInv' /\ CommitInv'
    BY <2>2, <2>3 DEF InstallInv, CommitInv, Cleared, Ahead, CommittedMeta, CommittedBank,
                      Active, Target
  <2> QED
    BY <1>0, <2>1, <2>3, <2>4 DEF SetStep, LockInv
<1>12. ASSUME NEW s \in Sets, DisableAdmit(s) \/ DisableMeta(s)
       PROVE  IInv' /\ \A t \in Sets : SetStep(t)
  <2>1. ASSUME NEW t \in Sets, t # s PROVE SetStep(t)
    BY <1>12, <2>1, SetFrame DEF DisableAdmit, DisableMeta, TypeOK, DisableFrame
  <2>2. SetStep(s)
    BY <1>12, SetAdmitted, SetPinned
  <2> QED
    BY <1>0, <1>12, <2>1, <2>2
       DEF SetStep, DisableAdmit, DisableMeta, Free, InstallInv, CommitInv, LockInv
<1>13. ASSUME NEW s \in Sets, DisableRecord(s) \/ DisableTorn(s) \/ DisableFails(s)
       PROVE  IInv' /\ \A t \in Sets : SetStep(t)
  <2>1. ASSUME NEW t \in Sets, t # s \/ DisableFails(s) PROVE SetStep(t)
    BY <1>13, <2>1, SetFrame DEF DisableRecord, DisableTorn, DisableFails, TypeOK, DisableFrame
  <2>2. DisableRecord(s) \/ DisableTorn(s) => SetStep(s)
    BY SetSentinel
  <2>3. /\ boot' = boot /\ meta' = meta /\ at' = at /\ pc' = pc /\ node' = node
        /\ overlapped' = overlapped
    BY <1>13 DEF DisableRecord, DisableTorn, DisableFails
  <2>4. InstallInv'
    <3> SUFFICES ASSUME pc = "install_state" PROVE InstallInv'
      BY <2>3 DEF InstallInv
    <3>1. at \in Sets /\ disabling[s].step # "none"
      BY <1>13 DEF TypeOK, DisableRecord, DisableTorn, DisableFails
    <3>2. at \in overlapped \/ (at # s /\ disabling'[at] = disabling[at]
                               /\ manifest'[at] = manifest[at])
      BY <1>13, <3>1 DEF InstallInv, TypeOK, DisableRecord, DisableTorn, DisableFails
    <3> QED
      BY <2>3, <3>2 DEF InstallInv, Cleared, Ahead, CommittedMeta, CommittedBank, Active, Target
  <2>5. CommitInv' /\ LockInv'
    BY <2>3 DEF CommitInv, LockInv, Active
  <2> QED
    BY <1>0, <1>13, <2>1, <2>2, <2>4, <2>5 DEF SetStep
<1> QED
  BY <1>1, <1>2, <1>3, <1>4, <1>5, <1>6, <1>7, <1>8, <1>9, <1>10, <1>11, <1>12, <1>13 DEF Next

\* The invariant holds of every reachable state.
THEOREM Invariance == Spec => []IInv
<1>1. IInv /\ [Next]_vars => IInv'
  BY InvStep
<1> QED
  BY <1>1, InitIInv, PTL DEF Spec

\* Anti-rollback: whatever fails and wherever power is lost between the writes
\* of install and commit, floor and committed security version never go down.
THEOREM SecurityNeverFalls == Spec => SecurityRatchet
<1>1. IInv /\ [Next]_vars => \A s \in Sets : Ratchet(s)
  BY InvStep DEF SetStep
<1>2. IInv /\ [Next]_vars =>
        [\A s \in Sets : /\ CommittedMeta(s)'.floor >= CommittedMeta(s).floor
                         /\ CommittedMeta(s)'.secver >= CommittedMeta(s).secver]_vars
  BY <1>1 DEF Ratchet
<1> QED
  BY <1>2, Invariance, PTL DEF Spec, SecurityRatchet

\* The generation ratchet of install_inner: the committed generation rises
\* with every change of the committed bank, disables included that no flash of
\* the same set overlapped.
THEOREM GenerationRises == Spec => GenerationRatchet
<1>1. IInv /\ [Next]_vars => \A s \in Sets : Ratchet(s)
  BY InvStep DEF SetStep
<1>2. IInv /\ [Next]_vars =>
        [\A s \in Sets \ overlapped :
           /\ CommittedMeta(s)'.gen >= CommittedMeta(s).gen
           /\ CommittedBank(s)' # CommittedBank(s)
                => CommittedMeta(s)'.gen > CommittedMeta(s).gen]_vars
  BY <1>1 DEF Ratchet
<1> QED
  BY <1>2, Invariance, PTL DEF Spec, GenerationRatchet

\* The manifest sealed at upload, or by a disable, is the one the record written
\* later asks for, in whatever bank boots (install_gen_for, install_inner,
\* enact_disable_manifest).
THEOREM LaunchVerified == Spec => []LaunchVerifies
<1>1. IInv => LaunchVerifies
  <2> SUFFICES ASSUME IInv, NEW s \in Sets \ (SingleBank \union overlapped),
                      meta[s][Active(s)].gen > 0, Active(s) \notin unpinned[s]
               PROVE  /\ manifest[s][Active(s)] = meta[s][Active(s)].gen
                      /\ manifest[s][Active(s)] >= CommittedMeta(s).gen
    BY DEF LaunchVerifies
  <2>1. SetInv(s) /\ TypeOK
    BY DEF IInv
  <2>2. CASE boot[s].committed
    BY <2>1, <2>2, CommittedType
       DEF SetInv, Numbered, CommittedOwn, CommittedMeta, CommittedBank
  <2>3. CASE ~boot[s].committed
    BY <2>1, <2>3, CommittedType DEF SetInv, Numbered, TrialAhead, Ahead
  <2> QED
    BY <2>2, <2>3
<1> QED
  BY <1>1, Invariance, PTL

\* Boot states and records keep their type; in particular an automatic
\* rollback keeps the trial boot count within its limit (process_boot).
THEOREM TypeCorrect == Spec => []TypeOK
<1>1. IInv => TypeOK
  BY DEF IInv
<1> QED
  BY <1>1, Invariance, PTL

=============================================================================
