----------------------------- MODULE BootVector -----------------------------
(***************************************************************************)
(* What a SelectorStore promises of the two copies it keeps                *)
(* (crates/nv-store/src/selector.rs, trait SelectorStore): the vector that *)
(* boots and the committed floor change only by activating one component,  *)
(* by committing what boots as a whole, and by restoring the floor as a    *)
(* whole.  No step shows a vector mixed from a trial and its floor.        *)
(***************************************************************************)
CONSTANTS Ids,    \* components with an entry
          Entry   \* a component's entry: its bank and sealed images

VARIABLES boots,  \* what the primary says to boot
          floor   \* what the secondary says to restore

\* The first activation of a component out of trial; its siblings keep
\* booting what they boot.
Activate(i, e) ==
    /\ boots[i] = floor[i]
    /\ boots' = [boots EXCEPT ![i] = e]
    /\ UNCHANGED floor

Commit == floor' = boots /\ UNCHANGED boots

Restore == boots' = floor /\ UNCHANGED floor

Init == /\ boots \in [Ids -> Entry]
        /\ floor = boots

Next == (\E i \in Ids, e \in Entry : Activate(i, e)) \/ Commit \/ Restore

Spec == Init /\ [][Next]_<<boots, floor>>
=============================================================================
