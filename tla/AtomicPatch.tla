---------------------------- MODULE AtomicPatch ----------------------------
(***************************************************************************)
(* What patch_apply promises its caller: a workspace that changes only by  *)
(* whole transactions.  A transaction turns the approved preimage of every *)
(* one of its targets into the approved postimage in one step, and an      *)
(* operator may undo one whose postimages are still there, in one step.    *)
(* Attempts that are refused, fail or are interrupted do not show.         *)
(***************************************************************************)
CONSTANTS
    Files,          \* workspace paths
    Transactions,   \* the transactions that may be applied
    Preimage,       \* transaction -> target -> approved content
    Postimage,      \* transaction -> target -> content after the patch
    InitialFiles    \* the workspace to start with

VARIABLE image      \* the workspace as its owner should see it

Overlay(texts) == [f \in Files |-> IF f \in DOMAIN texts THEN texts[f] ELSE image[f]]

Holds(texts) == \A f \in DOMAIN texts : image[f] = texts[f]

Commit(t) == Holds(Preimage[t]) /\ image' = Overlay(Postimage[t])

Undo(t) == Holds(Postimage[t]) /\ image' = Overlay(Preimage[t])

Init == image = InitialFiles

Next == \E t \in Transactions : Commit(t) \/ Undo(t)

Spec == Init /\ [][Next]_image
=============================================================================
