-------------------------- MODULE PatchApplyAtomic --------------------------
(***************************************************************************)
(* PatchApply implements AtomicPatch, provided that interrupted            *)
(* transactions are restored first (RecoverFirst) and nobody else edits    *)
(* the workspace: a target that a transaction has replaced but not yet     *)
(* committed counts as still having its preimage, because rollback.json    *)
(* can bring it back; the write of receipt.json is the commit point.       *)
(***************************************************************************)
EXTENDS PatchApply

\* The content whose hash the approved proposal gives for target f.
PreimageOf(r) ==
    [f \in TargetSet(r) |->
        CHOOSE c \in Contents : ApprovedPreimage(r, f, c)]

\* How often target_files lists f: the apply loop patches it each time.
TurnsOf(r, f) == Cardinality({i \in DOMAIN Targets(r) : Targets(r)[i] = f})

\* What n turns of the loop make of the approved preimage of f.
TextAfter(r, f) ==
    LET text[n \in 0..TurnsOf(r, f)] ==
            IF n = 0 THEN PreimageOf(r)[f]
            ELSE IF text[n - 1] = Mismatch THEN Mismatch
            ELSE Patched(r, f, text[n - 1])
    IN  text

FinalText(r, f) == TextAfter(r, f)[TurnsOf(r, f)]

PostimageOf(r) == [f \in TargetSet(r) |-> FinalText(r, f)]

\* The transactions whose diff is about their targets and whose hunks all match
\* the approved preimages.
Applicable ==
    {r \in Requests :
        /\ DiffTargets(r.proposal.unified_diff) = r.proposal.target_files
        /\ \A f \in TargetSet(r) : \E c \in Contents : ApprovedPreimage(r, f, c)
        /\ \A f \in TargetSet(r) : FinalText(r, f) # Mismatch}

\* The workspace after every interrupted transaction has been restored.
RecoveredImage ==
    [f \in Files |->
        IF \E r \in Requests : f \in mutated[r]
        THEN LET r == CHOOSE s \in Requests : f \in mutated[s] IN PreimageOf(r)[f]
        ELSE files[f]]

Atomic == INSTANCE AtomicPatch WITH
              image        <- RecoveredImage,
              Transactions <- Applicable,
              Preimage     <- [r \in Applicable |-> PreimageOf(r)],
              Postimage    <- [r \in Applicable |-> PostimageOf(r)]

\* apply_patch_transaction and restore_rollback_artifact change the workspace
\* by whole transactions only: through crashes, failed writes, rejected
\* retries and recovery, the image that rollback.json can restore moves from
\* all preimages to all postimages when receipt.json is written, or back.
AllOrNothing == Atomic!Spec
=============================================================================
