-------------------------- MODULE PatchApplyProofs --------------------------
(***************************************************************************)
(* Theorems about PatchApply for any set of files, contents, requests and  *)
(* any bounds on crashes, failures, edits and time; last, that it           *)
(* implements AtomicPatch as long as interrupted transactions are restored  *)
(* first and nobody else edits the workspace.                              *)
(***************************************************************************)
EXTENDS PatchApplyAtomic, FiniteSetTheorems, TLAPS

Shared == INSTANCE SharedLemmas

\* The rollback documents a transaction directory may hold: none, a damaged
\* one, or the artifact of its own request over exactly its targets.
DocumentsOf(r) ==
    {Absent, Torn} \cup {RollbackArtifact(r, t) : t \in [TargetSet(r) -> Contents]}

\* From the write of rollback.json to the end of the call.
Prepared == {"apply", "replace", "write_receipt", "return", "restore"}

DocumentsInv ==
    /\ files \in [Files -> Contents \cup {Missing}]
    /\ DOMAIN rollback = Dirs
    /\ \A r \in Requests : rollback[r.transaction_dir] \in DocumentsOf(r)

CallInv ==
    /\ pc \in Locations
    /\ pc # "idle" => req \in Requests
    /\ pc \in Prepared \cup {"write_rollback"} => snap \in [TargetSet(req) -> Contents]
    /\ pc \in Prepared => rollback[req.transaction_dir] = RollbackArtifact(req, snap)
    /\ pc = "replace" => buf \in Contents /\ next <= Len(Targets(req))
    /\ next \in Nat \ {0}
    /\ pc = "restore" => left \subseteq TargetSet(req)
    /\ pc \notin {"idle", "restore"} =>
           DiffTargets(req.proposal.unified_diff) = Targets(req)

MutatedInv ==
    /\ mutated \in [Requests -> SUBSET Files]
    /\ \A r \in Requests : mutated[r] # {} => Intact(rollback[r.transaction_dir])
    /\ pc \in {"snapshot", "write_rollback"} => mutated[req] = {}

IndInv == DocumentsInv /\ CallInv /\ MutatedInv

-----------------------------------------------------------------------------
(* Facts about requests.                                                   *)

\* TargetSet lists workspace paths only, and each position of target_files
\* names one of them.
LEMMA TargetsAreFiles ==
    ASSUME NEW r \in Requests
    PROVE  /\ TargetSet(r) \subseteq Files
           /\ Len(Targets(r)) \in Nat
           /\ \A i \in Nat \ {0} : i <= Len(Targets(r)) => Targets(r)[i] \in TargetSet(r)
<1>1. Targets(r) \in Seq(Files)
  BY RequestsAssumption DEF Targets
<1>2. DOMAIN Targets(r) = 1..Len(Targets(r)) /\ Len(Targets(r)) \in Nat
  BY <1>1
<1>3. \A i \in DOMAIN Targets(r) : Targets(r)[i] \in Files
  BY <1>1
<1> QED
  BY <1>2, <1>3 DEF TargetSet, Targets

\* What validate_patch_apply_request guarantees of a request it accepts: the
\* diff has a section for every target, and every target exists, is text and
\* has the preimage the proposal names.
LEMMA AcceptedRequest ==
    ASSUME NEW r \in Requests, NEW F, NEW time,
           RequestErrors(r, F, time) = {}
    PROVE  /\ DiffTargets(r.proposal.unified_diff) = Targets(r)
           /\ \A f \in TargetSet(r) : Readable(F[f]) /\ ApprovedPreimage(r, f, F[f])
<1> DEFINE p == r.proposal
           mismatch == Code(/\ ~p.unified_diff.malformed
                            /\ p.target_files # <<>>
                            /\ DiffTargets(p.unified_diff) # p.target_files,
                            "TARGET_FILES_DIFF_MISMATCH")
           targets == UNION {TargetErrors(r, f, F) : f \in TargetSet(r)}
<1>1. mismatch \subseteq RequestErrors(r, F, time)
  BY DEF RequestErrors
<1>2. Code(p.unified_diff.malformed, "MALFORMED_UNIFIED_DIFF") \subseteq RequestErrors(r, F, time)
  BY DEF RequestErrors
<1>3. Code(p.target_files = <<>>, "TARGET_FILES_REQUIRED") \subseteq RequestErrors(r, F, time)
  BY DEF RequestErrors
<1>4. targets \subseteq RequestErrors(r, F, time)
  BY DEF RequestErrors
<1>5. DiffTargets(p.unified_diff) = Targets(r)
  BY <1>1, <1>2, <1>3 DEF Code, Targets
<1>6. ASSUME NEW f \in TargetSet(r)
      PROVE  Readable(F[f]) /\ ApprovedPreimage(r, f, F[f])
  <2>1. TargetErrors(r, f, F) = {}
    BY <1>4
  <2> QED
    BY <2>1, RequestsAssumption DEF TargetErrors, Code, Readable, ApprovedPreimage
<1> QED
  BY <1>5, <1>6

\* A document that can be used is an artifact of its directory's request.
LEMMA UsableDocuments ==
    ASSUME NEW r \in Requests, NEW document \in DocumentsOf(r)
    PROVE  /\ Torn \in DocumentsOf(r)
           /\ Intact(document) =>
                 /\ document.preimage_texts \in [TargetSet(r) -> Contents]
                 /\ document = RollbackArtifact(r, document.preimage_texts)
<1>1. CASE document \in {Absent, Torn}
  BY <1>1 DEF DocumentsOf, Intact, Absent, Torn
<1>2. CASE document \in {RollbackArtifact(r, t) : t \in [TargetSet(r) -> Contents]}
  BY <1>2 DEF DocumentsOf, RollbackArtifact
<1> QED
  BY <1>1, <1>2 DEF DocumentsOf

\* What build_rollback_artifact seals is an artifact of its own directory.
LEMMA ArtifactIsUsable ==
    ASSUME NEW r \in Requests, NEW t \in [TargetSet(r) -> Contents]
    PROVE  /\ RollbackArtifact(r, t) \in DocumentsOf(r)
           /\ Intact(RollbackArtifact(r, t))
           /\ RollbackArtifact(r, t).preimage_texts = t
BY DEF DocumentsOf, RollbackArtifact, Intact

\* Changing the document of one directory leaves the other requests' alone.
LEMMA OneDocument ==
    ASSUME DocumentsInv, NEW r \in Requests, NEW document,
           rollback' = [rollback EXCEPT ![r.transaction_dir] = document]
    PROVE  /\ DOMAIN rollback' = Dirs
           /\ rollback'[r.transaction_dir] = document
           /\ \A q \in Requests \ {r} :
                 rollback'[q.transaction_dir] = rollback[q.transaction_dir]
BY RequestsAssumption DEF DocumentsInv, Dirs
-----------------------------------------------------------------------------
(* The inductive invariant.                                                *)

\* The empty transaction directories of a fresh workspace satisfy IndInv.
LEMMA IndInvInit == Init => IndInv
<1> SUFFICES ASSUME Init PROVE IndInv
  OBVIOUS
<1>1. DocumentsInv
  BY RequestsAssumption DEF Init, DocumentsInv, DocumentsOf, Dirs
<1>2. CallInv
  BY DEF Init, CallInv, Locations, Prepared
<1>3. MutatedInv
  BY DEF Init, MutatedInv
<1> QED
  BY <1>1, <1>2, <1>3 DEF IndInv

\* Steps that leave the workspace, rollback.json and the ghosts alone and end
\* the call.
LEMMA EndOfCall ==
    ASSUME IndInv, ForgetCall, UNCHANGED <<files, rollback>>,
           UNCHANGED mutated \/ (/\ req \in Requests
                                /\ mutated' = [mutated EXCEPT ![req] = {}])
    PROVE  IndInv'
<1>1. DocumentsInv'
  BY DEF IndInv, DocumentsInv
<1>2. CallInv'
  BY DEF ForgetCall, CallInv, Locations, Prepared
<1>3. MutatedInv'
  BY DEF IndInv, MutatedInv, ForgetCall
<1> QED
  BY <1>1, <1>2, <1>3 DEF IndInv

\* Every step of a call, of the operator and of the environment keeps IndInv.
LEMMA IndInvStep == IndInv /\ [Next]_vars => IndInv'
<1> SUFFICES ASSUME IndInv, [Next]_vars PROVE IndInv'
  OBVIOUS
<1> USE DEF IndInv
<1>1. ASSUME NEW r \in Requests, RejectRequest(r) PROVE IndInv'
  BY <1>1 DEF RejectRequest, durable, volatile, DocumentsInv, CallInv, MutatedInv
<1>1f. ASSUME NEW r \in Requests, ValidateFails(r) PROVE IndInv'
  BY <1>1f DEF ValidateFails, durable, volatile, DocumentsInv, CallInv, MutatedInv
<1>2. ASSUME NEW r \in Requests, BeginTransaction(r) PROVE IndInv'
  <2>1. DocumentsInv'
    BY <1>2 DEF BeginTransaction, durable, DocumentsInv
  <2>2. CallInv'
    BY <1>2, AcceptedRequest DEF BeginTransaction, CallInv, Prepared, Locations
  <2>3. MutatedInv'
    BY <1>2 DEF BeginTransaction, durable, MutatedInv
  <2> QED
    BY <2>1, <2>2, <2>3
<1>3. ASSUME NEW r \in Requests, OperatorRestore(r) PROVE IndInv'
  <2>1. /\ Intact(rollback[r.transaction_dir])
        /\ snap' \in [TargetSet(r) -> Contents]
        /\ rollback[r.transaction_dir] = RollbackArtifact(r, snap')
        /\ left' = DOMAIN snap'
    BY <1>3, UsableDocuments DEF OperatorRestore, DocumentsInv
  <2>2. DocumentsInv'
    BY <1>3 DEF OperatorRestore, durable, DocumentsInv
  <2>3. CallInv'
    BY <1>3, <2>1 DEF OperatorRestore, durable, CallInv, Prepared, Locations
  <2>4. MutatedInv'
    BY <1>3, <2>1, TargetsAreFiles DEF OperatorRestore, durable, MutatedInv
  <2> QED
    BY <2>2, <2>3, <2>4
<1>4. CASE BuildRollback
  <2>1. req \in Requests /\ pc = "snapshot"
    BY <1>4 DEF BuildRollback, CallInv
  <2>2. snap' \in [TargetSet(req) -> Contents]
    BY <1>4, <2>1, TargetsAreFiles DEF BuildRollback, Readable, DocumentsInv
  <2>3. DocumentsInv' /\ MutatedInv'
    BY <1>4 DEF BuildRollback, durable, ghosts, DocumentsInv, MutatedInv
  <2>4. CallInv'
    BY <1>4, <2>1, <2>2 DEF BuildRollback, durable, CallInv, Prepared, Locations
  <2> QED
    BY <2>3, <2>4
<1>5. CASE BuildRollbackFails
  BY <1>5, EndOfCall DEF BuildRollbackFails, Reject, ghosts
<1>6. CASE WriteRollback
  <2>1. req \in Requests /\ pc = "write_rollback" /\ snap \in [TargetSet(req) -> Contents]
    BY <1>6 DEF WriteRollback, CallInv, Prepared
  <2>2. /\ DOMAIN rollback' = Dirs
        /\ rollback'[req.transaction_dir] = RollbackArtifact(req, snap)
        /\ \A q \in Requests \ {req} :
              rollback'[q.transaction_dir] = rollback[q.transaction_dir]
    BY <1>6, <2>1, OneDocument DEF WriteRollback
  <2>3. DocumentsInv'
    BY <1>6, <2>1, <2>2, ArtifactIsUsable DEF WriteRollback, DocumentsInv
  <2>4. CallInv'
    BY <1>6, <2>1, <2>2 DEF WriteRollback, volatile, CallInv, Prepared, Locations
  <2>5. MutatedInv'
    BY <1>6, <2>1, <2>2, ArtifactIsUsable DEF WriteRollback, volatile, ghosts, MutatedInv
  <2> QED
    BY <2>3, <2>4, <2>5
<1>7. CASE WriteRollbackFails
  <2>1. req \in Requests /\ mutated[req] = {}
    BY <1>7 DEF WriteRollbackFails, CallInv, MutatedInv
  <2>2. PICK document \in {rollback[req.transaction_dir], Torn} :
            rollback' = [rollback EXCEPT ![req.transaction_dir] = document]
    BY <1>7 DEF WriteRollbackFails, Damaged
  <2>3. /\ DOMAIN rollback' = Dirs
        /\ rollback'[req.transaction_dir] = document
        /\ \A q \in Requests \ {req} :
              rollback'[q.transaction_dir] = rollback[q.transaction_dir]
    BY <2>1, <2>2, OneDocument
  <2>4. DocumentsInv'
    BY <1>7, <2>1, <2>3, UsableDocuments DEF WriteRollbackFails, Reject, DocumentsInv
  <2>5. CallInv'
    BY <1>7 DEF WriteRollbackFails, Reject, ForgetCall, CallInv, Locations, Prepared
  <2>6. MutatedInv'
    BY <1>7, <2>1, <2>3 DEF WriteRollbackFails, Reject, ForgetCall, ghosts, MutatedInv
  <2> QED
    BY <2>4, <2>5, <2>6
<1>8. CASE PatchTarget
  <2> DEFINE f == Targets(req)[next]
  <2>1. /\ req \in Requests /\ pc = "apply" /\ next <= Len(Targets(req))
        /\ DiffTargets(req.proposal.unified_diff) = Targets(req)
        /\ f \in TargetSet(req)
        /\ files[f] \in Contents
    BY <1>8, TargetsAreFiles DEF PatchTarget, CallInv, DocumentsInv, Readable
  <2>2. Patched(req, f, files[f]) \in Contents \cup {Mismatch}
    BY <2>1, PatchAssumption DEF Patched
  <2>3. buf' \in Contents
    BY <1>8, <2>2 DEF PatchTarget
  <2>4. DocumentsInv' /\ MutatedInv'
    BY <1>8 DEF PatchTarget, ghosts, DocumentsInv, MutatedInv
  <2>5. CallInv'
    BY <1>8, <2>1, <2>3 DEF PatchTarget, CallInv, Prepared, Locations
  <2> QED
    BY <2>4, <2>5
<1>9. CASE PatchTargetFails
  <2>1. /\ pc = "apply" /\ pc' = "restore" /\ left' = DOMAIN snap
        /\ UNCHANGED <<durable, req, snap, next, ghosts>>
    BY <1>9 DEF PatchTargetFails, Restore
  <2> QED
    BY <2>1 DEF durable, ghosts, DocumentsInv, CallInv, MutatedInv, Prepared, Locations
<1>10. CASE ReplaceTarget
  <2>1. /\ req \in Requests /\ pc = "replace" /\ buf \in Contents
        /\ Targets(req)[next] \in TargetSet(req)
        /\ Targets(req)[next] \in Files
        /\ snap \in [TargetSet(req) -> Contents]
        /\ rollback[req.transaction_dir] = RollbackArtifact(req, snap)
    BY <1>10, TargetsAreFiles DEF ReplaceTarget, CallInv, Prepared
  <2>2. DocumentsInv'
    BY <1>10, <2>1 DEF ReplaceTarget, DocumentsInv
  <2>3. CallInv'
    BY <1>10, <2>1 DEF ReplaceTarget, CallInv, Prepared, Locations
  <2>4. MutatedInv'
    BY <1>10, <2>1, ArtifactIsUsable DEF ReplaceTarget, MutatedInv
  <2> QED
    BY <2>2, <2>3, <2>4
<1>11. CASE ReplaceTargetFails
  <2>1. /\ pc = "replace" /\ pc' = "restore" /\ left' = DOMAIN snap
        /\ UNCHANGED <<durable, req, snap, next, ghosts>>
    BY <1>11 DEF ReplaceTargetFails, Restore
  <2> QED
    BY <2>1 DEF durable, ghosts, DocumentsInv, CallInv, MutatedInv, Prepared, Locations
<1>12. CASE ReadPostimages
  BY <1>12 DEF ReadPostimages, durable, ghosts, DocumentsInv, CallInv, MutatedInv, Prepared, Locations
<1>13. CASE ReadPostimagesFails
  BY <1>13, EndOfCall DEF ReadPostimagesFails, Raise, durable, ghosts
<1>14. CASE WriteReceipt
  <2>1. DocumentsInv' /\ CallInv'
    BY <1>14 DEF WriteReceipt, volatile, DocumentsInv, CallInv, Prepared, Locations
  <2>2. MutatedInv'
    BY <1>14 DEF WriteReceipt, volatile, MutatedInv, CallInv
  <2> QED
    BY <2>1, <2>2
<1>15. CASE WriteReceiptFails
  <2>1. /\ pc = "write_receipt" /\ pc' = "restore" /\ left' = DOMAIN snap
        /\ UNCHANGED <<files, rollback, req, snap, next, ghosts>>
    BY <1>15 DEF WriteReceiptFails, Restore
  <2> QED
    BY <2>1 DEF ghosts, DocumentsInv, CallInv, MutatedInv, Prepared, Locations
<1>16. CASE ReturnSuccess
  BY <1>16, EndOfCall DEF ReturnSuccess, durable, ghosts
<1>17. CASE ReturnFails
  BY <1>17, EndOfCall DEF ReturnFails, Raise, durable, ghosts
<1>18. CASE RestoreTarget
  <2>1. /\ req \in Requests /\ pc = "restore"
        /\ left \subseteq TargetSet(req)
        /\ snap \in [TargetSet(req) -> Contents]
    BY <1>18 DEF RestoreTarget, CallInv, Prepared
  <2>2. DocumentsInv'
    BY <1>18, <2>1, TargetsAreFiles DEF RestoreTarget, DocumentsInv
  <2>3. CallInv'
    BY <1>18, <2>1 DEF RestoreTarget, CallInv, Prepared, Locations
  <2>4. MutatedInv'
    BY <1>18 DEF RestoreTarget, ghosts, MutatedInv
  <2> QED
    BY <2>2, <2>3, <2>4
<1>19. CASE FinishRestore
  BY <1>19, EndOfCall DEF FinishRestore, durable, CallInv
<1>20. CASE RestoreFails
  BY <1>20, EndOfCall DEF RestoreFails, Raise, ghosts
<1>21. CASE Crash
  <2>1. CASE rollback' = rollback
    BY <1>21, <2>1, EndOfCall DEF Crash, ghosts
  <2>2. CASE rollback' # rollback
    <3>1. /\ pc = "write_rollback" /\ req \in Requests /\ mutated[req] = {}
          /\ rollback' = [rollback EXCEPT ![req.transaction_dir] = Torn]
      BY <1>21, <2>2 DEF Crash, Debris, CallInv, MutatedInv
    <3>2. /\ DOMAIN rollback' = Dirs
          /\ rollback'[req.transaction_dir] = Torn
          /\ \A q \in Requests \ {req} :
                rollback'[q.transaction_dir] = rollback[q.transaction_dir]
      BY <3>1, OneDocument
    <3>3. DocumentsInv'
      BY <1>21, <3>1, <3>2, UsableDocuments DEF Crash, DocumentsInv
    <3>4. CallInv'
      BY <1>21 DEF Crash, ForgetCall, CallInv, Locations, Prepared
    <3>5. MutatedInv'
      BY <1>21, <3>1, <3>2 DEF Crash, ForgetCall, ghosts, MutatedInv
    <3> QED
      BY <3>3, <3>4, <3>5
  <2> QED
    BY <2>1, <2>2
<1>22. ASSUME NEW f \in Files, NEW c \in Contents \cup {Missing}, Edit(f, c) PROVE IndInv'
  BY <1>22 DEF Edit, volatile, ghosts, DocumentsInv, CallInv, MutatedInv
<1>23. CASE Tick
  BY <1>23 DEF Tick, durable, volatile, ghosts, DocumentsInv, CallInv, MutatedInv
<1>24. CASE UNCHANGED vars
  BY <1>24 DEF vars, durable, volatile, ghosts, DocumentsInv, CallInv, MutatedInv
<1> QED
  BY <1>1, <1>1f, <1>2, <1>3, <1>4, <1>5, <1>6, <1>7, <1>8, <1>9, <1>10, <1>11, <1>12, <1>13,
     <1>14, <1>15, <1>16, <1>17, <1>18, <1>19, <1>20, <1>21, <1>22, <1>23, <1>24
     DEF Next, Step

\* The inductive invariant holds in every reachable state.
THEOREM IndInvHolds == Spec => []IndInv
BY IndInvInit, IndInvStep, PTL DEF Spec

\* For every workspace, every set of requests with their own directories, and
\* any number of crashes, failed file operations, edits by others and retries:
\* a transaction that has replaced a target and is neither committed nor
\* restored has a whole rollback.json that covers all its targets.
THEOREM RollbackBeforeMutationHolds == Spec => []RollbackBeforeMutation
<1>1. IndInv => RollbackBeforeMutation
  <2> SUFFICES ASSUME IndInv, NEW r \in Requests, mutated[r] # {}
               PROVE  /\ Intact(rollback[r.transaction_dir])
                      /\ DOMAIN rollback[r.transaction_dir].preimage_texts = TargetSet(r)
    BY DEF RollbackBeforeMutation
  <2> QED
    BY UsableDocuments DEF IndInv, DocumentsInv, MutatedInv
<1> QED
  BY <1>1, IndInvHolds, PTL
-----------------------------------------------------------------------------
(* Type correctness.                                                       *)

\* A dictionary of hashes over a request's targets is one of Hashes.
LEMMA HashesOfTargets ==
    ASSUME NEW r \in Requests, NEW F \in [Files -> Contents \cup {Missing}],
           \A f \in TargetSet(r) : F[f] # Missing
    PROVE  [f \in TargetSet(r) |-> Hash(F[f])] \in Hashes
<1>1. [f \in TargetSet(r) |-> Hash(F[f])] \in [TargetSet(r) -> {Hash(c) : c \in Contents}]
  BY TargetsAreFiles
<1> QED
  BY <1>1 DEF Hashes

\* A dictionary of texts over a request's targets is one of Texts.
LEMMA TextsOfTargets ==
    ASSUME NEW r \in Requests, NEW t \in [TargetSet(r) -> Contents]
    PROVE  t \in Texts /\ RollbackArtifact(r, t) \in RollbackArtifacts
<1>1. t \in Texts
  BY DEF Texts
<1> QED
  BY <1>1 DEF RollbackArtifact, RollbackArtifacts, Dirs

\* The initial state is well typed.
LEMMA TypeInit == Init => TypeOK
<1> SUFFICES ASSUME Init PROVE TypeOK
  OBVIOUS
<1>1. changed \in BOOLEAN
  BY Zenon DEF Init
<1>2. Empty \in Hashes /\ Empty \in Texts
  BY DEF Hashes, Texts
<1>3. /\ rollback \in [Dirs -> RollbackArtifacts \cup {Absent, Torn}]
      /\ receipt \in [Dirs -> Receipts \cup {Absent, Torn}]
  BY DEF Init, Dirs
<1> QED
  BY <1>1, <1>2, <1>3, RequestsAssumption DEF Init, TypeOK, Locations, Result, NoResult

\* What every way of ending a call leaves of the volatile state.
LEMMA TypeForget ==
    ASSUME ForgetCall
    PROVE  /\ pc' \in Locations
           /\ req' \in Requests \cup {NoRequest}
           /\ pre' \in Hashes
           /\ snap' \in Texts
           /\ next' \in Nat \ {0}
           /\ buf' \in Contents \cup {Missing}
           /\ post' \in Hashes
           /\ left' \subseteq Files
           /\ changed' \in BOOLEAN
<1>1. changed' \in BOOLEAN
  BY Zenon DEF ForgetCall
<1>2. Empty \in Hashes /\ Empty \in Texts
  BY DEF Hashes, Texts
<1> QED
  BY <1>1, <1>2 DEF ForgetCall, Locations

\* The environment's counters are natural numbers.
LEMMA TypeFault ==
    ASSUME TypeOK, Fault \/ UNCHANGED budget
    PROVE  <<crashes, faults, edits, now>>' \in Nat \X Nat \X Nat \X Nat
BY DEF TypeOK, Fault, budget

\* Every step keeps the types; IndInv says which request a running call serves.
LEMMA TypeStep == TypeOK /\ IndInv /\ [Next]_vars => TypeOK'
<1> SUFFICES ASSUME TypeOK, IndInv, [Next]_vars PROVE TypeOK'
  OBVIOUS
<1> USE DEF TypeOK
<1>d. /\ \A r \in Requests : r.transaction_dir \in Dirs
      /\ \A r \in Requests : TargetSet(r) \subseteq Files
  BY TargetsAreFiles DEF Dirs
<1>1. ASSUME NEW r \in Requests, RejectRequest(r) PROVE TypeOK'
  BY <1>1 DEF RejectRequest, durable, volatile, budget, Failure, Result
<1>1f. ASSUME NEW r \in Requests, ValidateFails(r) PROVE TypeOK'
  BY <1>1f, TypeFault DEF ValidateFails, durable, volatile, Result
<1>2. ASSUME NEW r \in Requests, BeginTransaction(r) PROVE TypeOK'
  <2>1. pre' \in Hashes
    BY <1>2, AcceptedRequest, HashesOfTargets DEF BeginTransaction, Readable
  <2> QED
    BY <1>2, <2>1 DEF BeginTransaction, durable, budget, NoResult, Result, Locations
<1>3. ASSUME NEW r \in Requests, OperatorRestore(r) PROVE TypeOK'
  <2>1. snap' \in [TargetSet(r) -> Contents] /\ left' = DOMAIN snap'
    BY <1>3, UsableDocuments DEF OperatorRestore, IndInv, DocumentsInv
  <2>2. snap' \in Texts /\ left' \subseteq Files
    BY <2>1, <1>d, TextsOfTargets
  <2> QED
    BY <1>3, <1>d, <2>2 DEF OperatorRestore, durable, budget, NoResult, Result, Locations
<1>4. CASE BuildRollback
  <2>1. snap' \in Texts
    <3>1. req \in Requests
      BY <1>4 DEF BuildRollback, IndInv, CallInv
    <3>2. snap' \in [TargetSet(req) -> Contents]
      BY <1>4, <3>1, <1>d DEF BuildRollback, Readable
    <3> QED
      BY <3>1, <3>2, TextsOfTargets
  <2> QED
    BY <1>4, <2>1 DEF BuildRollback, durable, ghosts, budget, Locations
<1>5. CASE BuildRollbackFails
  BY <1>5, TypeForget, TypeFault DEF BuildRollbackFails, Reject, ghosts, Failure, Result
<1>6. CASE WriteRollback
  <2>1. /\ req \in Requests
        /\ RollbackArtifact(req, snap) \in RollbackArtifacts
    BY <1>6, TextsOfTargets DEF WriteRollback, IndInv, CallInv, Prepared
  <2> QED
    BY <1>6, <2>1 DEF WriteRollback, volatile, ghosts, budget, Locations
<1>7. CASE WriteRollbackFails
  <2>1. rollback' \in [Dirs -> RollbackArtifacts \cup {Absent, Torn}]
    BY <1>7, <1>d DEF WriteRollbackFails, Damaged, IndInv, CallInv
  <2> QED
    BY <1>7, <2>1, TypeForget, TypeFault DEF WriteRollbackFails, Reject, ghosts, Failure, Result
<1>8. CASE PatchTarget
  <2>1. /\ Targets(req)[next] \in Files
        /\ buf' \in Contents
    <3>1. IndInv'
      BY IndInvStep
    <3> QED
      BY <1>8, <1>d, <3>1, TargetsAreFiles DEF PatchTarget, IndInv, CallInv
  <2> QED
    BY <1>8, <2>1 DEF PatchTarget, ghosts, budget, Locations
<1>9. CASE PatchTargetFails
  <2>1. DOMAIN snap \subseteq Files
    BY <1>9, <1>d DEF PatchTargetFails, IndInv, CallInv, Prepared
  <2>2. Fault \/ UNCHANGED budget
    BY <1>9 DEF PatchTargetFails
  <2> QED
    BY <1>9, <2>1, <2>2, TypeFault DEF PatchTargetFails, Restore, durable, ghosts, Locations
<1>10. CASE ReplaceTarget
  <2>1. /\ req \in Requests /\ Targets(req)[next] \in Files /\ buf \in Contents
    BY <1>10, <1>d, TargetsAreFiles DEF ReplaceTarget, IndInv, CallInv
  <2> QED
    BY <1>10, <2>1 DEF ReplaceTarget, budget, Locations
<1>11. CASE ReplaceTargetFails
  <2>1. DOMAIN snap \subseteq Files
    BY <1>11, <1>d DEF ReplaceTargetFails, IndInv, CallInv, Prepared
  <2> QED
    BY <1>11, <2>1, TypeFault DEF ReplaceTargetFails, Restore, durable, ghosts, Locations
<1>12. CASE ReadPostimages
  <2>1. post' \in Hashes
    BY <1>12, HashesOfTargets DEF ReadPostimages, IndInv, CallInv
  <2> QED
    BY <1>12, <2>1 DEF ReadPostimages, durable, ghosts, budget, Locations
<1>13. CASE ReadPostimagesFails
  BY <1>13, TypeForget, TypeFault DEF ReadPostimagesFails, Raise, durable, ghosts, Result
<1>14. CASE WriteReceipt
  <2>1. /\ req \in Requests
        /\ RollbackArtifact(req, snap) \in RollbackArtifacts
    BY <1>14, TextsOfTargets DEF WriteReceipt, IndInv, CallInv, Prepared
  <2>2. Receipt(req, pre, post, RollbackArtifact(req, snap)) \in Receipts
    BY <2>1 DEF Receipt, Receipts
  <2> QED
    BY <1>14, <2>1, <2>2 DEF WriteReceipt, volatile, budget, Locations
<1>15. CASE WriteReceiptFails
  <2>1. DOMAIN snap \subseteq Files /\ req.transaction_dir \in Dirs
    BY <1>15, <1>d DEF WriteReceiptFails, IndInv, CallInv, Prepared
  <2>2. receipt' \in [Dirs -> Receipts \cup {Absent, Torn}]
    BY <1>15, <2>1 DEF WriteReceiptFails, Damaged
  <2> QED
    BY <1>15, <2>1, <2>2, TypeFault DEF WriteReceiptFails, Restore, ghosts, Locations
<1>16. CASE ReturnSuccess
  BY <1>16, TypeForget DEF ReturnSuccess, durable, ghosts, budget, Result
<1>17. CASE ReturnFails
  BY <1>17, TypeForget, TypeFault DEF ReturnFails, Raise, durable, ghosts, Result
<1>18. CASE RestoreTarget
  <2>1. /\ left \subseteq TargetSet(req) /\ snap \in [TargetSet(req) -> Contents]
        /\ TargetSet(req) \subseteq Files
    BY <1>18, <1>d DEF RestoreTarget, IndInv, CallInv, Prepared
  <2> QED
    BY <1>18, <2>1 DEF RestoreTarget, ghosts, budget, Locations
<1>19. CASE FinishRestore
  BY <1>19, TypeForget DEF FinishRestore, durable, budget, Result
<1>20. CASE RestoreFails
  <2>1. temps' \subseteq Files \X {"apply", "rollback"}
    BY <1>20 DEF RestoreFails
  <2> QED
    BY <1>20, <2>1, TypeForget, TypeFault DEF RestoreFails, Raise, ghosts, Result
<1>21. CASE Crash
  <2>1. /\ rollback' \in [Dirs -> RollbackArtifacts \cup {Absent, Torn}]
        /\ receipt' \in [Dirs -> Receipts \cup {Absent, Torn}]
        /\ temps' \subseteq Files \X {"apply", "rollback"}
    BY <1>21 DEF Crash, Debris
  <2> QED
    BY <1>21, <2>1, TypeForget DEF Crash, ghosts, Result
<1>22. ASSUME NEW f \in Files, NEW c \in Contents \cup {Missing}, Edit(f, c) PROVE TypeOK'
  BY <1>22 DEF Edit, volatile, ghosts
<1>23. CASE Tick
  BY <1>23 DEF Tick, durable, volatile, ghosts
<1>24. CASE UNCHANGED vars
  BY <1>24 DEF vars, durable, volatile, ghosts, budget
<1> QED
  BY <1>1, <1>1f, <1>2, <1>3, <1>4, <1>5, <1>6, <1>7, <1>8, <1>9, <1>10, <1>11, <1>12, <1>13,
     <1>14, <1>15, <1>16, <1>17, <1>18, <1>19, <1>20, <1>21, <1>22, <1>23, <1>24
     DEF Next, Step

\* Every variable keeps its type, whatever the environment does.
THEOREM TypeCorrect == Spec => []TypeOK
BY TypeInit, TypeStep, IndInvHolds, PTL DEF Spec

-----------------------------------------------------------------------------
(* What a rejected, an interrupted and a committed transaction leave       *)
(* behind, and what a running one may write.  Where the workspace itself   *)
(* is concerned, as long as nobody else edits it (edits = 0).              *)

\* Every usable artifact holds approved preimages, because it is built from
\* the files that validation has just compared with the proposal's hashes.
ApprovedInv ==
    /\ \A r \in Requests :
           Intact(rollback[r.transaction_dir]) =>
               \A f \in TargetSet(r) :
                   ApprovedPreimage(r, f, rollback[r.transaction_dir].preimage_texts[f])
    /\ pc = "snapshot" => \A f \in TargetSet(req) : ApprovedPreimage(req, f, files[f])
    /\ pc = "write_rollback" => \A f \in TargetSet(req) : ApprovedPreimage(req, f, snap[f])

\* How far the running transaction has moved the workspace away from where the
\* call found it, and back.
UntouchedInv ==
    /\ result.status = "rejected" => pc = "idle" /\ files = start
    /\ why = "operator" => pc = "restore"
    /\ pc \in {"snapshot", "write_rollback"} => files = start
    /\ pc \notin {"idle", "snapshot"} /\ why # "operator" =>
           \A f \in TargetSet(req) : snap[f] = start[f]
    /\ pc # "idle" /\ why # "operator" =>
           \A f \in Files \ TargetSet(req) : files[f] = start[f]
    /\ pc = "restore" /\ why # "operator" =>
           \A f \in TargetSet(req) \ left : files[f] = start[f]

-----------------------------------------------------------------------------
\* An edit is counted.
LEMMA NoEdit ==
    ASSUME TypeOK, edits' = 0, NEW f, NEW c, Edit(f, c)
    PROVE  FALSE
BY DEF TypeOK, Edit

\* Only an edit changes the count of edits, which never falls.
LEMMA EditsCounted ==
    ASSUME TypeOK, [Next]_vars
    PROVE  edits' = edits \/ (edits < MaxEdits /\ edits' = edits + 1)
<1>1. ASSUME Step \/ Crash \/ Tick \/ UNCHANGED vars PROVE edits' = edits
  BY <1>1 DEF Step, BuildRollback, BuildRollbackFails, WriteRollback, WriteRollbackFails,
     PatchTarget, PatchTargetFails, ReplaceTarget, ReplaceTargetFails, ReadPostimages,
     ReadPostimagesFails, WriteReceipt, WriteReceiptFails, ReturnSuccess, ReturnFails,
     RestoreTarget, FinishRestore, RestoreFails, Crash, Tick, Fault, vars, budget
<1>2. ASSUME NEW r \in Requests,
             RejectRequest(r) \/ ValidateFails(r) \/ BeginTransaction(r) \/ OperatorRestore(r)
      PROVE  edits' = edits
  BY <1>2 DEF RejectRequest, ValidateFails, BeginTransaction, OperatorRestore, Fault, budget
<1> QED
  BY <1>1, <1>2 DEF Next, Edit

\* With MaxEdits = 0 nobody but the transactions writes the workspace.
LEMMA NeverEdited == ASSUME MaxEdits = 0 PROVE Spec => [](edits = 0)
<1>1. Init => edits = 0
  BY DEF Init
<1>2. TypeOK /\ edits = 0 /\ [Next]_vars => (edits = 0)'
  <2> SUFFICES ASSUME TypeOK, edits = 0, [Next]_vars PROVE edits' = 0
    OBVIOUS
  <2>1. edits' = edits \/ (edits < MaxEdits /\ edits' = edits + 1)
    BY EditsCounted
  <2> QED
    BY <2>1
<1> QED
  BY <1>1, <1>2, TypeCorrect, PTL DEF Spec

\* No transaction has replaced anything yet.
LEMMA ApprovedInit == Init => ApprovedInv
<1> SUFFICES ASSUME Init PROVE ApprovedInv
  OBVIOUS
<1>1. \A r \in Requests : ~Intact(rollback[r.transaction_dir])
  BY DEF Init, Intact, Absent
<1> QED
  BY <1>1 DEF Init, ApprovedInv

\* Steps that change no rollback.json and do not move to an earlier location.
LEMMA ApprovedUnchanged ==
    ASSUME ApprovedInv, UNCHANGED rollback, pc' \notin {"snapshot", "write_rollback"}
    PROVE  ApprovedInv'
BY DEF ApprovedInv

\* Every step but an edit keeps ApprovedInv.
LEMMA ApprovedStep ==
    edits' = 0 /\ TypeOK /\ IndInv /\ ApprovedInv /\ [Next]_vars => ApprovedInv'
<1> SUFFICES ASSUME edits' = 0, TypeOK, IndInv, ApprovedInv, [Next]_vars
             PROVE  ApprovedInv'
  OBVIOUS
<1>1. ASSUME NEW r \in Requests, RejectRequest(r) PROVE ApprovedInv'
  BY <1>1 DEF RejectRequest, durable, volatile, ApprovedInv
<1>1f. ASSUME NEW r \in Requests, ValidateFails(r) PROVE ApprovedInv'
  BY <1>1f DEF ValidateFails, durable, volatile, ApprovedInv
<1>2. ASSUME NEW r \in Requests, BeginTransaction(r) PROVE ApprovedInv'
  BY <1>2, AcceptedRequest DEF BeginTransaction, durable, ApprovedInv
<1>3. ASSUME NEW r \in Requests, OperatorRestore(r) PROVE ApprovedInv'
  BY <1>3, ApprovedUnchanged DEF OperatorRestore, durable
<1>4. CASE BuildRollback
  BY <1>4 DEF BuildRollback, durable, ApprovedInv
<1>5. CASE BuildRollbackFails
  BY <1>5, ApprovedUnchanged DEF BuildRollbackFails, Reject, ForgetCall
<1>6. CASE WriteRollback
  <2>1. req \in Requests /\ pc = "write_rollback" /\ snap \in [TargetSet(req) -> Contents]
    BY <1>6 DEF WriteRollback, IndInv, CallInv, Prepared
  <2>2. /\ rollback'[req.transaction_dir] = RollbackArtifact(req, snap)
        /\ \A q \in Requests \ {req} :
              rollback'[q.transaction_dir] = rollback[q.transaction_dir]
    BY <1>6, <2>1, OneDocument DEF WriteRollback, IndInv
  <2>3. \A f \in TargetSet(req) :
            ApprovedPreimage(req, f, rollback'[req.transaction_dir].preimage_texts[f])
    BY <2>1, <2>2, ArtifactIsUsable DEF ApprovedInv
  <2> QED
    BY <1>6, <2>2, <2>3 DEF WriteRollback, ApprovedInv
<1>7. CASE WriteRollbackFails
  <2>1. req \in Requests
    BY <1>7 DEF WriteRollbackFails, IndInv, CallInv
  <2>2. PICK document \in {rollback[req.transaction_dir], Torn} :
            rollback' = [rollback EXCEPT ![req.transaction_dir] = document]
    BY <1>7 DEF WriteRollbackFails, Damaged
  <2>3. /\ rollback'[req.transaction_dir] = document
        /\ \A q \in Requests \ {req} :
              rollback'[q.transaction_dir] = rollback[q.transaction_dir]
    BY <2>1, <2>2, OneDocument DEF IndInv
  <2> QED
    BY <1>7, <2>3 DEF WriteRollbackFails, Reject, ForgetCall, ApprovedInv, Intact, Torn
<1>8. CASE PatchTarget
  BY <1>8, ApprovedUnchanged DEF PatchTarget
<1>9. CASE PatchTargetFails
  BY <1>9, ApprovedUnchanged DEF PatchTargetFails, Restore, durable
<1>10. CASE ReplaceTarget
  BY <1>10, ApprovedUnchanged DEF ReplaceTarget
<1>11. CASE ReplaceTargetFails
  BY <1>11, ApprovedUnchanged DEF ReplaceTargetFails, Restore, durable
<1>12. CASE ReadPostimages
  BY <1>12, ApprovedUnchanged DEF ReadPostimages, durable
<1>13. CASE ReadPostimagesFails
  BY <1>13, ApprovedUnchanged DEF ReadPostimagesFails, Raise, ForgetCall, durable
<1>14. CASE WriteReceipt
  BY <1>14, ApprovedUnchanged DEF WriteReceipt
<1>15. CASE WriteReceiptFails
  BY <1>15, ApprovedUnchanged DEF WriteReceiptFails, Restore
<1>16. CASE ReturnSuccess
  BY <1>16, ApprovedUnchanged DEF ReturnSuccess, ForgetCall, durable
<1>17. CASE ReturnFails
  BY <1>17, ApprovedUnchanged DEF ReturnFails, Raise, ForgetCall, durable
<1>18. CASE RestoreTarget
  BY <1>18, ApprovedUnchanged DEF RestoreTarget
<1>19. CASE FinishRestore
  BY <1>19, ApprovedUnchanged DEF FinishRestore, ForgetCall, durable
<1>20. CASE RestoreFails
  BY <1>20, ApprovedUnchanged DEF RestoreFails, Raise, ForgetCall
<1>21. CASE Crash
  <2>1. CASE UNCHANGED rollback
    BY <1>21, <2>1, ApprovedUnchanged DEF Crash, ForgetCall
  <2>2. CASE rollback' # rollback
    <3>1. /\ req \in Requests
          /\ rollback' = [rollback EXCEPT ![req.transaction_dir] = Torn]
      BY <1>21, <2>2 DEF Crash, Debris, IndInv, CallInv
    <3>2. /\ rollback'[req.transaction_dir] = Torn
          /\ \A q \in Requests \ {req} :
                rollback'[q.transaction_dir] = rollback[q.transaction_dir]
      BY <3>1, OneDocument DEF IndInv
    <3> QED
      BY <1>21, <3>2 DEF Crash, ForgetCall, ApprovedInv, Intact, Torn
  <2> QED
    BY <2>1, <2>2
<1>22. ASSUME NEW f \in Files, NEW c \in Contents \cup {Missing}, Edit(f, c) PROVE ApprovedInv'
  BY <1>22, NoEdit
<1>23. CASE Tick
  BY <1>23 DEF Tick, durable, volatile, ApprovedInv
<1>24. CASE UNCHANGED vars
  BY <1>24 DEF vars, durable, volatile, ApprovedInv
<1> QED
  BY <1>1, <1>1f, <1>2, <1>3, <1>4, <1>5, <1>6, <1>7, <1>8, <1>9, <1>10, <1>11, <1>12, <1>13,
     <1>14, <1>15, <1>16, <1>17, <1>18, <1>19, <1>20, <1>21, <1>22, <1>23, <1>24
     DEF Next, Step

\* ApprovedInv holds until somebody else writes to the workspace.
THEOREM ApprovedUntilEdited == Spec => [](edits = 0 => ApprovedInv)
<1>1. Init => (edits = 0 => ApprovedInv)
  BY ApprovedInit
<1>2. TypeOK /\ IndInv /\ (edits = 0 => ApprovedInv) /\ [Next]_vars
        => (edits = 0 => ApprovedInv)'
  <2>1. TypeOK /\ [Next]_vars /\ edits' = 0 => edits = 0
    BY EditsCounted DEF TypeOK
  <2> QED
    BY <2>1, ApprovedStep
<1> QED
  BY <1>1, <1>2, IndInvHolds, TypeCorrect, PTL DEF Spec

\* Until somebody else edits the workspace, an interrupted transaction can
\* always be restored to the preimages its approval was given for, after any
\* number of crashes, failed operations and retries.
THEOREM RecoverableHolds == Spec => [](edits = 0 => Recoverable)
<1>1. IndInv /\ (edits = 0 => ApprovedInv) => (edits = 0 => Recoverable)
  BY DEF IndInv, MutatedInv, ApprovedInv, Recoverable
<1> QED
  BY <1>1, ApprovedUntilEdited, IndInvHolds, PTL

\* In particular for good, if nobody else ever does.
COROLLARY RecoverableWithoutEdits == ASSUME MaxEdits = 0 PROVE Spec => []Recoverable
BY RecoverableHolds, NeverEdited, PTL
-----------------------------------------------------------------------------
\* No call has answered yet.
LEMMA UntouchedInit == Init => UntouchedInv
BY DEF Init, UntouchedInv, NoResult, Result

\* A call that ends with any other answer than a rejection.
LEMMA UntouchedEnd ==
    ASSUME ForgetCall, result'.status # "rejected"
    PROVE  UntouchedInv'
BY DEF ForgetCall, UntouchedInv

\* Every step but an edit keeps UntouchedInv.
LEMMA UntouchedStep ==
    edits' = 0 /\ TypeOK /\ IndInv /\ UntouchedInv /\ [Next]_vars => UntouchedInv'
<1> SUFFICES ASSUME edits' = 0, TypeOK, IndInv, UntouchedInv, [Next]_vars
             PROVE  UntouchedInv'
  OBVIOUS
<1>t. /\ files \in [Files -> Contents \cup {Missing}]
      /\ start \in [Files -> Contents \cup {Missing}]
      /\ pc # "idle" => req \in Requests /\ TargetSet(req) \subseteq Files
  BY TargetsAreFiles DEF TypeOK, IndInv, CallInv
<1>1. ASSUME NEW r \in Requests, RejectRequest(r) PROVE UntouchedInv'
  BY <1>1 DEF RejectRequest, durable, volatile, UntouchedInv
<1>1f. ASSUME NEW r \in Requests, ValidateFails(r) PROVE UntouchedInv'
  BY <1>1f DEF ValidateFails, durable, volatile, Result, UntouchedInv
<1>2. ASSUME NEW r \in Requests, BeginTransaction(r) PROVE UntouchedInv'
  BY <1>2 DEF BeginTransaction, durable, NoResult, Result, UntouchedInv
<1>3. ASSUME NEW r \in Requests, OperatorRestore(r) PROVE UntouchedInv'
  BY <1>3 DEF OperatorRestore, NoResult, Result, UntouchedInv
<1>4. CASE BuildRollback
  BY <1>4, <1>t DEF BuildRollback, durable, ghosts, UntouchedInv
<1>5. CASE BuildRollbackFails
  BY <1>5 DEF BuildRollbackFails, Reject, ForgetCall, ghosts, UntouchedInv
<1>6. CASE WriteRollback
  BY <1>6 DEF WriteRollback, volatile, ghosts, UntouchedInv
<1>7. CASE WriteRollbackFails
  BY <1>7 DEF WriteRollbackFails, Reject, ForgetCall, ghosts, UntouchedInv
<1>8. CASE PatchTarget
  BY <1>8 DEF PatchTarget, ghosts, UntouchedInv
<1>9. CASE PatchTargetFails
  <2>1. /\ pc = "apply" /\ pc' = "restore" /\ left' = DOMAIN snap /\ why' # "operator"
        /\ UNCHANGED <<files, req, snap, result, start>>
    BY <1>9 DEF PatchTargetFails, Restore, durable, ghosts
  <2>2. DOMAIN snap = TargetSet(req)
    BY <2>1 DEF IndInv, CallInv, Prepared
  <2> QED
    BY <2>1, <2>2 DEF UntouchedInv
<1>10. CASE ReplaceTarget
  <2>1. Targets(req)[next] \in TargetSet(req)
    BY <1>10, TargetsAreFiles DEF ReplaceTarget, IndInv, CallInv
  <2> QED
    BY <1>10, <1>t, <2>1 DEF ReplaceTarget, UntouchedInv
<1>11. CASE ReplaceTargetFails
  <2>1. DOMAIN snap = TargetSet(req)
    BY <1>11 DEF ReplaceTargetFails, IndInv, CallInv, Prepared
  <2> QED
    BY <1>11, <2>1 DEF ReplaceTargetFails, Restore, durable, ghosts, UntouchedInv
<1>12. CASE ReadPostimages
  BY <1>12 DEF ReadPostimages, durable, ghosts, UntouchedInv
<1>13. CASE ReadPostimagesFails
  BY <1>13, UntouchedEnd DEF ReadPostimagesFails, Raise, Result
<1>14. CASE WriteReceipt
  BY <1>14 DEF WriteReceipt, volatile, UntouchedInv
<1>15. CASE WriteReceiptFails
  <2>1. DOMAIN snap = TargetSet(req)
    BY <1>15 DEF WriteReceiptFails, IndInv, CallInv, Prepared
  <2> QED
    BY <1>15, <2>1 DEF WriteReceiptFails, Restore, ghosts, UntouchedInv
<1>16. CASE ReturnSuccess
  BY <1>16, UntouchedEnd DEF ReturnSuccess, Result
<1>17. CASE ReturnFails
  BY <1>17, UntouchedEnd DEF ReturnFails, Raise, Result
<1>18. CASE RestoreTarget
  BY <1>18, <1>t DEF RestoreTarget, ghosts, UntouchedInv, IndInv, CallInv
<1>19. CASE FinishRestore
  <2>1. CASE why = "operator"
    BY <1>19, <2>1, UntouchedEnd DEF FinishRestore, Result
  <2>2. CASE why # "operator"
    <3>1. \A f \in Files : files[f] = start[f]
      BY <1>19, <2>2 DEF FinishRestore, UntouchedInv
    <3>2. files = start
      BY <3>1, <1>t
    <3> QED
      BY <1>19, <2>2, <3>2 DEF FinishRestore, ForgetCall, durable, UntouchedInv
  <2> QED
    BY <2>1, <2>2
<1>20. CASE RestoreFails
  BY <1>20, UntouchedEnd DEF RestoreFails, Raise, Result
<1>21. CASE Crash
  BY <1>21, UntouchedEnd DEF Crash, Result
<1>22. ASSUME NEW f \in Files, NEW c \in Contents \cup {Missing}, Edit(f, c) PROVE UntouchedInv'
  BY <1>22, NoEdit
<1>23. CASE Tick
  BY <1>23 DEF Tick, durable, volatile, ghosts, UntouchedInv
<1>24. CASE UNCHANGED vars
  BY <1>24 DEF vars, durable, volatile, ghosts, UntouchedInv
<1> QED
  BY <1>1, <1>1f, <1>2, <1>3, <1>4, <1>5, <1>6, <1>7, <1>8, <1>9, <1>10, <1>11, <1>12, <1>13,
     <1>14, <1>15, <1>16, <1>17, <1>18, <1>19, <1>20, <1>21, <1>22, <1>23, <1>24
     DEF Next, Step

\* UntouchedInv holds until somebody else writes to the workspace.
THEOREM UntouchedUntilEdited == Spec => [](edits = 0 => UntouchedInv)
<1>1. Init => (edits = 0 => UntouchedInv)
  BY UntouchedInit
<1>2. TypeOK /\ IndInv /\ (edits = 0 => UntouchedInv) /\ [Next]_vars
        => (edits = 0 => UntouchedInv)'
  <2>1. TypeOK /\ [Next]_vars /\ edits' = 0 => edits = 0
    BY EditsCounted DEF TypeOK
  <2> QED
    BY <2>1, UntouchedStep
<1> QED
  BY <1>1, <1>2, IndInvHolds, TypeCorrect, PTL DEF Spec

\* Until somebody else edits the workspace, a call that answers
\* REJECTED_FAIL_CLOSED leaves every file as it found it, wherever it failed.
THEOREM RejectedMeansUntouchedHolds == Spec => [](edits = 0 => RejectedMeansUntouched)
<1>1. (edits = 0 => UntouchedInv) => (edits = 0 => RejectedMeansUntouched)
  BY DEF UntouchedInv, RejectedMeansUntouched
<1> QED
  BY <1>1, UntouchedUntilEdited, PTL

\* In particular for good, if nobody else ever does.
COROLLARY RejectedMeansUntouchedWithoutEdits ==
    ASSUME MaxEdits = 0 PROVE Spec => []RejectedMeansUntouched
BY RejectedMeansUntouchedHolds, NeverEdited, PTL

-----------------------------------------------------------------------------
(* A SUCCESS answer and the documents on disk.                             *)

\* Between the write of receipt.json and the next call, the receipt binds the
\* artifact that lies beside it.
CommittedInv ==
    /\ pc = "return" =>
           \E p, q : receipt[req.transaction_dir] = Receipt(req, p, q, RollbackArtifact(req, snap))
    /\ result.committed # {} => pc = "idle"
    /\ \A d \in result.committed : \E r \in Requests :
           /\ d = r.transaction_dir
           /\ Intact(rollback[d])
           /\ \E p, q : receipt[d] = Receipt(r, p, q, rollback[d])

\* Nothing has been committed yet.
LEMMA CommittedInit == Init => CommittedInv
BY DEF Init, CommittedInv, NoResult, Result

\* A call that ends without a commit, or begins.
LEMMA CommittedNothing ==
    ASSUME pc' # "return", result'.committed = {}
    PROVE  CommittedInv'
BY DEF CommittedInv

\* Every step keeps CommittedInv.
LEMMA CommittedStep == TypeOK /\ IndInv /\ CommittedInv /\ [Next]_vars => CommittedInv'
<1> SUFFICES ASSUME TypeOK, IndInv, CommittedInv, [Next]_vars PROVE CommittedInv'
  OBVIOUS
<1>e. \A codes : Failure(codes).committed = {}
  BY DEF Failure, Result
<1>1. ASSUME NEW r \in Requests, RejectRequest(r) PROVE CommittedInv'
  BY <1>1, <1>e, CommittedNothing DEF RejectRequest
<1>1f. ASSUME NEW r \in Requests, ValidateFails(r) PROVE CommittedInv'
  BY <1>1f, CommittedNothing DEF ValidateFails, Result
<1>2. ASSUME NEW r \in Requests, BeginTransaction(r) PROVE CommittedInv'
  BY <1>2, CommittedNothing DEF BeginTransaction, NoResult, Result
<1>3. ASSUME NEW r \in Requests, OperatorRestore(r) PROVE CommittedInv'
  BY <1>3, CommittedNothing DEF OperatorRestore, NoResult, Result
<1>r. pc # "idle" => result.committed = {}
  BY DEF CommittedInv
<1>4. CASE BuildRollback
  BY <1>4, <1>r, CommittedNothing DEF BuildRollback
<1>5. CASE BuildRollbackFails
  BY <1>5, <1>e, CommittedNothing DEF BuildRollbackFails, Reject, ForgetCall
<1>6. CASE WriteRollback
  BY <1>6, <1>r, CommittedNothing DEF WriteRollback
<1>7. CASE WriteRollbackFails
  BY <1>7, <1>e, CommittedNothing DEF WriteRollbackFails, Reject, ForgetCall
<1>8. CASE PatchTarget
  BY <1>8, <1>r, CommittedNothing DEF PatchTarget
<1>9. CASE PatchTargetFails
  BY <1>9, <1>r, CommittedNothing DEF PatchTargetFails, Restore
<1>10. CASE ReplaceTarget
  BY <1>10, <1>r, CommittedNothing DEF ReplaceTarget
<1>11. CASE ReplaceTargetFails
  BY <1>11, <1>r, CommittedNothing DEF ReplaceTargetFails, Restore
<1>12. CASE ReadPostimages
  BY <1>12, <1>r, CommittedNothing DEF ReadPostimages
<1>13. CASE ReadPostimagesFails
  BY <1>13, CommittedNothing DEF ReadPostimagesFails, Raise, ForgetCall, Result
<1>14. CASE WriteReceipt
  <2>1. req \in Requests /\ req.transaction_dir \in DOMAIN receipt
    BY <1>14 DEF WriteReceipt, IndInv, CallInv, TypeOK, Dirs
  <2>2. receipt'[req'.transaction_dir] = Receipt(req', pre, post, RollbackArtifact(req', snap'))
    BY <1>14, <2>1 DEF WriteReceipt, volatile
  <2> QED
    BY <1>14, <1>r, <2>2 DEF WriteReceipt, CommittedInv
<1>15. CASE WriteReceiptFails
  BY <1>15, <1>r, CommittedNothing DEF WriteReceiptFails, Restore
<1>16. CASE ReturnSuccess
  <2>1. /\ pc = "return" /\ pc' = "idle" /\ UNCHANGED <<rollback, receipt>>
        /\ result'.committed = {req.transaction_dir}
    BY <1>16 DEF ReturnSuccess, ForgetCall, durable, Result
  <2>2. /\ req \in Requests
        /\ rollback[req.transaction_dir] = RollbackArtifact(req, snap)
        /\ Intact(rollback[req.transaction_dir])
    BY <2>1, ArtifactIsUsable DEF IndInv, CallInv, Prepared
  <2> QED
    BY <2>1, <2>2 DEF CommittedInv
<1>17. CASE ReturnFails
  BY <1>17, CommittedNothing DEF ReturnFails, Raise, ForgetCall, Result
<1>18. CASE RestoreTarget
  BY <1>18, <1>r, CommittedNothing DEF RestoreTarget
<1>19. CASE FinishRestore
  BY <1>19, CommittedNothing DEF FinishRestore, ForgetCall, Result
<1>20. CASE RestoreFails
  BY <1>20, CommittedNothing DEF RestoreFails, Raise, ForgetCall, Result
<1>21. CASE Crash
  BY <1>21, CommittedNothing DEF Crash, ForgetCall, Result
<1>22. ASSUME NEW f \in Files, NEW c \in Contents \cup {Missing}, Edit(f, c) PROVE CommittedInv'
  BY <1>22 DEF Edit, volatile, CommittedInv
<1>23. CASE Tick
  BY <1>23 DEF Tick, durable, volatile, CommittedInv
<1>24. CASE UNCHANGED vars
  BY <1>24 DEF vars, durable, volatile, CommittedInv
<1> QED
  BY <1>1, <1>1f, <1>2, <1>3, <1>4, <1>5, <1>6, <1>7, <1>8, <1>9, <1>10, <1>11, <1>12, <1>13,
     <1>14, <1>15, <1>16, <1>17, <1>18, <1>19, <1>20, <1>21, <1>22, <1>23, <1>24
     DEF Next, Step

\* CommittedInv holds in every state.
THEOREM CommittedHolds == Spec => []CommittedInv
BY CommittedInit, CommittedStep, IndInvHolds, TypeCorrect, PTL DEF Spec

\* Whatever crashed, failed or was edited before, a SUCCESS answer comes with a
\* receipt.json that names the hash of the rollback.json on disk.
THEOREM ReceiptBindsRollbackHolds == Spec => []ReceiptBindsRollback
<1>1. CommittedInv => ReceiptBindsRollback
  <2> SUFFICES ASSUME CommittedInv, NEW d \in result.committed
               PROVE  /\ Intact(receipt[d]) /\ Intact(rollback[d])
                      /\ receipt[d].rollback_artifact_hash = Hash(rollback[d])
    BY DEF ReceiptBindsRollback
  <2>1. /\ Intact(rollback[d])
        /\ \E r, p, q : receipt[d] = Receipt(r, p, q, rollback[d])
    BY DEF CommittedInv
  <2> QED
    BY <2>1 DEF Receipt, Intact
<1> QED
  BY <1>1, CommittedHolds, PTL

\* The postimages are those of the files, from the read to the next call.
PostimagesInv ==
    /\ pc \in {"write_receipt", "return"} => post = [f \in TargetSet(req) |-> Hash(files[f])]
    /\ pc = "return" => receipt[req.transaction_dir].postimage_hashes = post
    /\ ReceiptMatchesWorkspace

\* A call that ends without a commit, or is elsewhere.
LEMMA NoPostimages ==
    ASSUME pc' \notin {"write_receipt", "return"}, result'.committed = {}
    PROVE  PostimagesInv'
BY DEF PostimagesInv, ReceiptMatchesWorkspace

\* Every step but an edit keeps PostimagesInv.
LEMMA PostimagesStep ==
    edits' = 0 /\ TypeOK /\ IndInv /\ CommittedInv /\ PostimagesInv /\ [Next]_vars
        => PostimagesInv'
<1> SUFFICES ASSUME edits' = 0, TypeOK, IndInv, CommittedInv, PostimagesInv, [Next]_vars
             PROVE  PostimagesInv'
  OBVIOUS
<1>e. \A codes : Failure(codes).committed = {}
  BY DEF Failure, Result
<1>1. ASSUME NEW r \in Requests, RejectRequest(r) PROVE PostimagesInv'
  BY <1>1, <1>e, NoPostimages DEF RejectRequest
<1>1f. ASSUME NEW r \in Requests, ValidateFails(r) PROVE PostimagesInv'
  BY <1>1f, NoPostimages DEF ValidateFails, Result
<1>2. ASSUME NEW r \in Requests, BeginTransaction(r) PROVE PostimagesInv'
  BY <1>2, NoPostimages DEF BeginTransaction, NoResult, Result
<1>3. ASSUME NEW r \in Requests, OperatorRestore(r) PROVE PostimagesInv'
  BY <1>3, NoPostimages DEF OperatorRestore, NoResult, Result
<1>r. pc # "idle" => result.committed = {}
  BY DEF CommittedInv
<1>4. CASE BuildRollback
  BY <1>4, <1>r, NoPostimages DEF BuildRollback
<1>5. CASE BuildRollbackFails
  BY <1>5, <1>e, NoPostimages DEF BuildRollbackFails, Reject, ForgetCall
<1>6. CASE WriteRollback
  BY <1>6, <1>r, NoPostimages DEF WriteRollback
<1>7. CASE WriteRollbackFails
  BY <1>7, <1>e, NoPostimages DEF WriteRollbackFails, Reject, ForgetCall
<1>8. CASE PatchTarget
  BY <1>8, <1>r, NoPostimages DEF PatchTarget
<1>9. CASE PatchTargetFails
  BY <1>9, <1>r, NoPostimages DEF PatchTargetFails, Restore
<1>10. CASE ReplaceTarget
  BY <1>10, <1>r, NoPostimages DEF ReplaceTarget
<1>11. CASE ReplaceTargetFails
  BY <1>11, <1>r, NoPostimages DEF ReplaceTargetFails, Restore
<1>12. CASE ReadPostimages
  BY <1>12, <1>r DEF ReadPostimages, durable, PostimagesInv, ReceiptMatchesWorkspace
<1>13. CASE ReadPostimagesFails
  BY <1>13, NoPostimages DEF ReadPostimagesFails, Raise, ForgetCall, Result
<1>14. CASE WriteReceipt
  <2>1. req \in Requests /\ req.transaction_dir \in DOMAIN receipt
    BY <1>14 DEF WriteReceipt, IndInv, CallInv, TypeOK, Dirs
  <2>2. receipt'[req.transaction_dir].postimage_hashes = post
    BY <1>14, <2>1 DEF WriteReceipt, Receipt
  <2> QED
    BY <1>14, <1>r, <2>2 DEF WriteReceipt, volatile, PostimagesInv, ReceiptMatchesWorkspace
<1>15. CASE WriteReceiptFails
  BY <1>15, <1>r, NoPostimages DEF WriteReceiptFails, Restore
<1>16. CASE ReturnSuccess
  <2>1. /\ pc = "return" /\ pc' = "idle" /\ UNCHANGED <<files, receipt>>
        /\ result'.committed = {req.transaction_dir}
    BY <1>16 DEF ReturnSuccess, ForgetCall, durable, Result
  <2> QED
    BY <2>1 DEF PostimagesInv, ReceiptMatchesWorkspace
<1>17. CASE ReturnFails
  BY <1>17, NoPostimages DEF ReturnFails, Raise, ForgetCall, Result
<1>18. CASE RestoreTarget
  BY <1>18, <1>r, NoPostimages DEF RestoreTarget
<1>19. CASE FinishRestore
  BY <1>19, NoPostimages DEF FinishRestore, ForgetCall, Result
<1>20. CASE RestoreFails
  BY <1>20, NoPostimages DEF RestoreFails, Raise, ForgetCall, Result
<1>21. CASE Crash
  BY <1>21, NoPostimages DEF Crash, ForgetCall, Result
<1>22. ASSUME NEW f \in Files, NEW c \in Contents \cup {Missing}, Edit(f, c) PROVE PostimagesInv'
  BY <1>22, NoEdit
<1>23. CASE Tick
  BY <1>23 DEF Tick, durable, volatile, PostimagesInv, ReceiptMatchesWorkspace
<1>24. CASE UNCHANGED vars
  BY <1>24 DEF vars, durable, volatile, PostimagesInv, ReceiptMatchesWorkspace
<1> QED
  BY <1>1, <1>1f, <1>2, <1>3, <1>4, <1>5, <1>6, <1>7, <1>8, <1>9, <1>10, <1>11, <1>12, <1>13,
     <1>14, <1>15, <1>16, <1>17, <1>18, <1>19, <1>20, <1>21, <1>22, <1>23, <1>24
     DEF Next, Step

\* PostimagesInv holds until somebody else writes to the workspace.
THEOREM PostimagesUntilEdited == Spec => [](edits = 0 => PostimagesInv)
<1>1. Init => (edits = 0 => PostimagesInv)
  BY DEF Init, PostimagesInv, ReceiptMatchesWorkspace, NoResult, Result
<1>2. TypeOK /\ IndInv /\ CommittedInv /\ (edits = 0 => PostimagesInv) /\ [Next]_vars
        => (edits = 0 => PostimagesInv)'
  <2>1. TypeOK /\ [Next]_vars /\ edits' = 0 => edits = 0
    BY EditsCounted DEF TypeOK
  <2> QED
    BY <2>1, PostimagesStep
<1> QED
  BY <1>1, <1>2, CommittedHolds, IndInvHolds, TypeCorrect, PTL DEF Spec

\* Until somebody else edits the workspace, each target of a committed
\* transaction holds the content whose hash receipt.json gives as postimage.
THEOREM ReceiptMatchesWorkspaceHolds == Spec => [](edits = 0 => ReceiptMatchesWorkspace)
<1>1. (edits = 0 => PostimagesInv) => (edits = 0 => ReceiptMatchesWorkspace)
  BY DEF PostimagesInv
<1> QED
  BY <1>1, PostimagesUntilEdited, PTL

-----------------------------------------------------------------------------
(* What a transaction may write.                                           *)

\* What validate_approval_packet and validate_patch_apply_request establish
\* once and for all: an approval of this proposal, for this workspace, listing
\* these targets, none of them a denied path.
Authorised(r) ==
    /\ r.approval_packet.present
    /\ r.approval_packet.proposal_hash = Hash(r.proposal)
    /\ r.approval_packet.workspace_root_hash = Hash(Workspace)
    /\ r.approval_packet.target_files = r.proposal.target_files
    /\ TargetSet(r) \cap DeniedPaths = {}

\* The running call, and whoever has left a usable rollback.json behind, was
\* authorised.
AuthorisedInv ==
    /\ pc # "idle" => Authorised(req)
    /\ \A r \in Requests : Intact(rollback[r.transaction_dir]) => Authorised(r)

\* What the temporary file holds is the patched text of the file it replaces.
PatchedInv ==
    pc = "replace" =>
        buf = Patched(req, Targets(req)[next], files[Targets(req)[next]])

\* A request that passes validation is authorised.
LEMMA AcceptedIsAuthorised ==
    ASSUME NEW r \in Requests, NEW F, NEW time, RequestErrors(r, F, time) = {}
    PROVE  Authorised(r)
<1> DEFINE p == r.proposal
           approval == IF r.approval_packet.present
                       THEN ApprovalErrors(r.approval_packet, p, time)
                       ELSE {"APPROVAL_PACKET_REQUIRED"}
           targets == UNION {TargetErrors(r, f, F) : f \in TargetSet(r)}
<1>1. approval \subseteq RequestErrors(r, F, time)
  BY DEF RequestErrors
<1>2. targets \subseteq RequestErrors(r, F, time)
  BY DEF RequestErrors
<1>3. r.approval_packet.present /\ ApprovalErrors(r.approval_packet, p, time) = {}
  BY <1>1
<1>4. /\ Code(r.approval_packet.proposal_hash # Hash(p), "APPROVAL_PROPOSAL_HASH_MISMATCH")
             \subseteq ApprovalErrors(r.approval_packet, p, time)
      /\ Code(r.approval_packet.workspace_root_hash # Hash(Workspace),
              "APPROVAL_WORKSPACE_HASH_MISMATCH")
             \subseteq ApprovalErrors(r.approval_packet, p, time)
      /\ Code(r.approval_packet.target_files # p.target_files, "APPROVAL_TARGET_FILES_MISMATCH")
             \subseteq ApprovalErrors(r.approval_packet, p, time)
  BY DEF ApprovalErrors
<1>5. \A f \in TargetSet(r) : TargetErrors(r, f, F) = {}
  BY <1>2
<1>6. TargetSet(r) \cap DeniedPaths = {}
  BY <1>5 DEF TargetErrors
<1> QED
  BY <1>3, <1>4, <1>6 DEF Authorised, Code

\* Steps that leave rollback.json alone, of the same call or ending it.
LEMMA AuthorisedSame ==
    ASSUME AuthorisedInv, UNCHANGED rollback, pc' = "idle" \/ (pc # "idle" /\ UNCHANGED req)
    PROVE  AuthorisedInv'
BY DEF AuthorisedInv

\* Steps of an authorised call that change the document of its own directory.
LEMMA AuthorisedDocument ==
    ASSUME IndInv, AuthorisedInv, pc # "idle", NEW document,
           rollback' = [rollback EXCEPT ![req.transaction_dir] = document],
           pc' = "idle" \/ UNCHANGED req
    PROVE  AuthorisedInv'
<1>1. req \in Requests /\ Authorised(req)
  BY DEF IndInv, CallInv, AuthorisedInv
<1>2. \A q \in Requests \ {req} : rollback'[q.transaction_dir] = rollback[q.transaction_dir]
  BY <1>1, OneDocument DEF IndInv
<1> QED
  BY <1>1, <1>2 DEF AuthorisedInv

\* Every step keeps AuthorisedInv.
LEMMA AuthorisedStep == IndInv /\ AuthorisedInv /\ [Next]_vars => AuthorisedInv'
<1> SUFFICES ASSUME IndInv, AuthorisedInv, [Next]_vars PROVE AuthorisedInv'
  OBVIOUS
<1>1. ASSUME NEW r \in Requests, RejectRequest(r) \/ ValidateFails(r) PROVE AuthorisedInv'
  BY <1>1, AuthorisedSame DEF RejectRequest, ValidateFails, durable
<1>2. ASSUME NEW r \in Requests, BeginTransaction(r) PROVE AuthorisedInv'
  BY <1>2, AcceptedIsAuthorised DEF BeginTransaction, durable, AuthorisedInv
<1>3. ASSUME NEW r \in Requests, OperatorRestore(r) PROVE AuthorisedInv'
  BY <1>3 DEF OperatorRestore, durable, AuthorisedInv
<1>4. CASE BuildRollback
  BY <1>4, AuthorisedSame DEF BuildRollback, durable
<1>5. CASE BuildRollbackFails
  BY <1>5, AuthorisedSame DEF BuildRollbackFails, Reject, ForgetCall
<1>6. CASE WriteRollback
  BY <1>6, AuthorisedDocument DEF WriteRollback, volatile
<1>7. CASE WriteRollbackFails
  BY <1>7, AuthorisedDocument DEF WriteRollbackFails, Reject, ForgetCall
<1>8. CASE PatchTarget
  BY <1>8, AuthorisedSame DEF PatchTarget
<1>9. CASE PatchTargetFails
  BY <1>9, AuthorisedSame DEF PatchTargetFails, durable
<1>10. CASE ReplaceTarget
  BY <1>10, AuthorisedSame DEF ReplaceTarget
<1>11. CASE ReplaceTargetFails
  BY <1>11, AuthorisedSame DEF ReplaceTargetFails, durable
<1>12. CASE ReadPostimages
  BY <1>12, AuthorisedSame DEF ReadPostimages, durable
<1>13. CASE ReadPostimagesFails
  BY <1>13, AuthorisedSame DEF ReadPostimagesFails, Raise, ForgetCall, durable
<1>14. CASE WriteReceipt
  BY <1>14, AuthorisedSame DEF WriteReceipt, volatile
<1>15. CASE WriteReceiptFails
  BY <1>15, AuthorisedSame DEF WriteReceiptFails
<1>16. CASE ReturnSuccess
  BY <1>16, AuthorisedSame DEF ReturnSuccess, ForgetCall, durable
<1>17. CASE ReturnFails
  BY <1>17, AuthorisedSame DEF ReturnFails, Raise, ForgetCall, durable
<1>18. CASE RestoreTarget
  BY <1>18, AuthorisedSame DEF RestoreTarget
<1>19. CASE FinishRestore
  BY <1>19, AuthorisedSame DEF FinishRestore, ForgetCall, durable
<1>20. CASE RestoreFails
  BY <1>20, AuthorisedSame DEF RestoreFails, Raise, ForgetCall
<1>21. CASE Crash
  <2>1. CASE UNCHANGED rollback
    BY <1>21, <2>1, AuthorisedSame DEF Crash, ForgetCall
  <2>2. CASE rollback' # rollback
    BY <1>21, <2>2, AuthorisedDocument DEF Crash, Debris, ForgetCall
  <2> QED
    BY <2>1, <2>2
<1>22. ASSUME NEW f \in Files, NEW c \in Contents \cup {Missing}, Edit(f, c) PROVE AuthorisedInv'
  BY <1>22 DEF Edit, volatile, AuthorisedInv
<1>23. CASE Tick
  BY <1>23 DEF Tick, durable, volatile, AuthorisedInv
<1>24. CASE UNCHANGED vars
  BY <1>24 DEF vars, durable, volatile, AuthorisedInv
<1> QED
  BY <1>1, <1>2, <1>3, <1>4, <1>5, <1>6, <1>7, <1>8, <1>9, <1>10, <1>11, <1>12, <1>13,
     <1>14, <1>15, <1>16, <1>17, <1>18, <1>19, <1>20, <1>21, <1>22, <1>23, <1>24
     DEF Next, Step

\* Only PatchTarget arrives at the replace, and only an edit could change the
\* file between the two.
LEMMA PatchedStep ==
    edits' = 0 /\ TypeOK /\ PatchedInv /\ [Next]_vars => PatchedInv'
<1> SUFFICES ASSUME edits' = 0, TypeOK, PatchedInv, [Next]_vars, pc' = "replace"
             PROVE  buf' = Patched(req', Targets(req')[next'], files'[Targets(req')[next']])
  BY DEF PatchedInv
<1>1. ASSUME NEW r \in Requests,
             RejectRequest(r) \/ ValidateFails(r) \/ BeginTransaction(r) \/ OperatorRestore(r)
      PROVE  FALSE
  BY <1>1 DEF RejectRequest, ValidateFails, BeginTransaction, OperatorRestore
<1>2. CASE PatchTarget
  BY <1>2 DEF PatchTarget
<1>3. ASSUME Step, ~PatchTarget PROVE FALSE
  BY <1>3 DEF Step, BuildRollback, BuildRollbackFails, WriteRollback, WriteRollbackFails,
     PatchTargetFails, ReplaceTarget, ReplaceTargetFails, ReadPostimages,
     ReadPostimagesFails, WriteReceipt, WriteReceiptFails, ReturnSuccess, ReturnFails,
     RestoreTarget, FinishRestore, RestoreFails, Reject, Raise, Restore, ForgetCall
<1>4. CASE Crash
  BY <1>4 DEF Crash, ForgetCall
<1>5. ASSUME NEW f \in Files, NEW c \in Contents \cup {Missing}, Edit(f, c) PROVE FALSE
  BY <1>5, NoEdit
<1>6. CASE Tick \/ UNCHANGED vars
  BY <1>6 DEF Tick, vars, durable, volatile, PatchedInv
<1> QED
  BY <1>1, <1>2, <1>3, <1>4, <1>5, <1>6 DEF Next

\* Only the replace of a patched target, the restore of one, and an edit change
\* a workspace file.
LEMMA WhoWrites ==
    ASSUME [Next]_vars, files' # files
    PROVE  ReplaceTarget \/ RestoreTarget
           \/ \E f \in Files, c \in Contents \cup {Missing} : Edit(f, c)
<1>1. ASSUME NEW r \in Requests,
             RejectRequest(r) \/ ValidateFails(r) \/ BeginTransaction(r) \/ OperatorRestore(r)
      PROVE  FALSE
  BY <1>1 DEF RejectRequest, ValidateFails, BeginTransaction, OperatorRestore, durable
<1>2. ASSUME Step, ~ReplaceTarget, ~RestoreTarget PROVE FALSE
  BY <1>2 DEF Step, BuildRollback, BuildRollbackFails, WriteRollback, WriteRollbackFails,
     PatchTarget, PatchTargetFails, ReplaceTargetFails, ReadPostimages,
     ReadPostimagesFails, WriteReceipt, WriteReceiptFails, ReturnSuccess, ReturnFails,
     FinishRestore, RestoreFails, Reject, durable
<1>3. ~Crash /\ ~Tick /\ ~UNCHANGED vars
  BY DEF Crash, Tick, vars, durable
<1> QED
  BY <1>1, <1>2, <1>3 DEF Next

\* AuthorisedInv holds in every state.
THEOREM AuthorisedHolds == Spec => []AuthorisedInv
<1>1. Init => AuthorisedInv
  <2> SUFFICES ASSUME Init PROVE AuthorisedInv
    OBVIOUS
  <2>1. \A r \in Requests : ~Intact(rollback[r.transaction_dir])
    BY DEF Init, Intact, Absent
  <2> QED
    BY <2>1 DEF Init, AuthorisedInv
<1> QED
  BY <1>1, AuthorisedStep, IndInvHolds, PTL DEF Spec

\* PatchedInv holds until somebody else writes to the workspace.
THEOREM PatchedUntilEdited == Spec => [](edits = 0 => PatchedInv)
<1>1. Init => (edits = 0 => PatchedInv)
  BY DEF Init, PatchedInv
<1>2. TypeOK /\ (edits = 0 => PatchedInv) /\ [Next]_vars => (edits = 0 => PatchedInv)'
  <2>1. TypeOK /\ [Next]_vars /\ edits' = 0 => edits = 0
    BY EditsCounted DEF TypeOK
  <2> QED
    BY <2>1, PatchedStep
<1> QED
  BY <1>1, <1>2, TypeCorrect, PTL DEF Spec

\* Until somebody else edits the workspace, a file only ever changes by a
\* transaction with a human approval of exactly its proposal, its targets and
\* this workspace, and only to what the diff makes of it or back to the
\* approved preimage, through crashes, retries and restores of any kind.
THEOREM OnlyApprovedWritesHolds == Spec => OnlyApprovedWrites
<1> DEFINE Approved ==
        \A f \in Files : edits' = 0 /\ files'[f] # files[f] =>
          LET approval == req.approval_packet
          IN  /\ pc # "idle"
              /\ approval.present
              /\ approval.proposal_hash = Hash(req.proposal)
              /\ approval.workspace_root_hash = Hash(Workspace)
              /\ f \in {approval.target_files[i] : i \in DOMAIN approval.target_files}
              /\ f \notin DeniedPaths
              /\ \/ ApprovedPreimage(req, f, files'[f])
                 \/ files'[f] = Patched(req, f, files[f])
<1>1. ASSUME TypeOK, IndInv, AuthorisedInv, edits = 0 => PatchedInv, edits = 0 => ApprovedInv,
             [Next]_vars
      PROVE  [Approved]_files
  <2> SUFFICES ASSUME NEW f \in Files, edits' = 0, files'[f] # files[f]
               PROVE  /\ pc # "idle"
                      /\ Authorised(req)
                      /\ f \in TargetSet(req)
                      /\ \/ ApprovedPreimage(req, f, files'[f])
                         \/ files'[f] = Patched(req, f, files[f])
    BY DEF Authorised, TargetSet
  <2>1. edits = 0 /\ PatchedInv /\ ApprovedInv
    BY <1>1, EditsCounted DEF TypeOK
  <2>2. ReplaceTarget \/ RestoreTarget
    BY <1>1, WhoWrites, NoEdit
  <2>3. pc # "idle" /\ req \in Requests /\ Authorised(req)
    BY <1>1, <2>2 DEF ReplaceTarget, RestoreTarget, IndInv, CallInv, AuthorisedInv
  <2>5. CASE ReplaceTarget
    <3>1. f = Targets(req)[next] /\ files'[f] = buf
      BY <1>1, <2>5 DEF ReplaceTarget, TypeOK
    <3>2. f \in TargetSet(req)
      BY <1>1, <2>3, <2>5, <3>1, TargetsAreFiles DEF ReplaceTarget, IndInv, CallInv
    <3> QED
      BY <2>1, <2>3, <2>5, <3>1, <3>2 DEF ReplaceTarget, PatchedInv
  <2>6. CASE RestoreTarget
    <3>1. f \in left /\ files'[f] = snap[f]
      BY <1>1, <2>6 DEF RestoreTarget, TypeOK
    <3>2. f \in TargetSet(req)
      BY <1>1, <2>6, <3>1 DEF RestoreTarget, IndInv, CallInv
    <3>3. /\ rollback[req.transaction_dir] = RollbackArtifact(req, snap)
          /\ snap \in [TargetSet(req) -> Contents]
      BY <1>1, <2>6 DEF RestoreTarget, IndInv, CallInv, Prepared
    <3>4. ApprovedPreimage(req, f, snap[f])
      BY <2>1, <2>3, <3>2, <3>3, ArtifactIsUsable DEF ApprovedInv
    <3> QED
      BY <2>3, <3>1, <3>2, <3>4
  <2> QED
    BY <2>2, <2>5, <2>6
<1>2. TypeOK /\ IndInv /\ AuthorisedInv /\ (edits = 0 => PatchedInv) /\ (edits = 0 => ApprovedInv)
      /\ [Next]_vars => [Approved]_files
  BY <1>1
<1>3. Spec => [][Approved]_files
  BY <1>2, AuthorisedHolds, PatchedUntilEdited, ApprovedUntilEdited, IndInvHolds, TypeCorrect, PTL DEF Spec
<1> QED
  BY <1>3, PTL DEF OnlyApprovedWrites

-----------------------------------------------------------------------------
(* The texts of the apply loop.                                            *)

\* How often the loop has patched f before position n of target_files.
Done(r, f, n) == Cardinality({i \in 1..(n - 1) : Targets(r)[i] = f})

\* Done counts from 0 to TurnsOf, by one at each position of f.
LEMMA DoneCounts ==
    ASSUME NEW r \in Requests, NEW f
    PROVE  /\ TurnsOf(r, f) \in Nat
           /\ Done(r, f, 1) = 0
           /\ \A n \in 1..(Len(Targets(r)) + 1) : Done(r, f, n) \in 0..TurnsOf(r, f)
           /\ \A n \in 1..Len(Targets(r)) :
                 Done(r, f, n + 1) = IF Targets(r)[n] = f THEN Done(r, f, n) + 1 ELSE Done(r, f, n)
           /\ Done(r, f, Len(Targets(r)) + 1) = TurnsOf(r, f)
<1> DEFINE len == Len(Targets(r))
           before(n) == {i \in 1..(n - 1) : Targets(r)[i] = f}
           all == {i \in DOMAIN Targets(r) : Targets(r)[i] = f}
<1>1. len \in Nat /\ DOMAIN Targets(r) = 1..len
  BY RequestsAssumption DEF Targets
<1>2. \A n \in Nat : IsFiniteSet(before(n))
  <2> SUFFICES ASSUME NEW n \in Nat PROVE IsFiniteSet(before(n))
    OBVIOUS
  <2>1. IsFiniteSet(1..(n - 1))
    BY FS_Interval
  <2> QED
    BY <2>1, FS_Subset
<1>3. before(len + 1) = all
  BY <1>1
<1>4. IsFiniteSet(all) /\ Cardinality(all) \in Nat
  <2>1. len + 1 \in Nat
    BY <1>1
  <2> HIDE DEF before, all, len
  <2> QED
    BY <1>2, <1>3, <2>1, FS_CardinalityType
<1>5. Done(r, f, 1) = 0
  <2>1. before(1) = {}
    OBVIOUS
  <2> QED
    BY <2>1, FS_EmptySet DEF Done
<1>6. ASSUME NEW n \in 1..(len + 1) PROVE Done(r, f, n) \in 0..TurnsOf(r, f)
  <2>1. n \in Nat /\ IsFiniteSet(before(n)) /\ before(n) \subseteq all
    BY <1>1, <1>2
  <2>2. Cardinality(before(n)) \in Nat /\ Cardinality(before(n)) <= Cardinality(all)
    BY <2>1, <1>4, FS_CardinalityType, FS_Subset
  <2> QED
    BY <2>2, <1>4 DEF Done, TurnsOf
<1>7. ASSUME NEW n \in 1..len
      PROVE  Done(r, f, n + 1) = IF Targets(r)[n] = f THEN Done(r, f, n) + 1 ELSE Done(r, f, n)
  <2>1. n \in Nat /\ n \notin before(n) /\ IsFiniteSet(before(n))
    BY <1>1, <1>2
  <2>2. CASE Targets(r)[n] = f
    <3>1. before(n + 1) = before(n) \cup {n}
      BY <2>1, <2>2, <1>1
    <3>2. Cardinality(before(n) \cup {n}) = Cardinality(before(n)) + 1
      BY <2>1, FS_AddElement
    <3> QED
      BY <2>2, <3>1, <3>2 DEF Done
  <2>3. CASE Targets(r)[n] # f
    <3>1. before(n + 1) = before(n)
      BY <2>1, <2>3, <1>1
    <3> QED
      BY <2>3, <3>1 DEF Done
  <2> QED
    BY <2>2, <2>3
<1>8. Done(r, f, len + 1) = TurnsOf(r, f)
  BY <1>3 DEF Done, TurnsOf
<1> QED
  BY <1>4, <1>5, <1>6, <1>7, <1>8 DEF TurnsOf

\* TextAfter is the function its definition describes: there is one.
LEMMA TextAfterUnfolds ==
    ASSUME NEW r \in Requests, NEW f
    PROVE  /\ TextAfter(r, f)[0] = PreimageOf(r)[f]
           /\ \A n \in 1..TurnsOf(r, f) :
                 TextAfter(r, f)[n] = IF TextAfter(r, f)[n - 1] = Mismatch THEN Mismatch
                                      ELSE Patched(r, f, TextAfter(r, f)[n - 1])
<1> DEFINE turn(t) == IF t = Mismatch THEN Mismatch ELSE Patched(r, f, t)
           first == PreimageOf(r)[f]
           IsText(g, m) == g = [n \in 0..m |-> IF n = 0 THEN first ELSE turn(g[n - 1])]
           S == {m \in Nat : \E g : IsText(g, m)}
<1> HIDE DEF turn, first
<1>1. 0 \in S
  <2> DEFINE g == [n \in 0..0 |-> first]
  <2>1. IsText(g, 0)
    OBVIOUS
  <2> QED
    BY <2>1
<1>2. ASSUME NEW m \in Nat, m \in S PROVE m + 1 \in S
  <2>1. PICK g : IsText(g, m)
    BY <1>2
  <2> DEFINE h == [n \in 0..(m + 1) |-> IF n = m + 1 THEN turn(g[m]) ELSE g[n]]
  <2>2. /\ g[0] = first
        /\ \A n \in 1..m : g[n] = turn(g[n - 1])
    BY <2>1
  <2>3. /\ h[0] = first
        /\ \A n \in 1..(m + 1) : h[n] = turn(h[n - 1])
    BY <2>2
  <2>4. IsText(h, m + 1)
    <3>1. \A n \in 0..(m + 1) : h[n] = IF n = 0 THEN first ELSE turn(h[n - 1])
      BY <2>3
    <3>2. h = [n \in 0..(m + 1) |-> h[n]]
      OBVIOUS
    <3> HIDE DEF h
    <3> QED
      BY <3>1, <3>2
  <2> HIDE DEF IsText, h
  <2> QED
    BY <2>4
<1>3. TurnsOf(r, f) \in S
  <2>1. Nat \subseteq S
    <3> HIDE DEF S
    <3> QED
      BY <1>1, <1>2, Shared!SetInduction
  <2> QED
    BY <2>1, DoneCounts
<1>4. IsText(TextAfter(r, f), TurnsOf(r, f))
  BY <1>3 DEF TextAfter, turn, first
<1>5. TurnsOf(r, f) \in Nat
  BY DoneCounts
<1> QED
  BY <1>4, <1>5 DEF turn, first

-----------------------------------------------------------------------------
(* The steps of a workspace that nobody else edits.                        *)

\* What the other theorems say of such a workspace.
QuietInv ==
    /\ edits = 0 /\ TypeOK /\ IndInv /\ ApprovedInv /\ UntouchedInv
    /\ PatchedInv /\ PostimagesInv

\* QuietInv holds if nobody ever edits.
LEMMA QuietHolds == ASSUME MaxEdits = 0 PROVE Spec => []QuietInv
<1>1. /\ edits = 0 /\ TypeOK /\ IndInv
      /\ edits = 0 => ApprovedInv
      /\ edits = 0 => UntouchedInv
      /\ edits = 0 => PatchedInv
      /\ edits = 0 => PostimagesInv
      => QuietInv
  BY DEF QuietInv
<1> QED
  BY <1>1, NeverEdited, TypeCorrect, IndInvHolds, ApprovedUntilEdited, UntouchedUntilEdited,
     PatchedUntilEdited, PostimagesUntilEdited, PTL

\* The document of one transaction directory is lost or left alone.
ReceiptKept(d) == UNCHANGED receipt \/ receipt' = [receipt EXCEPT ![d] = Torn]

\* A step that the workspace and the running call do not notice.
Ignored == UNCHANGED <<files, receipt, mutated, pc, req, next, left>>

\* The call ends without a commit and without having finished a restore.
Ended ==
    /\ pc # "idle" /\ ForgetCall
    /\ UNCHANGED <<files, mutated>>
    /\ ReceiptKept(req.transaction_dir)

\* An exception sends the call into the restore.
GaveUp ==
    /\ pc \in {"apply", "replace", "write_receipt"} /\ pc' = "restore"
    /\ left' = DOMAIN snap
    /\ UNCHANGED <<files, mutated, req>>
    /\ ReceiptKept(req.transaction_dir)

\* The steps that matter to the image of the workspace, and the three kinds of
\* the others.
LEMMA StepKinds ==
    ASSUME QuietInv, [Next]_vars, edits' = 0
    PROVE  \/ Ignored \/ Ended \/ GaveUp
           \/ \E r \in Requests : BeginTransaction(r) \/ OperatorRestore(r)
           \/ BuildRollback \/ WriteRollback \/ PatchTarget \/ ReplaceTarget
           \/ ReadPostimages \/ WriteReceipt \/ RestoreTarget \/ FinishRestore
<1>d. pc # "idle" => req.transaction_dir \in DOMAIN receipt /\ receipt \in [DOMAIN receipt -> Receipts \cup {Absent, Torn}]
  BY DEF QuietInv, TypeOK, IndInv, CallInv, Dirs
<1>k. ASSUME pc # "idle",
             \E document \in Damaged(receipt[req.transaction_dir]) :
                receipt' = [receipt EXCEPT ![req.transaction_dir] = document]
      PROVE  ReceiptKept(req.transaction_dir)
  <2>1. [receipt EXCEPT ![req.transaction_dir] = receipt[req.transaction_dir]] = receipt
    BY <1>k, <1>d
  <2> QED
    BY <1>k, <2>1 DEF Damaged, ReceiptKept
<1>1. ASSUME NEW r \in Requests, RejectRequest(r) \/ ValidateFails(r) PROVE Ignored
  BY <1>1 DEF RejectRequest, ValidateFails, durable, volatile, Ignored
<1>2. ASSUME BuildRollbackFails \/ WriteRollbackFails PROVE Ended
  BY <1>2 DEF BuildRollbackFails, WriteRollbackFails, Reject, ghosts, Ended, ReceiptKept
<1>3. ASSUME ReadPostimagesFails \/ ReturnFails \/ RestoreFails \/ ReturnSuccess PROVE Ended
  BY <1>3 DEF ReadPostimagesFails, ReturnFails, RestoreFails, ReturnSuccess, Raise, durable,
     ghosts, Ended, ReceiptKept
<1>4. ASSUME PatchTargetFails \/ ReplaceTargetFails PROVE GaveUp
  BY <1>4 DEF PatchTargetFails, ReplaceTargetFails, Restore, durable, ghosts, GaveUp, ReceiptKept
<1>5. ASSUME WriteReceiptFails PROVE GaveUp
  BY <1>5, <1>k DEF WriteReceiptFails, Restore, ghosts, GaveUp
<1>6. ASSUME Crash PROVE Ended
  BY <1>6 DEF Crash, Debris, ghosts, Ended, ReceiptKept
<1>7. ASSUME NEW f \in Files, NEW c \in Contents \cup {Missing}, Edit(f, c) PROVE FALSE
  BY <1>7, NoEdit DEF QuietInv
<1>8. ASSUME Tick \/ UNCHANGED vars PROVE Ignored
  BY <1>8 DEF Tick, vars, durable, volatile, ghosts, Ignored
<1> QED
  BY <1>1, <1>2, <1>3, <1>4, <1>5, <1>6, <1>7, <1>8 DEF Next, Step

\* The content that has the approved hash is the approved preimage.
LEMMA ApprovedIsPreimage ==
    ASSUME NEW r, NEW f \in TargetSet(r), NEW c \in Contents, ApprovedPreimage(r, f, c)
    PROVE  PreimageOf(r)[f] = c
<1>1. \A d \in Contents : ApprovedPreimage(r, f, d) => d = c
  BY DEF ApprovedPreimage, Hash
<1> QED
  BY <1>1 DEF PreimageOf

\* What the running call would restore are the approved preimages.
LEMMA SnapIsPreimage ==
    ASSUME QuietInv, pc \in Prepared \cup {"write_rollback"}
    PROVE  \A f \in TargetSet(req) :
              /\ snap[f] \in Contents /\ ApprovedPreimage(req, f, snap[f])
              /\ snap[f] = PreimageOf(req)[f]
<1>1. req \in Requests /\ snap \in [TargetSet(req) -> Contents]
  BY DEF QuietInv, IndInv, CallInv, Prepared
<1>2. ASSUME NEW f \in TargetSet(req) PROVE ApprovedPreimage(req, f, snap[f])
  <2>1. CASE pc = "write_rollback"
    BY <2>1 DEF QuietInv, ApprovedInv
  <2>2. CASE pc \in Prepared
    <3>1. rollback[req.transaction_dir] = RollbackArtifact(req, snap)
      BY <2>2 DEF QuietInv, IndInv, CallInv
    <3> QED
      BY <1>1, <3>1, ArtifactIsUsable DEF QuietInv, ApprovedInv
  <2> QED
    BY <2>1, <2>2
<1> QED
  BY <1>1, <1>2, ApprovedIsPreimage

-----------------------------------------------------------------------------
(* The inductive invariant of the refinement.                              *)

\* At most one transaction is interrupted, and it is the running one if a call
\* runs.
SingleInv ==
    /\ \A r, s \in Requests : mutated[r] # {} /\ mutated[s] # {} => r = s
    /\ pc # "idle" => \A s \in Requests \ {req} : mutated[s] = {}
    /\ \A r \in Requests : mutated[r] \subseteq TargetSet(r)

\* What it has not replaced, or has restored, still holds the preimage.
PreimagesInv ==
    /\ \A r \in Requests :
           mutated[r] # {} \/ (r = req /\ pc \in Prepared \ {"return"}) =>
               \A f \in TargetSet(r) \ mutated[r] : files[f] = PreimageOf(r)[f]
    /\ pc = "restore" => \A f \in TargetSet(req) \ left : files[f] = PreimageOf(req)[f]

\* What the loop has patched so far.
ProgressInv ==
    /\ pc \in {"idle", "snapshot", "write_rollback"} => next = 1
    /\ pc \in {"apply", "replace", "write_receipt"} =>
           /\ next <= Len(Targets(req)) + 1
           /\ \A f \in TargetSet(req) :
                 files[f] \in Contents /\ files[f] = TextAfter(req, f)[Done(req, f, next)]
    /\ pc = "write_receipt" => next > Len(Targets(req))

\* What receipt.json reports is the outcome the approved proposal describes.
OutcomeInv ==
    \A r \in Requests :
        Intact(receipt[r.transaction_dir]) =>
            /\ r \in Applicable
            /\ receipt[r.transaction_dir].postimage_hashes =
                   [f \in TargetSet(r) |-> Hash(FinalText(r, f))]

\* Every step keeps SingleInv, because operators restore an interrupted
\* transaction before any other.
LEMMA SingleStep ==
    ASSUME RecoverFirst, QuietInv, SingleInv, [Next]_vars, edits' = 0
    PROVE  SingleInv'
<1>t. /\ mutated \in [Requests -> SUBSET Files]
      /\ pc # "idle" => req \in Requests
  BY DEF QuietInv, TypeOK, IndInv, CallInv
<1>1. CASE Ignored
  BY <1>1 DEF Ignored, SingleInv
<1>2. CASE Ended
  BY <1>2 DEF Ended, ForgetCall, SingleInv
<1>3. CASE GaveUp
  BY <1>3 DEF GaveUp, SingleInv
<1>4. ASSUME NEW r \in Requests, BeginTransaction(r) PROVE SingleInv'
  BY <1>t, <1>4 DEF BeginTransaction, OnlyInterrupted, SingleInv
<1>5. ASSUME NEW r \in Requests, OperatorRestore(r) PROVE SingleInv'
  BY <1>t, <1>5 DEF OperatorRestore, OnlyInterrupted, SingleInv
<1>6. CASE BuildRollback \/ WriteRollback \/ PatchTarget \/ ReadPostimages \/ RestoreTarget
  BY <1>6 DEF BuildRollback, WriteRollback, PatchTarget, ReadPostimages, RestoreTarget,
     volatile, ghosts, SingleInv
<1>7. CASE ReplaceTarget
  <2>1. Targets(req)[next] \in TargetSet(req)
    BY <1>7, TargetsAreFiles DEF ReplaceTarget, QuietInv, IndInv, CallInv
  <2> QED
    BY <1>t, <1>7, <2>1 DEF ReplaceTarget, SingleInv
<1>8. CASE WriteReceipt
  BY <1>t, <1>8 DEF WriteReceipt, volatile, SingleInv
<1>9. CASE FinishRestore
  BY <1>t, <1>9 DEF FinishRestore, ForgetCall, SingleInv
<1> QED
  BY <1>1, <1>2, <1>3, <1>4, <1>5, <1>6, <1>7, <1>8, <1>9, StepKinds

\* Every step keeps PreimagesInv: a replace counts its target as mutated, and a
\* restore puts preimages back.
LEMMA PreimagesStep ==
    ASSUME RecoverFirst, QuietInv, SingleInv, PreimagesInv, [Next]_vars, edits' = 0
    PROVE  PreimagesInv'
<1>t. /\ mutated \in [Requests -> SUBSET Files]
      /\ files \in [Files -> Contents \cup {Missing}]
      /\ pc # "idle" => req \in Requests /\ TargetSet(req) \subseteq Files
  BY TargetsAreFiles DEF QuietInv, TypeOK, IndInv, CallInv
<1>s. pc \in Prepared \cup {"write_rollback"} =>
        DOMAIN snap = TargetSet(req) /\ \A f \in TargetSet(req) : snap[f] = PreimageOf(req)[f]
  BY SnapIsPreimage DEF QuietInv, IndInv, CallInv
<1>1. CASE Ignored
  BY <1>1 DEF Ignored, PreimagesInv
<1>2. CASE Ended
  BY <1>2 DEF Ended, ForgetCall, PreimagesInv, Prepared
<1>3. CASE GaveUp
  BY <1>3, <1>s DEF GaveUp, PreimagesInv, Prepared
<1>4. ASSUME NEW r \in Requests, BeginTransaction(r) PROVE PreimagesInv'
  BY <1>t, <1>4 DEF BeginTransaction, durable, PreimagesInv, Prepared
<1>5. ASSUME NEW r \in Requests, OperatorRestore(r) PROVE PreimagesInv'
  <2>1. left' = TargetSet(r)
    BY <1>5, UsableDocuments DEF OperatorRestore, QuietInv, IndInv, DocumentsInv
  <2>2. \A s \in Requests : mutated'[s] = IF s = r THEN TargetSet(r) ELSE mutated[s]
    BY <1>t, <1>5 DEF OperatorRestore
  <2> QED
    BY <1>5, <2>1, <2>2 DEF OperatorRestore, durable, PreimagesInv
<1>6. CASE BuildRollback
  BY <1>6 DEF BuildRollback, durable, ghosts, PreimagesInv, Prepared
<1>7. CASE WriteRollback
  <2>1. \A f \in TargetSet(req) : files[f] = PreimageOf(req)[f]
    BY <1>7, <1>s DEF WriteRollback, QuietInv, UntouchedInv
  <2> QED
    BY <1>7, <2>1 DEF WriteRollback, volatile, ghosts, PreimagesInv
<1>8. CASE PatchTarget \/ ReadPostimages
  BY <1>8 DEF PatchTarget, ReadPostimages, durable, ghosts, PreimagesInv, Prepared
<1>9. CASE ReplaceTarget
  <2> DEFINE f == Targets(req)[next]
  <2>1. /\ pc = "replace" /\ pc' = "apply" /\ UNCHANGED req
        /\ files' = [files EXCEPT ![f] = buf]
        /\ mutated' = [mutated EXCEPT ![req] = @ \cup {f}]
    BY <1>9 DEF ReplaceTarget
  <2>2. /\ \A s \in Requests \ {req} : mutated'[s] = {}
        /\ mutated'[req] = mutated[req] \cup {f}
        /\ \A g \in Files \ {f} : files'[g] = files[g]
    BY <1>t, <2>1 DEF SingleInv
  <2>3. \A g \in TargetSet(req) \ mutated[req] : files[g] = PreimageOf(req)[g]
    BY <1>t, <2>1 DEF PreimagesInv, Prepared
  <2> HIDE DEF f
  <2> QED
    BY <1>t, <2>1, <2>2, <2>3 DEF PreimagesInv
<1>10. CASE WriteReceipt
  <2>1. /\ pc' = "return" /\ UNCHANGED <<files, req>>
        /\ mutated' = [mutated EXCEPT ![req] = {}]
    BY <1>10 DEF WriteReceipt, volatile
  <2> QED
    BY <1>t, <1>10, <2>1 DEF WriteReceipt, SingleInv, PreimagesInv
<1>11. CASE RestoreTarget
  <2>1. PICK f \in left : files' = [files EXCEPT ![f] = snap[f]] /\ left' = left \ {f}
    BY <1>11 DEF RestoreTarget
  <2>2. pc = "restore" /\ pc' = "restore" /\ UNCHANGED <<req, mutated>>
    BY <1>11 DEF RestoreTarget, ghosts
  <2>3. f \in TargetSet(req) /\ f \in Files /\ snap[f] = PreimageOf(req)[f]
    BY <1>t, <1>s, <2>1, <2>2 DEF QuietInv, IndInv, CallInv, Prepared
  <2>4. files'[f] = PreimageOf(req)[f] /\ \A g \in Files \ {f} : files'[g] = files[g]
    BY <1>t, <2>1, <2>3
  <2>5. \A s \in Requests : mutated[s] # {} => s = req
    BY <2>2 DEF SingleInv
  <2>6. \A g \in TargetSet(req) \ mutated[req] : files[g] = PreimageOf(req)[g]
    BY <1>t, <2>2 DEF PreimagesInv, Prepared
  <2> QED
    BY <1>t, <2>1, <2>2, <2>4, <2>5, <2>6 DEF PreimagesInv
<1>12. CASE FinishRestore
  BY <1>t, <1>12 DEF FinishRestore, ForgetCall, durable, SingleInv, PreimagesInv, Prepared
<1> QED
  BY <1>1, <1>2, <1>3, <1>4, <1>5, <1>6, <1>7, <1>8, <1>9, <1>10, <1>11, <1>12, StepKinds

\* Every step keeps ProgressInv: one turn of the loop is one application of the
\* patch to the text that the turns before have made.
LEMMA ProgressStep ==
    ASSUME QuietInv, ProgressInv, [Next]_vars, edits' = 0
    PROVE  ProgressInv'
<1>t. /\ files \in [Files -> Contents \cup {Missing}]
      /\ next \in Nat \ {0}
      /\ pc # "idle" => req \in Requests /\ TargetSet(req) \subseteq Files /\ Len(Targets(req)) \in Nat
  BY TargetsAreFiles DEF QuietInv, TypeOK, IndInv, CallInv
<1>1. CASE Ignored
  BY <1>1 DEF Ignored, ProgressInv
<1>2. CASE Ended
  BY <1>2 DEF Ended, ForgetCall, ProgressInv
<1>3. CASE GaveUp
  BY <1>3 DEF GaveUp, ProgressInv
<1>4. ASSUME NEW r \in Requests, BeginTransaction(r) PROVE ProgressInv'
  BY <1>4 DEF BeginTransaction, ProgressInv
<1>5. ASSUME NEW r \in Requests, OperatorRestore(r) PROVE ProgressInv'
  BY <1>5 DEF OperatorRestore, ProgressInv
<1>6. CASE BuildRollback
  BY <1>6 DEF BuildRollback, ProgressInv
<1>7. CASE WriteRollback
  <2>1. pc = "write_rollback" /\ pc' = "apply" /\ next' = 1 /\ UNCHANGED <<files, req>>
    BY <1>7 DEF WriteRollback, volatile, ProgressInv
  <2>2. \A f \in TargetSet(req) : files[f] \in Contents /\ files[f] = PreimageOf(req)[f]
    BY <2>1, SnapIsPreimage DEF QuietInv, UntouchedInv
  <2>3. \A f : Done(req, f, 1) = 0 /\ TextAfter(req, f)[0] = PreimageOf(req)[f]
    BY <1>t, <2>1, DoneCounts, TextAfterUnfolds
  <2> QED
    BY <1>t, <2>1, <2>2, <2>3 DEF ProgressInv
<1>8. CASE PatchTarget
  BY <1>8 DEF PatchTarget, ProgressInv
<1>9. CASE ReadPostimages
  BY <1>9 DEF ReadPostimages, durable, ProgressInv
<1>10. CASE ReplaceTarget
  <2> DEFINE f == Targets(req)[next]
  <2>1. /\ pc = "replace" /\ pc' = "apply" /\ UNCHANGED req /\ next' = next + 1
        /\ files' = [files EXCEPT ![f] = buf]
    BY <1>10 DEF ReplaceTarget
  <2>2. /\ buf \in Contents /\ next \in 1..Len(Targets(req))
        /\ f \in TargetSet(req)
        /\ buf = Patched(req, f, files[f])
    BY <1>t, <2>1, TargetsAreFiles DEF QuietInv, IndInv, CallInv, PatchedInv
  <2>3. next' <= Len(Targets(req)) + 1
    BY <1>t, <2>1, <2>2
  <2>4. ASSUME NEW g \in TargetSet(req)
        PROVE  files'[g] \in Contents /\ files'[g] = TextAfter(req, g)[Done(req, g, next + 1)]
    <3>1. files[g] \in Contents /\ files[g] = TextAfter(req, g)[Done(req, g, next)]
      BY <2>1 DEF ProgressInv
    <3>2. CASE g # f
      <4>1. Done(req, g, next + 1) = Done(req, g, next)
        BY <1>t, <2>1, <2>2, <3>2, DoneCounts
      <4> QED
        BY <1>t, <2>1, <2>2, <3>1, <3>2, <4>1
    <3>3. CASE g = f
      <4> DEFINE k == Done(req, g, next)
                 m == Done(req, g, next + 1)
      <4>1. m = k + 1 /\ k \in Nat /\ m <= TurnsOf(req, g) /\ TurnsOf(req, g) \in Nat
        <5>1. m = k + 1
          BY <1>t, <2>1, <2>2, <3>3, DoneCounts
        <5>2. next \in 1..(Len(Targets(req)) + 1) /\ next + 1 \in 1..(Len(Targets(req)) + 1)
          BY <1>t, <2>1, <2>2
        <5>3. TurnsOf(req, g) \in Nat /\ k \in 0..TurnsOf(req, g) /\ m \in 0..TurnsOf(req, g)
          BY <1>t, <2>1, <5>2, DoneCounts
        <5> QED
          BY <5>1, <5>3
      <4> HIDE DEF k, m
      <4>2. m \in 1..TurnsOf(req, g) /\ m - 1 = k
        BY <4>1
      <4>3. TextAfter(req, g)[m] = IF TextAfter(req, g)[k] = Mismatch THEN Mismatch
                                   ELSE Patched(req, g, TextAfter(req, g)[k])
        BY <1>t, <2>1, <4>2, TextAfterUnfolds
      <4>4. files[g] # Mismatch /\ files'[g] = buf
        BY <1>t, <2>1, <2>2, <3>1, <3>3, PatchAssumption
      <4> QED
        BY <2>2, <3>1, <3>3, <4>3, <4>4 DEF k, m
    <3> QED
      BY <3>2, <3>3
  <2> QED
    BY <2>1, <2>3, <2>4 DEF ProgressInv
<1>11. CASE WriteReceipt
  BY <1>11 DEF WriteReceipt, ProgressInv
<1>12. CASE RestoreTarget
  BY <1>12 DEF RestoreTarget, ProgressInv
<1>13. CASE FinishRestore
  BY <1>13 DEF FinishRestore, ForgetCall, ProgressInv
<1> QED
  BY <1>1, <1>2, <1>3, <1>4, <1>5, <1>6, <1>7, <1>8, <1>9, <1>10, <1>11, <1>12, <1>13, StepKinds

\* When the loop is done, every target holds the outcome of the proposal.
LEMMA LoopDone ==
    ASSUME QuietInv, ProgressInv, pc = "write_receipt"
    PROVE  req \in Applicable /\ \A f \in TargetSet(req) : files[f] = FinalText(req, f)
<1>1. req \in Requests /\ Len(Targets(req)) \in Nat /\ next \in Nat
  BY TargetsAreFiles DEF QuietInv, IndInv, CallInv
<1>2. next = Len(Targets(req)) + 1
  BY <1>1 DEF ProgressInv
<1>3. \A f \in TargetSet(req) : files[f] = FinalText(req, f) /\ files[f] \in Contents
  BY <1>1, <1>2, DoneCounts DEF ProgressInv, FinalText
<1>4. DiffTargets(req.proposal.unified_diff) = req.proposal.target_files
  BY DEF QuietInv, IndInv, CallInv, Targets
<1>5. \A f \in TargetSet(req) : \E c \in Contents : ApprovedPreimage(req, f, c)
  BY SnapIsPreimage DEF Prepared
<1> QED
  BY <1>1, <1>3, <1>4, <1>5, PatchAssumption DEF Applicable

\* Changing the receipt of one directory leaves the other requests' alone.
LEMMA OneReceipt ==
    ASSUME QuietInv, NEW r \in Requests, NEW document,
           receipt' = [receipt EXCEPT ![r.transaction_dir] = document]
    PROVE  /\ receipt'[r.transaction_dir] = document
           /\ \A q \in Requests \ {r} : receipt'[q.transaction_dir] = receipt[q.transaction_dir]
BY RequestsAssumption DEF QuietInv, TypeOK, Dirs

\* Every step keeps OutcomeInv.
LEMMA OutcomeStep ==
    ASSUME QuietInv, ProgressInv, OutcomeInv, [Next]_vars, edits' = 0
    PROVE  OutcomeInv'
<1>1. CASE UNCHANGED receipt
  BY <1>1 DEF OutcomeInv
<1>2. ASSUME pc # "idle", ReceiptKept(req.transaction_dir), ~UNCHANGED receipt PROVE OutcomeInv'
  <2>1. req \in Requests /\ receipt' = [receipt EXCEPT ![req.transaction_dir] = Torn]
    BY <1>2 DEF ReceiptKept, QuietInv, IndInv, CallInv
  <2>2. /\ ~Intact(receipt'[req.transaction_dir])
        /\ \A q \in Requests \ {req} : receipt'[q.transaction_dir] = receipt[q.transaction_dir]
    <3>1. ~Intact(Torn)
      BY DEF Intact, Torn
    <3> QED
      BY <2>1, <3>1, OneReceipt
  <2> QED
    BY <2>1, <2>2 DEF OutcomeInv
<1>3. CASE Ended \/ GaveUp
  BY <1>1, <1>2, <1>3 DEF Ended, GaveUp
<1>4. CASE WriteReceipt
  <2>1. /\ pc = "write_receipt" /\ req \in Requests
        /\ receipt' = [receipt EXCEPT ![req.transaction_dir] =
                          Receipt(req, pre, post, RollbackArtifact(req, snap))]
    BY <1>4 DEF WriteReceipt, QuietInv, IndInv, CallInv
  <2>2. /\ receipt'[req.transaction_dir].postimage_hashes = post
        /\ \A q \in Requests \ {req} : receipt'[q.transaction_dir] = receipt[q.transaction_dir]
    <3> DEFINE document == Receipt(req, pre, post, RollbackArtifact(req, snap))
    <3>1. document.postimage_hashes = post
      BY DEF Receipt
    <3> HIDE DEF document
    <3>2. receipt' = [receipt EXCEPT ![req.transaction_dir] = document]
      BY <2>1 DEF document
    <3> QED
      BY <2>1, <3>1, <3>2, OneReceipt
  <2>3. post = [f \in TargetSet(req) |-> Hash(files[f])]
    BY <2>1 DEF QuietInv, PostimagesInv
  <2>4. req \in Applicable /\ post = [f \in TargetSet(req) |-> Hash(FinalText(req, f))]
    BY <2>1, <2>3, LoopDone
  <2> QED
    BY <2>1, <2>2, <2>4 DEF OutcomeInv
<1>5. ASSUME \/ Ignored \/ \E r \in Requests : BeginTransaction(r) \/ OperatorRestore(r)
             \/ BuildRollback \/ WriteRollback \/ PatchTarget \/ ReplaceTarget
             \/ ReadPostimages \/ RestoreTarget \/ FinishRestore
      PROVE  UNCHANGED receipt
  BY <1>5 DEF Ignored, BeginTransaction, OperatorRestore, BuildRollback, WriteRollback,
     PatchTarget, ReplaceTarget, ReadPostimages, RestoreTarget, FinishRestore, durable
<1> QED
  BY <1>1, <1>3, <1>4, <1>5, StepKinds

-----------------------------------------------------------------------------
(* The refinement.                                                         *)

\* RecoveredImage as a function of the state.
Recovered(F, M) ==
    [f \in Files |->
        IF \E r \in Requests : f \in M[r]
        THEN LET r == CHOOSE s \in Requests : f \in M[s] IN PreimageOf(r)[f]
        ELSE F[f]]

\* The same when only r can be interrupted, and has replaced the targets in M.
ImageOf(r, M, F) == [f \in Files |-> IF f \in M THEN PreimageOf(r)[f] ELSE F[f]]

\* When only r can be interrupted, there is nothing to choose.
LEMMA ImageOfOne ==
    ASSUME NEW F, NEW M, NEW r \in Requests, \A s \in Requests \ {r} : M[s] = {}
    PROVE  Recovered(F, M) = ImageOf(r, M[r], F)
<1>1. ASSUME NEW f \in Files
      PROVE  (IF \E s \in Requests : f \in M[s]
              THEN LET q == CHOOSE s \in Requests : f \in M[s] IN PreimageOf(q)[f]
              ELSE F[f])
             = IF f \in M[r] THEN PreimageOf(r)[f] ELSE F[f]
  <2>1. CASE f \in M[r]
    <3>1. (CHOOSE s \in Requests : f \in M[s]) = r
      BY <2>1
    <3> QED
      BY <2>1, <3>1
  <2>2. CASE f \notin M[r]
    BY <2>2
  <2> QED
    BY <2>1, <2>2
<1> QED
  BY <1>1 DEF Recovered, ImageOf

\* What the steps that matter do to the image, given who may be interrupted
\* before and after.
LEMMA ImageStep ==
    ASSUME NEW r \in Requests,
           \A s \in Requests \ {r} : mutated[s] = {},
           mutated \in [Requests -> SUBSET Files],
           NEW M, mutated' = [mutated EXCEPT ![r] = M]
    PROVE  /\ RecoveredImage = ImageOf(r, mutated[r], files)
           /\ RecoveredImage' = ImageOf(r, M, files')
<1>1. RecoveredImage = Recovered(files, mutated) /\ RecoveredImage' = Recovered(files', mutated')
  BY DEF RecoveredImage, Recovered
<1>2. mutated'[r] = M /\ \A s \in Requests \ {r} : mutated'[s] = {}
  OBVIOUS
<1> QED
  BY <1>1, <1>2, ImageOfOne

\* The write of receipt.json is the commit, the operator's restore of a
\* committed transaction the undo, and every other step a stutter.
LEMMA StepSimulates ==
    ASSUME RecoverFirst, QuietInv, SingleInv, PreimagesInv, ProgressInv, OutcomeInv,
           [Next]_vars, edits' = 0
    PROVE  Atomic!Next \/ UNCHANGED RecoveredImage
<1>t. /\ mutated \in [Requests -> SUBSET Files]
      /\ files \in [Files -> Contents \cup {Missing}]
      /\ pc # "idle" => /\ req \in Requests /\ TargetSet(req) \subseteq Files
                        /\ \A s \in Requests \ {req} : mutated[s] = {}
  BY TargetsAreFiles DEF QuietInv, TypeOK, IndInv, CallInv, SingleInv
<1>1. CASE UNCHANGED <<files, mutated>>
  BY <1>1 DEF RecoveredImage
<1>2. ASSUME NEW r \in Requests, BeginTransaction(r) PROVE UNCHANGED RecoveredImage
  <2>1. /\ RequestErrors(r, files, now) = {} /\ mutated' = [mutated EXCEPT ![r] = {}]
        /\ UNCHANGED files /\ \A s \in Requests \ {r} : mutated[s] = {}
    BY <1>2 DEF BeginTransaction, OnlyInterrupted, durable
  <2>2. ASSUME NEW f \in mutated[r] PROVE files[f] = PreimageOf(r)[f]
    <3>1. f \in TargetSet(r) /\ f \in Files
      BY <1>t DEF SingleInv
    <3>2. files[f] \in Contents /\ ApprovedPreimage(r, f, files[f])
      BY <1>t, <2>1, <3>1, AcceptedRequest DEF Readable
    <3> QED
      BY <3>1, <3>2, ApprovedIsPreimage
  <2>3. RecoveredImage = ImageOf(r, mutated[r], files) /\ RecoveredImage' = ImageOf(r, {}, files')
    BY <1>t, <2>1, ImageStep
  <2> QED
    BY <2>1, <2>2, <2>3 DEF ImageOf
<1>3. ASSUME NEW r \in Requests, OperatorRestore(r)
      PROVE  Atomic!Next \/ UNCHANGED RecoveredImage
  <2>1. /\ mutated' = [mutated EXCEPT ![r] = TargetSet(r)]
        /\ UNCHANGED files /\ \A s \in Requests \ {r} : mutated[s] = {}
        /\ mutated[r] # {} \/ Undoable(r)
    BY <1>3 DEF OperatorRestore, OnlyInterrupted, durable
  <2>2. /\ RecoveredImage = ImageOf(r, mutated[r], files)
        /\ RecoveredImage' = ImageOf(r, TargetSet(r), files)
    BY <1>t, <2>1, ImageStep
  <2>3. CASE mutated[r] # {}
    <3>1. /\ mutated[r] \subseteq TargetSet(r)
          /\ \A f \in TargetSet(r) \ mutated[r] : files[f] = PreimageOf(r)[f]
      BY <2>3 DEF SingleInv, PreimagesInv
    <3> QED
      BY <2>2, <3>1 DEF ImageOf
  <2>4. CASE mutated[r] = {}
    <3>1. /\ r \in Applicable
          /\ \A f \in TargetSet(r) : Hash(FinalText(r, f)) = Hash(files[f])
      BY <2>1, <2>4 DEF Undoable, OutcomeInv
    <3>2. \A f \in TargetSet(r) : files[f] = PostimageOf(r)[f]
      BY <3>1 DEF Hash, PostimageOf
    <3>3. /\ DOMAIN PostimageOf(r) = TargetSet(r) /\ DOMAIN PreimageOf(r) = TargetSet(r)
          /\ TargetSet(r) \subseteq Files
      BY TargetsAreFiles DEF PostimageOf, PreimageOf
    <3>4. Atomic!Holds(PostimageOf(r)) /\ RecoveredImage' = Atomic!Overlay(PreimageOf(r))
      BY <2>2, <2>4, <3>2, <3>3 DEF ImageOf, Atomic!Holds, Atomic!Overlay
    <3>5. Atomic!Undo(r)
      BY <3>1, <3>4 DEF Atomic!Undo
    <3> QED
      BY <3>1, <3>5 DEF Atomic!Next
  <2> QED
    BY <2>3, <2>4
<1>4. CASE ReplaceTarget
  <2> DEFINE f == Targets(req)[next]
  <2>1. /\ pc = "replace" /\ files' = [files EXCEPT ![f] = buf]
        /\ mutated' = [mutated EXCEPT ![req] = mutated[req] \cup {f}]
    BY <1>4 DEF ReplaceTarget
  <2>2. f \in TargetSet(req)
    BY <2>1, TargetsAreFiles DEF QuietInv, IndInv, CallInv
  <2>3. f \in mutated[req] \/ files[f] = PreimageOf(req)[f]
    BY <1>t, <2>1, <2>2 DEF PreimagesInv, Prepared
  <2>4. /\ RecoveredImage = ImageOf(req, mutated[req], files)
        /\ RecoveredImage' = ImageOf(req, mutated[req] \cup {f}, files')
    BY <1>t, <2>1, ImageStep
  <2>5. \A g \in Files \ {f} : files'[g] = files[g]
    BY <1>t, <2>1
  <2> HIDE DEF f
  <2> QED
    BY <2>3, <2>4, <2>5 DEF ImageOf
<1>5. CASE WriteReceipt
  <2>1. /\ pc = "write_receipt" /\ UNCHANGED files
        /\ mutated' = [mutated EXCEPT ![req] = {}]
    BY <1>5 DEF WriteReceipt
  <2>2. /\ RecoveredImage = ImageOf(req, mutated[req], files)
        /\ RecoveredImage' = ImageOf(req, {}, files)
    BY <1>t, <2>1, ImageStep
  <2>3. req \in Applicable /\ \A f \in TargetSet(req) : files[f] = FinalText(req, f)
    BY <2>1, LoopDone
  <2>4. /\ mutated[req] \subseteq TargetSet(req)
        /\ \A f \in TargetSet(req) \ mutated[req] : files[f] = PreimageOf(req)[f]
    BY <1>t, <2>1 DEF SingleInv, PreimagesInv, Prepared
  <2>5. /\ DOMAIN PostimageOf(req) = TargetSet(req) /\ DOMAIN PreimageOf(req) = TargetSet(req)
        /\ \A f \in TargetSet(req) : PostimageOf(req)[f] = files[f]
    BY <2>3 DEF PostimageOf, PreimageOf
  <2>6. Atomic!Holds(PreimageOf(req)) /\ RecoveredImage' = Atomic!Overlay(PostimageOf(req))
    BY <1>t, <2>1, <2>2, <2>4, <2>5 DEF ImageOf, Atomic!Holds, Atomic!Overlay
  <2>7. Atomic!Commit(req)
    BY <2>3, <2>6 DEF Atomic!Commit
  <2> QED
    BY <2>3, <2>7 DEF Atomic!Next
<1>6. CASE RestoreTarget
  <2>1. PICK f \in left : files' = [files EXCEPT ![f] = snap[f]]
    BY <1>6 DEF RestoreTarget
  <2>2. pc = "restore" /\ UNCHANGED mutated
    BY <1>6 DEF RestoreTarget, ghosts
  <2>3. f \in TargetSet(req) /\ snap[f] = PreimageOf(req)[f]
    BY <2>1, <2>2, SnapIsPreimage DEF QuietInv, IndInv, CallInv, Prepared
  <2>4. f \in mutated[req] \/ files[f] = PreimageOf(req)[f]
    BY <1>t, <2>2, <2>3 DEF PreimagesInv, Prepared
  <2>5. mutated' = [mutated EXCEPT ![req] = mutated[req]]
    BY <1>t, <2>2
  <2>6. /\ RecoveredImage = ImageOf(req, mutated[req], files)
        /\ RecoveredImage' = ImageOf(req, mutated[req], files')
    BY <1>t, <2>2, <2>5, ImageStep
  <2>7. \A g \in Files : files'[g] = IF g = f THEN PreimageOf(req)[f] ELSE files[g]
    BY <1>t, <2>1, <2>3
  <2> QED
    BY <2>4, <2>6, <2>7 DEF ImageOf
<1>7. CASE FinishRestore
  <2>1. /\ pc = "restore" /\ left = {} /\ UNCHANGED files
        /\ mutated' = [mutated EXCEPT ![req] = {}]
    BY <1>7 DEF FinishRestore, durable
  <2>2. /\ mutated[req] \subseteq TargetSet(req)
        /\ \A f \in TargetSet(req) : files[f] = PreimageOf(req)[f]
    BY <1>t, <2>1 DEF SingleInv, PreimagesInv
  <2>3. /\ RecoveredImage = ImageOf(req, mutated[req], files)
        /\ RecoveredImage' = ImageOf(req, {}, files)
    BY <1>t, <2>1, ImageStep
  <2> QED
    BY <2>2, <2>3 DEF ImageOf
<1>8. ASSUME \/ Ignored \/ Ended \/ GaveUp \/ BuildRollback \/ WriteRollback
             \/ PatchTarget \/ ReadPostimages
      PROVE  UNCHANGED <<files, mutated>>
  BY <1>8 DEF Ignored, Ended, GaveUp, BuildRollback, WriteRollback, PatchTarget,
     ReadPostimages, durable, ghosts
<1> QED
  BY <1>1, <1>2, <1>3, <1>4, <1>5, <1>6, <1>7, <1>8, StepKinds

\* If interrupted transactions are restored first and nobody else edits the
\* workspace, every behaviour of apply_patch_transaction and
\* restore_rollback_artifact, with any number of crashes, failed operations,
\* refused requests and retries, is one of whole transactions: for all files,
\* diffs and requests, also those that list a target more than once.
THEOREM AllOrNothingHolds ==
    ASSUME MaxEdits = 0, RecoverFirst PROVE Spec => AllOrNothing
<1> DEFINE Inv == SingleInv /\ PreimagesInv /\ ProgressInv /\ OutcomeInv
<1>1. Init => Inv /\ Atomic!Init
  <2> SUFFICES ASSUME Init PROVE Inv /\ Atomic!Init
    OBVIOUS
  <2>1. \A r \in Requests : mutated[r] = {} /\ ~Intact(receipt[r.transaction_dir])
    BY DEF Init, Intact, Absent
  <2>2. Inv
    BY <2>1 DEF Init, SingleInv, PreimagesInv, ProgressInv, OutcomeInv, Prepared
  <2>3. RecoveredImage = InitialFiles
    BY <2>1, RequestsAssumption DEF Init, RecoveredImage
  <2> QED
    BY <2>2, <2>3 DEF Atomic!Init
<1>2. QuietInv /\ QuietInv' /\ Inv /\ [Next]_vars => Inv' /\ (Atomic!Next \/ UNCHANGED RecoveredImage)
  BY SingleStep, PreimagesStep, ProgressStep, OutcomeStep, StepSimulates DEF QuietInv
<1>3. Spec => Atomic!Init /\ [][Atomic!Next]_RecoveredImage
  <2> HIDE DEF Inv
  <2>1. QuietInv /\ QuietInv' /\ Inv /\ [Next]_vars => Inv' /\ [Atomic!Next]_RecoveredImage
    BY <1>2
  <2> QED
    BY <1>1, <2>1, QuietHolds, PTL DEF Spec
<1> QED
  BY <1>3 DEF AllOrNothing, Atomic!Spec
=============================================================================
