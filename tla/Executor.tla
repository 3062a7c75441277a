------------------------------ MODULE Executor ------------------------------
(***************************************************************************)
(* What execute_write_text_artifact (executor/__init__.py) decides from its *)
(* request alone, before it looks at the file system, and the receipt it    *)
(* makes from the request.  A request names a payload, an authority packet, *)
(* a transaction receipt, an artifact receipt, an output path and a text.   *)
(***************************************************************************)
EXTENDS Workspace, ArtifactStore

\* The request names the content by the hash in the artifact receipt.
ExpectedHash(request) == request.artifact.body.content_hash

\* _workspace_receipt_mismatch and the binding to the packet.
TransactionMatches(request) ==
    LET t == request.transaction.body IN
    /\ VerifyTransactionReceipt(request.transaction)
    /\ request.claimed.task_id = t.task_id
    /\ PayloadHash(request.claimed) = t.descriptor_hash
    /\ t.authority_receipt_hash = request.packet.payload_hash

\* _output_path_error: the roots are those in the receipt, and the packet's are
\* not looked at.
OutputPathAllowed(request) ==
    LET t == request.transaction.body IN
    /\ PathAllowed(request.output_path, DOMAIN t.allowed_roots, t.denied_paths)
    /\ NormalizePath(request.output_path) \in {NormalizePath(q) : q \in DOMAIN t.requested_paths}

\* Mutant: an artifact receipt of another transaction of the task is taken.
ArtifactMatchesAnyTransaction(request) ==
    LET artifact == request.artifact.body IN
    /\ VerifyArtifactReceipt(request.artifact)
    /\ request.claimed.task_id = artifact.task_id
    /\ PayloadHash(request.claimed) = artifact.descriptor_hash
    /\ request.output_path = artifact.artifact_name
    /\ artifact.artifact_type = "text"

\* _artifact_receipt_mismatch; the name is compared as it is spelled.
ArtifactMatches(request) ==
    LET t        == request.transaction
        artifact == request.artifact.body
    IN  /\ request.output_path = artifact.artifact_name
        /\ VerifyArtifactReceipt(request.artifact)
        /\ request.claimed.task_id = artifact.task_id
        /\ PayloadHash(request.claimed) = artifact.descriptor_hash
        /\ artifact.transaction_hash = t.transaction_hash
        /\ artifact.authority_receipt_hash = t.body.authority_receipt_hash
        /\ artifact.artifact_type = "text"

\* The checks before the file system is looked at; an empty text is no text.
\* request.claimed stands for the task_id and descriptor_hash of the request.
\* Which check comes first decides only the code of a rejection, which is left out.
RequestAccepted(request) ==
    /\ request.claimed.task_id = request.payload.task_id
    /\ request.content # <<>>
    /\ ExpectedHash(request) = Hash(request.content)
    /\ OutputPathAllowed(request)
    /\ ArtifactMatches(request)
    /\ TransactionMatches(request)
    /\ PayloadHash(request.claimed) = PayloadHash(request.payload)
    /\ AuthorityVerified(request.packet, request.payload)

\* _executor_receipt: made from the request alone.
ExecutorReceipt(request) ==
    LET body == [task_id |-> request.claimed.task_id,
                 descriptor_hash |-> PayloadHash(request.claimed),
                 authority_packet_id |-> request.packet.packet_id,
                 authority_receipt_hash |-> request.transaction.body.authority_receipt_hash,
                 transaction_hash |-> request.transaction.transaction_hash,
                 artifact_receipt_hash |-> request.artifact.receipt_hash,
                 output_path |-> request.output_path, content_hash |-> ExpectedHash(request)]
    IN  [body |-> body, receipt_hash |-> Hash(body)]
=============================================================================
