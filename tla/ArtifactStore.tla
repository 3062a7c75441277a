--------------------------- MODULE ArtifactStore ---------------------------
(***************************************************************************)
(* The artifact store (artifact_store/__init__.py): it compares a request  *)
(* with a policy and gives a receipt for the content; it persists nothing, *)
(* and it looks at no transaction receipt, only at its hash.               *)
(***************************************************************************)
EXTENDS Documents, Paths

\* store_artifact; a content is the sequence of its bytes, and the manifest
\* repeats name and types.
ArtifactStored(request, policy) ==
    /\ request.task_id = policy.task_id
    /\ request.descriptor_hash = policy.descriptor_hash
    /\ request.authority_receipt_hash = policy.authority_receipt_hash
    /\ request.transaction_hash = policy.transaction_hash
    /\ ~IsAbsolute(request.artifact_name) /\ ~HasTraversal(request.artifact_name)
    /\ request.manifest = [artifact_name |-> request.artifact_name,
                           artifact_type |-> request.artifact_type]
    /\ request.artifact_type \in policy.allowed_artifact_types
    /\ Len(request.content) <= policy.max_size_bytes
    /\ request.expected_content_hash = Hash(request.content)

\* _accepted_receipt.
ArtifactReceipt(request, policy) ==
    LET body == [task_id |-> request.task_id, descriptor_hash |-> request.descriptor_hash,
                 authority_receipt_hash |-> request.authority_receipt_hash,
                 transaction_hash |-> request.transaction_hash,
                 artifact_name |-> request.artifact_name,
                 artifact_type |-> request.artifact_type,
                 size_bytes |-> Len(request.content), content_hash |-> Hash(request.content),
                 policy_hash |-> Hash(policy)]
    IN  [body |-> body, receipt_hash |-> Hash(body)]

VerifyArtifactReceipt(receipt) == receipt.receipt_hash = Hash(receipt.body)
=============================================================================
