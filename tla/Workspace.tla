----------------------------- MODULE Workspace -----------------------------
(***************************************************************************)
(* Workspace transactions (workspace/__init__.py): what the executor may   *)
(* write, prepared for one packet.  A function of its arguments; it writes  *)
(* nothing.                                                                *)
(***************************************************************************)
EXTENDS Authority

\* The checks of begin_workspace_transaction; _packet_roots sorts the roots.
TransactionPrepared(request, p, packet) ==
    LET roots == Sorted(packet.body.allowed_roots) IN
    /\ AuthorityVerified(packet, p)
    /\ request.descriptor_hash = PayloadHash(p)
    /\ request.task_id = p.task_id
    /\ Sorted(request.allowed_roots) = roots
    /\ request.symlink_policy = "reject"
    /\ request.requested_paths # <<>>
    /\ \A i \in DOMAIN request.requested_paths :
           PathAllowed(request.requested_paths[i], DOMAIN roots, request.denied_paths)

\* begin_workspace_transaction: a rejected request gets a receipt as well, with
\* the roots of the packet and whatever paths were asked for.
BeginWorkspaceTransaction(request, p, packet) ==
    LET body == [task_id |-> p.task_id, descriptor_hash |-> PayloadHash(p),
                 authority_receipt_hash |-> packet.payload_hash,
                 requested_paths |-> Sorted(request.requested_paths),
                 allowed_roots |-> Sorted(packet.body.allowed_roots),
                 denied_paths |-> request.denied_paths,
                 accepted |-> TransactionPrepared(request, p, packet)]
    IN  [body |-> body, transaction_hash |-> Hash(body)]

VerifyTransactionReceipt(receipt) == receipt.transaction_hash = Hash(receipt.body)
=============================================================================
