--------------------------- MODULE WriteEvidence ----------------------------
(***************************************************************************)
(* The executor and the ledger together: the event that records a write,    *)
(* made from the executor receipt as the executor returns it.               *)
(***************************************************************************)
EXTENDS MCBoundedWrite, LedgerChain

\* An "executor_completed" event that opens a ledger.
CompletedEvent(receipt) ==
    [event_id |-> "e1", previous_event_hash |-> GENESIS_PREVIOUS_EVENT_HASH,
     event_type |-> "executor_completed", task_id |-> receipt.body.task_id,
     descriptor_hash |-> receipt.body.descriptor_hash,
     receipts |-> [authority_receipt_hash |-> receipt.body.authority_receipt_hash,
                   workspace_transaction_receipt_hash |-> receipt.body.transaction_hash,
                   artifact_receipt_hash |-> receipt.body.artifact_receipt_hash,
                   executor_receipt_hash |-> receipt.receipt_hash],
     others |-> {}, event_hash |-> None]

\* "R119 reconstructs and validates the bounded R114-R118 evidence chain from a
\* ledger": a write that was performed can be recorded in the ledger that replay
\* and seal are given.
PerformedWriteCanBeRecorded ==
    \A r \in receipts : AppendAccepted(<<>>, CompletedEvent(r))
=============================================================================
