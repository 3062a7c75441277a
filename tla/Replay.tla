------------------------------- MODULE Replay -------------------------------
(***************************************************************************)
(* replay_ledger_chain (replay/__init__.py): a ledger and a graph of        *)
(* receipts, given by the caller, are held against an expected state, given *)
(* by the caller.  Nothing is stored, and no receipt is hashed again.       *)
(*                                                                          *)
(* A receipt graph maps kinds of receipts to nodes; an expected state and a *)
(* node map the names of the fields they have to values.  Callers make the  *)
(* nodes: the replay asks for fields that the receipts do not have (the     *)
(* "receipt_hash" of an authority packet) or have in another form (the      *)
(* descriptor hash), and no component makes a validation receipt.           *)
(***************************************************************************)
EXTENDS LedgerChain

\* The hash field of each kind of node, the expected field it must equal, and
\* the fields that must agree if the node has them.
NODE_HASHES ==
    [authority |-> <<"receipt_hash", "authority_receipt_hash">>,
     workspace_transaction |-> <<"transaction_hash", "workspace_transaction_receipt_hash">>,
     artifact |-> <<"receipt_hash", "artifact_receipt_hash">>,
     executor |-> <<"receipt_hash", "executor_receipt_hash">>]

\* Mutant: the receipts of an executor are compared by their task.
NODE_BINDINGS_TASK ==
    [authority |-> {"task_id", "descriptor_hash"},
     workspace_transaction |-> {"authority_receipt_hash", "task_id", "descriptor_hash"},
     artifact |-> {"authority_receipt_hash", "task_id", "descriptor_hash"},
     executor |-> {"authority_receipt_hash", "task_id", "descriptor_hash"},
     validation |-> {"executor_receipt_hash"}]

NODE_BINDINGS ==
    [authority |-> {"task_id", "descriptor_hash"},
     workspace_transaction |-> {"authority_receipt_hash", "task_id", "descriptor_hash"},
     artifact |-> {"authority_receipt_hash", "workspace_transaction_receipt_hash",
                   "task_id", "descriptor_hash"},
     executor |-> {"authority_receipt_hash", "workspace_transaction_receipt_hash",
                   "artifact_receipt_hash", "task_id", "descriptor_hash"},
     validation |-> {"executor_receipt_hash"}]

HASH_FIELDS ==
    {"chain_hash", "terminal", "descriptor_hash", "artifact_content_hash", "executor_output_hash"}
    \cup {RECEIPT_HASHES[i] : i \in DOMAIN RECEIPT_HASHES}

\* _expected_state.
ExpectedStateWellFormed(expected) ==
    /\ \A f \in HASH_FIELDS \cap DOMAIN expected : IsHash(expected[f])
    /\ "task_id" \in DOMAIN expected => expected.task_id # ""

\* node.get(f) = expected.get(g)
SameValue(node, f, expected, g) ==
    /\ f \in DOMAIN node <=> g \in DOMAIN expected
    /\ f \in DOMAIN node => node[f] = expected[g]

\* node.get(f) in (None, expected.get(g))
NoOtherValue(node, f, expected, g) == f \in DOMAIN node => SameValue(node, f, expected, g)

\* A receipt that is not in the graph: graph.get(kind, {}) has none of the fields
\* that are looked for.
NoReceipt == [none |-> TRUE]

EventFields == {"task_id", "descriptor_hash"} \cup {RECEIPT_HASHES[i] : i \in DOMAIN RECEIPT_HASHES}

\* What an event says in a field that it has.
Holds(event, f) == f \in {"task_id", "descriptor_hash"} \cup DOMAIN event.receipts
Value(event, f) ==
    CASE f = "task_id"         -> event.task_id
      [] f = "descriptor_hash" -> event.descriptor_hash
      [] OTHER                 -> event.receipts[f]

\* _event_binding_errors.
EventsBound(ledger, expected) ==
    \A i \in DOMAIN ledger : \A f \in EventFields \cap DOMAIN expected :
        Holds(ledger[i], f) => Value(ledger[i], f) = expected[f]

\* _graph_hash_errors.  A validation node may be missing, or have no hash.
GraphBound(graph, expected) ==
    /\ \A kind \in DOMAIN NODE_HASHES :
           SameValue(graph[kind], NODE_HASHES[kind][1], expected, NODE_HASHES[kind][2])
    /\ NoOtherValue(graph.validation, "receipt_hash", expected, "validation_receipt_hash")
    /\ \A kind \in DOMAIN NODE_BINDINGS : \A f \in NODE_BINDINGS[kind] :
           NoOtherValue(graph[kind], f, expected, f)
    /\ SameValue(graph.artifact, "content_hash", expected, "artifact_content_hash")
    /\ SameValue(graph.executor, "content_hash", expected, "executor_output_hash")

\* replay_ledger_chain.  Which check comes first decides only the code of a
\* refusal, which is left out.
ReplayAccepted(ledger, expected, graph) ==
    /\ ExpectedStateWellFormed(expected)
    /\ GraphBound(graph, expected)
    /\ EventsBound(ledger, expected)
    /\ expected.required_event_types \subseteq {ledger[i].event_type : i \in DOMAIN ledger}
    /\ ValidateLedgerChain(ledger, expected) = {}

\* _graph_summary: what the receipt takes from the expected state.
GraphSummary(expected) ==
    [f \in (EventFields \cup {"artifact_content_hash", "executor_output_hash"})
           \cap DOMAIN expected |-> expected[f]]

\* _accepted_receipt.
ReplayReceipt(ledger, expected) ==
    LET body == [summary |-> GraphSummary(expected), ledger_event_count |-> Len(ledger),
                 ledger_chain_hash |-> LedgerChainHash(ledger),
                 terminal_event_hash |-> TerminalHash(ledger)]
    IN  [body |-> body, receipt_hash |-> Hash(body)]
=============================================================================
