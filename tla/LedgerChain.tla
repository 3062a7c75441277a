---------------------------- MODULE LedgerChain ----------------------------
(***************************************************************************)
(* The ledger of events (ledger/__init__.py): append_event and             *)
(* validate_ledger_chain, functions of a list that its holder keeps.  An   *)
(* event has a mapping "receipts" from the receipt hashes it names to      *)
(* their values, and in "others" whatever fields an event does not have.   *)
(***************************************************************************)
EXTENDS Documents

GENESIS_PREVIOUS_EVENT_HASH == <<"GENESIS">>

\* None: an absent field.
None == <<>>

\* _is_hash: "sha256:" and the digest; the hash of a descriptor has no prefix.
IsHash(value) == value # None /\ value[1] = "sha256"

\* The receipt hashes an event may name, and how many of them, from the first,
\* an event of each type must name.
RECEIPT_HASHES ==
    <<"authority_receipt_hash", "workspace_transaction_receipt_hash", "artifact_receipt_hash",
      "executor_receipt_hash", "validation_receipt_hash">>

EVENT_REQUIRED_RECEIPT_HASHES ==
    [task_admitted |-> 1, authority_bound |-> 1, workspace_transaction_prepared |-> 2,
     artifact_registered |-> 3, executor_started |-> 4, executor_completed |-> 4,
     validation_completed |-> 5]

ALLOWED_EVENT_TYPES == DOMAIN EVENT_REQUIRED_RECEIPT_HASHES

\* event.get of a receipt hash.
Named(event, field) == IF field \in DOMAIN event.receipts THEN event.receipts[field] ELSE None

\* _event_structure_error.
StructureError(event) ==
    FirstCode(<<
      <<event.others # {}, "LEDGER_FORBIDDEN_FIELD">>,
      <<event.event_id = "" \/ event.event_type = "", "LEDGER_EVENT_MALFORMED">>,
      <<event.previous_event_hash = None, "LEDGER_PREVIOUS_EVENT_HASH_REQUIRED">>,
      <<event.task_id = "" \/ event.descriptor_hash = None, "LEDGER_EVENT_MALFORMED">>,
      <<event.event_type \notin ALLOWED_EVENT_TYPES, "LEDGER_EVENT_TYPE_NOT_ALLOWED">>,
      <<~IsHash(event.descriptor_hash), "LEDGER_EVENT_MALFORMED">>,
      <<event.event_type \in ALLOWED_EVENT_TYPES /\
        \E i \in 1..EVENT_REQUIRED_RECEIPT_HASHES[event.event_type] :
            ~IsHash(Named(event, RECEIPT_HASHES[i])),
        "LEDGER_REQUIRED_RECEIPT_HASH_MISSING">> >>)

\* Mutant: the hash covers what links the event, and not what it says.
EventHashOfLink(event) == Hash(<<event.event_id, event.previous_event_hash>>)

\* canonical_event_hash: the event without its event_hash.
EventHash(event) == Hash([event EXCEPT !.event_hash = None])

LedgerChainHash(ledger) == Hash([i \in DOMAIN ledger |-> ledger[i].event_hash])

\* The hash that the event at position i must follow.
HashBefore(ledger, i) ==
    IF i = 1 THEN GENESIS_PREVIOUS_EVENT_HASH ELSE ledger[i - 1].event_hash

TerminalHash(ledger) == HashBefore(ledger, Len(ledger) + 1)

\* Mutant: only the first event is held against its predecessor.
ChainCodesFromGenesis(ledger) ==
    UNION {UNION {
      Code(\E j \in 1..(i - 1) : ledger[j].event_id = ledger[i].event_id,
           "LEDGER_DUPLICATE_EVENT_ID"),
      StructureError(ledger[i]),
      Code(i = 1 /\ ledger[i].previous_event_hash # HashBefore(ledger, i),
           "LEDGER_CHAIN_DISCONTINUITY"),
      Code(ledger[i].event_hash # EventHash(ledger[i]), "LEDGER_EVENT_HASH_MISMATCH") }
      : i \in DOMAIN ledger}

\* The loop of validate_ledger_chain.
ChainCodes(ledger) ==
    UNION {UNION {
      Code(\E j \in 1..(i - 1) : ledger[j].event_id = ledger[i].event_id,
           "LEDGER_DUPLICATE_EVENT_ID"),
      StructureError(ledger[i]),
      Code(ledger[i].previous_event_hash # HashBefore(ledger, i), "LEDGER_CHAIN_DISCONTINUITY"),
      Code(ledger[i].event_hash # EventHash(ledger[i]), "LEDGER_EVENT_HASH_MISMATCH") }
      : i \in DOMAIN ledger}

\* What a caller may expect of a ledger: any of the three, or none of them.
\* The chain hash of a ledger that is not sound is None, and so never expected.
Unexpected(ledger, expected) ==
    Code("count" \in DOMAIN expected /\ expected.count # Len(ledger),
         "LEDGER_EXPECTED_EVENT_COUNT_MISMATCH") \cup
    Code("chain_hash" \in DOMAIN expected
         /\ (ChainCodes(ledger) # {} \/ expected.chain_hash # LedgerChainHash(ledger)),
         "LEDGER_EXPECTED_LEDGER_CHAIN_HASH_MISMATCH") \cup
    Code("terminal" \in DOMAIN expected /\ expected.terminal # TerminalHash(ledger),
         "LEDGER_EXPECTED_TERMINAL_EVENT_HASH_MISMATCH")

ValidateLedgerChain(ledger, expected) == ChainCodes(ledger) \cup Unexpected(ledger, expected)

NoExpectation == [none |-> TRUE]

\* Mutant: a retried event is not recognised.
AppendAcceptedAgain(ledger, event) ==
    /\ ValidateLedgerChain(ledger, NoExpectation) = {}
    /\ StructureError(event) = {}
    /\ event.previous_event_hash = TerminalHash(ledger)

\* append_event: the ledger validates, the event is well-formed, its id is not
\* taken, and it follows the last event.
AppendAccepted(ledger, event) ==
    /\ ValidateLedgerChain(ledger, NoExpectation) = {}
    /\ StructureError(event) = {}
    /\ \A i \in DOMAIN ledger : ledger[i].event_id # event.event_id
    /\ event.previous_event_hash = TerminalHash(ledger)

\* Mutant: the caller's list is extended too, before it is copied.
AppendedTwice(ledger, event) ==
    LET made == [event EXCEPT !.event_hash = EventHash(event)]
    IN  Append(Append(ledger, made), made)

\* The event gets its hash, whatever hash it came with.
Appended(ledger, event) == Append(ledger, [event EXCEPT !.event_hash = EventHash(event)])

\* _append_receipt for the last event of a ledger.
AppendReceipt(ledger) ==
    LET body == [event |-> ledger[Len(ledger)], event_index |-> Len(ledger) - 1,
                 ledger_chain_hash |-> LedgerChainHash(ledger)]
    IN  [body |-> body, receipt_hash |-> Hash(body)]

VerifyLedgerAppendReceipt(receipt) == receipt.receipt_hash = Hash(receipt.body)
=============================================================================
