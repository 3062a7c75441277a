----------------------------- MODULE NoopChain -----------------------------
(***************************************************************************)
(* The no-op evidence chain of a descriptor payload: dry run, bridge       *)
(* receipt (descriptors/noop_bridge.py), ledger binding                    *)
(* (descriptors/noop_ledger.py), replay audit                              *)
(* (descriptors/noop_replay_audit.py) and the tamper matrix                *)
(* (descriptors/noop_tamper_matrix.py), with the admission of the same     *)
(* payload beside it.  Each stage reads the result of the one before it,   *)
(* which is kept outside the program and may come back altered.            *)
(*                                                                         *)
(* Of the parts that receipts copy without looking at them (task, state,   *)
(* transition, audit, validation, artifacts), task and artifacts are kept. *)
(***************************************************************************)
EXTENDS Authority

CONSTANTS
    Payloads,        \* the payloads that may be proposed
    MaxAlterations   \* bound on the alterations of what is kept

\* A field that is not there lacks and says nothing.
ASSUME NoopAssumption ==
    /\ MaxAlterations \in Nat
    /\ \A p \in Payloads :
          /\ DOMAIN p = {"fields", "untyped", "empty", "lacks", "says", "task_id", "roots",
                         "artifacts", "coverage"}
          /\ p = Restricted(p, p.fields)

VARIABLES
    stage,       \* the last stage that was reached
    codes,       \* why the chain was rejected, if it was
    payload,
    admission,   \* the receipt of evaluate_authorized_admission
    bridge,      \* noop_bridge_receipt, as it is kept
    ledger,      \* noop_ledger_receipt, as it is kept
    bound,       \* the bridge and ledger receipts that were bound to each other
    alterations

vars == <<stage, codes, payload, admission, bridge, ledger, bound, alterations>>

Nothing == [kind |-> "nothing"]

Init ==
    /\ payload \in Payloads
    /\ stage = "proposed" /\ codes = {}
    /\ admission = Nothing /\ bridge = Nothing /\ ledger = Nothing
    /\ bound = <<Nothing, Nothing>>
    /\ alterations = 0

\* Each stage renames the codes of the one before it that are in its map; the
\* general code a stage may put in front of them is left out.
Renamed(names, rejected) ==
    {IF code \in DOMAIN names THEN names[code] ELSE code : code \in rejected}

BRIDGE_CODE_MAP ==
    [DRY_RUN_EXECUTION_REQUESTED |-> "NOOP_BRIDGE_EXECUTION_REQUESTED",
     DRY_RUN_WORKSPACE_MUTATION_FORBIDDEN |-> "NOOP_BRIDGE_WORKSPACE_MUTATION_FORBIDDEN",
     DRY_RUN_TOOL_INVOCATION_FORBIDDEN |-> "NOOP_BRIDGE_TOOL_INVOCATION_FORBIDDEN",
     DRY_RUN_LLM_INVOCATION_FORBIDDEN |-> "NOOP_BRIDGE_LLM_INVOCATION_FORBIDDEN",
     DRY_RUN_GOVERNANCE_DECISION_MISSING |-> "NOOP_BRIDGE_GOVERNANCE_DECISION_MISSING",
     DRY_RUN_TRANSITION_AUDIT_BINDING_MISSING |->
         "NOOP_BRIDGE_TRANSITION_AUDIT_BINDING_MISSING",
     DRY_RUN_ARTIFACT_VALIDATION_BINDING_MISSING |->
         "NOOP_BRIDGE_ARTIFACT_VALIDATION_BINDING_MISSING",
     DRY_RUN_REPLAY_PROOF_FORBIDDEN |-> "NOOP_BRIDGE_REPLAY_PROOF_FORBIDDEN"]

\* Mutant: one entry of the map has the name it maps to.
LEDGER_CODE_MAP_TYPO ==
    [NOOP_BRIDGE_WORKSPACE_MUTATION_FORBIDDEN |-> "NOOP_LEDGER_WORKSPACE_MUTATION_FORBIDDEN",
     NOOP_BRIDGE_TOOL_INVOCATION_FORBIDDEN |-> "NOOP_LEDGER_TOOL_INVOCATION_FORBIDDEN",
     NOOP_LEDGER_LLM_INVOCATION_FORBIDDEN |-> "NOOP_LEDGER_LLM_INVOCATION_FORBIDDEN",
     NOOP_BRIDGE_REPLAY_PROOF_FORBIDDEN |-> "NOOP_LEDGER_REPLAY_PROOF_FORBIDDEN"]

LEDGER_CODE_MAP ==
    [NOOP_BRIDGE_WORKSPACE_MUTATION_FORBIDDEN |-> "NOOP_LEDGER_WORKSPACE_MUTATION_FORBIDDEN",
     NOOP_BRIDGE_TOOL_INVOCATION_FORBIDDEN |-> "NOOP_LEDGER_TOOL_INVOCATION_FORBIDDEN",
     NOOP_BRIDGE_LLM_INVOCATION_FORBIDDEN |-> "NOOP_LEDGER_LLM_INVOCATION_FORBIDDEN",
     NOOP_BRIDGE_GOVERNANCE_DECISION_MISSING |-> "NOOP_LEDGER_GOVERNANCE_BINDING_MISSING",
     NOOP_BRIDGE_REPLAY_PROOF_FORBIDDEN |-> "NOOP_LEDGER_REPLAY_PROOF_FORBIDDEN",
     NOOP_BRIDGE_TRANSITION_AUDIT_BINDING_MISSING |->
         "NOOP_LEDGER_TRANSITION_AUDIT_BINDING_MISSING",
     REPLAY_WITHOUT_RECEIPT_LEDGER_HASH |-> "NOOP_LEDGER_REPLAY_BINDING_MISSING"]

REPLAY_AUDIT_CODE_MAP ==
    [NOOP_LEDGER_WORKSPACE_MUTATION_FORBIDDEN |->
         "NOOP_REPLAY_AUDIT_WORKSPACE_MUTATION_FORBIDDEN",
     NOOP_LEDGER_TOOL_INVOCATION_FORBIDDEN |-> "NOOP_REPLAY_AUDIT_TOOL_INVOCATION_FORBIDDEN",
     NOOP_LEDGER_LLM_INVOCATION_FORBIDDEN |-> "NOOP_REPLAY_AUDIT_LLM_INVOCATION_FORBIDDEN",
     NOOP_LEDGER_REPLAY_PROOF_FORBIDDEN |-> "NOOP_REPLAY_AUDIT_REPLAY_PROOF_FORBIDDEN"]

-----------------------------------------------------------------------------
(* What the stages build and check                                         *)

\* _build_noop_bridge_receipt_from_plan.
BridgeReceipt(p) ==
    [task |-> DryRunPlan(p).task, artifacts |-> DryRunPlan(p).artifacts,
     governance |-> DryRunPlan(p).governance, replay |-> DryRunPlan(p).replay,
     mutated |-> FALSE, tool |-> FALSE, llm |-> FALSE,
     descriptor_hash |-> DryRunPlan(p).task.descriptor_hash]

\* _validate_receipt_boundaries.
BridgeBoundaryCodes(receipt) ==
    UNION {
      Code(receipt.governance.decision # "approved" \/ receipt.governance.decision_ref = <<>>,
           "NOOP_LEDGER_GOVERNANCE_BINDING_MISSING"),
      Code(receipt.replay.receipt_ref = <<>> \/ receipt.replay.ledger_ref = <<>>,
           "NOOP_LEDGER_REPLAY_BINDING_MISSING"),
      Code(/\ receipt.replay.receipt_ref # <<>> /\ receipt.replay.ledger_ref # <<>>
           /\ receipt.replay.proof_status = "proven", "NOOP_LEDGER_REPLAY_PROOF_FORBIDDEN"),
      Code(receipt.mutated, "NOOP_LEDGER_WORKSPACE_MUTATION_FORBIDDEN"),
      Code(receipt.tool, "NOOP_LEDGER_TOOL_INVOCATION_FORBIDDEN"),
      Code(receipt.llm, "NOOP_LEDGER_LLM_INVOCATION_FORBIDDEN") }

\* _build_noop_ledger_receipt.
LedgerReceipt(receipt) ==
    LET event  == [previous_event_hash |-> "GENESIS", descriptor_hash |-> receipt.descriptor_hash,
                   receipt_hash |-> Hash(receipt), governance_hash |-> Hash(receipt.governance),
                   replay_hash |-> Hash(receipt.replay)]
        hashes == [receipt_hash |-> Hash(receipt), governance_hash |-> Hash(receipt.governance),
                   replay_hash |-> Hash(receipt.replay), ledger_event_hash |-> Hash(event)]
    IN  [task |-> receipt.task, artifacts |-> receipt.artifacts,
         governance |-> receipt.governance,
         replay |-> [receipt.replay EXCEPT !.proof_status = "not_proven"],
         mutated |-> receipt.mutated, tool |-> receipt.tool, llm |-> receipt.llm,
         previous_event_hash |-> event.previous_event_hash, event |-> event,
         hashes |-> [receipt_hash |-> hashes.receipt_hash,
                     governance_hash |-> hashes.governance_hash,
                     replay_hash |-> hashes.replay_hash,
                     ledger_event_hash |-> hashes.ledger_event_hash,
                     ledger_chain_hash |-> Hash(<<event.previous_event_hash, hashes>>)],
         descriptor_hash |-> receipt.descriptor_hash]

\* Mutant: one of the forbidden effects is not looked at.
LedgerBoundaryCodesNoLlm(receipt) ==
    Code(receipt.mutated, "NOOP_REPLAY_AUDIT_WORKSPACE_MUTATION_FORBIDDEN") \cup
    Code(receipt.tool, "NOOP_REPLAY_AUDIT_TOOL_INVOCATION_FORBIDDEN")

\* _boundary_codes.
LedgerBoundaryCodes(receipt) ==
    UNION {
      Code(receipt.mutated, "NOOP_REPLAY_AUDIT_WORKSPACE_MUTATION_FORBIDDEN"),
      Code(receipt.tool, "NOOP_REPLAY_AUDIT_TOOL_INVOCATION_FORBIDDEN"),
      Code(receipt.llm, "NOOP_REPLAY_AUDIT_LLM_INVOCATION_FORBIDDEN"),
      Code(receipt.replay.proof_status = "proven", "NOOP_REPLAY_AUDIT_REPLAY_PROOF_FORBIDDEN") }

\* Mutant: hashes are compared, the parts that were hashed are not.
MismatchCodesOfHashes(actual, expected) ==
    UNION {
      Code(actual.hashes[h] # expected.hashes[h], "NOOP_REPLAY_AUDIT_RECEIPT_HASH_MISMATCH") :
      h \in {"receipt_hash", "governance_hash", "replay_hash", "ledger_event_hash",
             "ledger_chain_hash"}}

\* _mismatch_codes.
MismatchCodes(actual, expected) ==
    LET differ(h) == actual.hashes[h] # expected.hashes[h] IN
    UNION {
      Code(differ("receipt_hash"), "NOOP_REPLAY_AUDIT_RECEIPT_HASH_MISMATCH"),
      Code(differ("governance_hash") \/ actual.governance # expected.governance,
           "NOOP_REPLAY_AUDIT_GOVERNANCE_HASH_MISMATCH"),
      Code(differ("replay_hash") \/ actual.replay # expected.replay,
           "NOOP_REPLAY_AUDIT_REPLAY_HASH_MISMATCH"),
      Code(\/ differ("ledger_event_hash") \/ actual.event # expected.event
           \/ actual.previous_event_hash # expected.previous_event_hash,
           "NOOP_REPLAY_AUDIT_LEDGER_EVENT_HASH_MISMATCH"),
      Code(differ("ledger_chain_hash"), "NOOP_REPLAY_AUDIT_LEDGER_CHAIN_HASH_MISMATCH") }

\* build_noop_ledger_replay_audit of an accepted binding.
ReplayAuditCodes(bridge_receipt, ledger_receipt) ==
    IF BridgeBoundaryCodes(bridge_receipt) # {}
    THEN {"NOOP_REPLAY_AUDIT_INVALID_NOOP_LEDGER_RESULT"}
    ELSE IF LedgerBoundaryCodes(ledger_receipt) # {} THEN LedgerBoundaryCodes(ledger_receipt)
    ELSE MismatchCodes(ledger_receipt, LedgerReceipt(bridge_receipt))

\* default_tamper_cases: the altered ledger receipt and the code it must get.
TamperCases(r) ==
    LET rehashed(h) == [r EXCEPT !.hashes[h] = <<"tampered">>] IN
    { <<rehashed("receipt_hash"), "NOOP_REPLAY_AUDIT_RECEIPT_HASH_MISMATCH">>,
      <<rehashed("governance_hash"), "NOOP_REPLAY_AUDIT_GOVERNANCE_HASH_MISMATCH">>,
      <<[r EXCEPT !.governance.decision_ref = <<"tampered">>],
        "NOOP_REPLAY_AUDIT_GOVERNANCE_HASH_MISMATCH">>,
      <<rehashed("replay_hash"), "NOOP_REPLAY_AUDIT_REPLAY_HASH_MISMATCH">>,
      <<[r EXCEPT !.replay.receipt_ref = <<"tampered">>],
        "NOOP_REPLAY_AUDIT_REPLAY_HASH_MISMATCH">>,
      <<[r EXCEPT !.replay.ledger_ref = <<"tampered">>],
        "NOOP_REPLAY_AUDIT_REPLAY_HASH_MISMATCH">>,
      <<rehashed("ledger_event_hash"), "NOOP_REPLAY_AUDIT_LEDGER_EVENT_HASH_MISMATCH">>,
      <<rehashed("ledger_chain_hash"), "NOOP_REPLAY_AUDIT_LEDGER_CHAIN_HASH_MISMATCH">>,
      <<[r EXCEPT !.previous_event_hash = "tampered"],
        "NOOP_REPLAY_AUDIT_LEDGER_EVENT_HASH_MISMATCH">>,
      <<[r EXCEPT !.mutated = TRUE], "NOOP_REPLAY_AUDIT_WORKSPACE_MUTATION_FORBIDDEN">>,
      <<[r EXCEPT !.tool = TRUE], "NOOP_REPLAY_AUDIT_TOOL_INVOCATION_FORBIDDEN">>,
      <<[r EXCEPT !.llm = TRUE], "NOOP_REPLAY_AUDIT_LLM_INVOCATION_FORBIDDEN">>,
      <<[r EXCEPT !.replay.proof_status = "proven"],
        "NOOP_REPLAY_AUDIT_REPLAY_PROOF_FORBIDDEN">> }

\* _run_case, for every case: accepted, or rejected with another code, fails.
TamperMatrixCodes(bridge_receipt, ledger_receipt) ==
    UNION { LET result == ReplayAuditCodes(bridge_receipt, case[1]) IN
            Code(result = {}, "NOOP_TAMPER_MATRIX_EXPECTED_REJECTION_MISSING") \cup
            Code(result # {} /\ case[2] \notin result, "NOOP_TAMPER_MATRIX_WRONG_EXPECTED_CODE") :
            case \in TamperCases(ledger_receipt) }

-----------------------------------------------------------------------------
(* The chain                                                               *)

\* evaluate_authorized_admission with the packet built for this payload;
\* building the packet raises if the payload is not a valid descriptor.
Admit ==
    /\ admission = Nothing /\ PayloadErrors(payload) = {}
    /\ admission' = AuthorizedAdmission(
                        BuildAuthorityPacket(payload, PacketDefaults(payload)), payload)
    /\ UNCHANGED <<stage, codes, payload, bridge, ledger, bound, alterations>>

\* Mutant: a rejected dry run is passed on without its codes.
BuildBridgeWithoutCodes ==
    /\ stage = "proposed"
    /\ stage' = "bridge"
    /\ bridge' = IF DryRunErrors(payload) = {} THEN BridgeReceipt(payload) ELSE Nothing
    /\ UNCHANGED <<codes, payload, admission, ledger, bound, alterations>>

\* build_descriptor_spine_noop_bridge.
BuildBridge ==
    /\ stage = "proposed"
    /\ stage' = "bridge"
    /\ codes' = Renamed(BRIDGE_CODE_MAP, DryRunErrors(payload))
    /\ bridge' = IF DryRunErrors(payload) = {} THEN BridgeReceipt(payload) ELSE Nothing
    /\ UNCHANGED <<payload, admission, ledger, bound, alterations>>

\* build_noop_ledger_binding.
BindLedger ==
    /\ stage = "bridge"
    /\ stage' = "ledger"
    /\ codes' = IF codes # {} THEN Renamed(LEDGER_CODE_MAP, codes)
                ELSE BridgeBoundaryCodes(bridge)
    /\ ledger' = IF codes' = {} THEN LedgerReceipt(bridge) ELSE Nothing
    /\ bound' = <<bridge, ledger'>>
    /\ UNCHANGED <<payload, admission, bridge, alterations>>

\* build_noop_ledger_replay_audit.
Audit ==
    /\ stage = "ledger"
    /\ stage' = "audit"
    /\ codes' = IF codes # {} THEN Renamed(REPLAY_AUDIT_CODE_MAP, codes)
                ELSE ReplayAuditCodes(bridge, ledger)
    /\ UNCHANGED <<payload, admission, bridge, ledger, bound, alterations>>

\* build_noop_ledger_tamper_matrix_from_replay_audit; a rejected audit stays so.
RunMatrix ==
    /\ stage = "audit"
    /\ stage' = "matrix"
    /\ codes' = IF codes # {} THEN codes ELSE TamperMatrixCodes(bridge, ledger)
    /\ UNCHANGED <<payload, admission, bridge, ledger, bound, alterations>>

\* A part of a kept bridge receipt is replaced.
AlteredBridges(r) ==
    {[r EXCEPT !.task.task_id = "another"], [r EXCEPT !.artifacts = <<>>],
     [r EXCEPT !.governance.decision_ref = <<>>], [r EXCEPT !.governance.decision = "denied"],
     [r EXCEPT !.replay.ledger_ref = <<>>], [r EXCEPT !.replay.proof_status = "proven"],
     [r EXCEPT !.mutated = TRUE], [r EXCEPT !.descriptor_hash = <<"another">>]}

AlterBridge ==
    /\ stage \in {"bridge", "ledger"} /\ codes = {}
    /\ alterations < MaxAlterations /\ alterations' = alterations + 1
    /\ bridge' \in AlteredBridges(bridge)
    /\ UNCHANGED <<stage, codes, payload, admission, ledger, bound>>

\* A part of a kept ledger receipt is replaced.
AlterLedger ==
    /\ stage = "ledger" /\ codes = {}
    /\ alterations < MaxAlterations /\ alterations' = alterations + 1
    /\ ledger' \in {case[1] : case \in TamperCases(ledger)} \cup
                   {[ledger EXCEPT !.task.task_id = "another"], [ledger EXCEPT !.artifacts = <<>>],
                    [ledger EXCEPT !.descriptor_hash = <<"another">>],
                    [ledger EXCEPT !.event.receipt_hash = <<"tampered">>]}
    /\ UNCHANGED <<stage, codes, payload, admission, bridge, bound>>

Next == Admit \/ BuildBridge \/ BindLedger \/ Audit \/ RunMatrix \/ AlterBridge \/ AlterLedger

Spec == Init /\ [][Next]_vars

-----------------------------------------------------------------------------
(* Properties                                                              *)

\* A stage that ends without codes leaves the receipt the next stage reads.
TypeOK ==
    /\ stage \in {"proposed", "bridge", "ledger", "audit", "matrix"}
    /\ stage = "proposed" => codes = {} /\ bridge = Nothing
    /\ stage # "proposed" /\ codes = {} => bridge # Nothing
    /\ stage \notin {"proposed", "bridge"} /\ codes = {} => ledger # Nothing
    /\ alterations \in 0..MaxAlterations

\* The dry run and the admission controller check a payload in different orders
\* and with different code (build_descriptor_spine_dry_run, evaluate_admission):
\* a payload that gets a bridge receipt is admitted with the packet built for
\* it, unless it claims full Kernel 20 coverage, and both bind the same
\* descriptor hash.
DryRunAgreesWithAdmission ==
    bound[1] # Nothing /\ alterations = 0 =>
        /\ PayloadErrors(payload) = {}
        /\ admission # Nothing =>
              /\ admission.body.descriptor_hash = bound[1].descriptor_hash
              /\ admission.body.accepted \/ ClaimsFullKernel20(payload)

\* What the audit rederives (_expected_noop_ledger_receipt, _mismatch_codes) is
\* what was bound: whichever parts of the two kept receipts were altered in
\* between, an audit that accepts has read the bridge receipt, the hashes, the
\* governance and replay bindings, the ledger event and the declared effects
\* that build_noop_ledger_binding returned.
AuditSeesWhatWasBound ==
    stage \in {"audit", "matrix"} /\ codes = {} =>
        /\ bridge = bound[1]
        /\ ledger.hashes = bound[2].hashes
        /\ ledger.governance = bound[2].governance
        /\ ledger.replay = bound[2].replay
        /\ <<ledger.event, ledger.previous_event_hash>> =
               <<bound[2].event, bound[2].previous_event_hash>>
        /\ ~ledger.mutated /\ ~ledger.tool /\ ~ledger.llm

\* The tamper matrix passes whenever the audit passed: each of the thirteen
\* alterations is rejected, with its own code, on every receipt the audit takes
\* (build_noop_ledger_tamper_matrix_from_replay_audit).
AuditedLedgersPassMatrix == [][stage' = "matrix" /\ codes = {} => codes' = {}]_vars

\* What the audit must call the forbidden effects that a payload asks for.
ForbiddenEffects(p) ==
    UNION {
      Code(Says(p, "workspace_mutation", "mutates"),
           "NOOP_REPLAY_AUDIT_WORKSPACE_MUTATION_FORBIDDEN"),
      Code(IsMapping(p, "tool_invocation"), "NOOP_REPLAY_AUDIT_TOOL_INVOCATION_FORBIDDEN"),
      Code(IsMapping(p, "llm_invocation"), "NOOP_REPLAY_AUDIT_LLM_INVOCATION_FORBIDDEN"),
      Code(Says(p, "replay_binding", "proven"), "NOOP_REPLAY_AUDIT_REPLAY_PROOF_FORBIDDEN") }

\* A payload that asks for a forbidden effect is rejected by the audit with the
\* audit's own code, through the code maps of three stages.
ForbiddenEffectsNamed == stage = "audit" => ForbiddenEffects(payload) \subseteq codes

\* An accepted audit has audit_status "rederived_and_verified": the ledger
\* receipt it read is the one that follows from the bridge receipt.
RederivedAndVerified ==
    stage = "audit" /\ codes = {} => ledger = LedgerReceipt(bridge)
=============================================================================
