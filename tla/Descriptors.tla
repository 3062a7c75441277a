---------------------------- MODULE Descriptors ----------------------------
(***************************************************************************)
(* The gates a descriptor payload passes before anything is planned:       *)
(* validate_descriptor with its schema (descriptors/validator.py,          *)
(* descriptors/schema.py), the spine contract with its Kernel 20 coverage   *)
(* (descriptors/spine_contract.py, kernel20/coverage.py) and the dry run    *)
(* (descriptors/spine_adapter.py).                                         *)
(*                                                                         *)
(* A payload is abstracted to what these gates look at:                    *)
(*   fields    the top-level names that are present                        *)
(*   untyped   those whose value is not of the JSON type they should have  *)
(*   empty     those whose value is empty, or lacks a required inner value *)
(*   lacks     pairs <<field, part>>: a part the value should have and has *)
(*             not                                                         *)
(*   says      pairs <<field, statement>>: something the value asserts     *)
(*   task_id, roots, artifacts, coverage   task_ref.task_id,               *)
(*             workspace_boundary.allowed_roots, artifact_expectation and  *)
(*             kernel_binding.coverage                                     *)
(***************************************************************************)
EXTENDS Documents, Paths

Texts      == {"preconditions", "postconditions", "compatibility_refs", "notes"}
DERIVED_FIELDS  == {"descriptor_id", "canonical_hash", "descriptor_hash"}
FORBIDDEN_FIELDS ==
    {"created_at", "unknown_fields", "network_endpoint", "shell_command", "tool_call",
     "secret_material", "executable_blob", "mutable_handle"}
REQUIRED_STRING_FIELDS ==
    {"descriptor_version", "action_type", "determinism_level", "logical_clock"}
NESTED_FIELDS ==
    {"task_ref", "state_ref", "transition_intent", "audit_binding", "replay_binding",
     "identity_binding"}
REQUIRED_FIELDS ==
    REQUIRED_STRING_FIELDS \cup NESTED_FIELDS \cup
    {"authority_binding", "capability_boundary", "workspace_boundary",
     "artifact_expectation", "validation_requirements", "governance_requirements",
     "non_claims"}
ALLOWED_FIELDS ==
    REQUIRED_FIELDS \cup Texts \cup DERIVED_FIELDS \cup FORBIDDEN_FIELDS
    \cup {"executor_eligibility"}
MINIMAL_SPINE_FIELDS ==
    (NESTED_FIELDS \cup {"authority_binding", "executor_eligibility", "workspace_boundary",
     "artifact_expectation", "validation_requirements", "governance_requirements"})

\* The twenty primitives, with those that the minimal binding also names as
\* one class; "Replay" is in the minimal binding and is no primitive.
KERNEL20_PRIMITIVE_SET    == {"shared", "others"}
MINIMAL_KERNEL_BINDING_12 == {"shared", "Replay"}

IsMapping(p, f) == f \in p.fields \ p.untyped
NonEmpty(p, f)  == IsMapping(p, f) /\ f \notin p.empty
Has(p, f, part) == IsMapping(p, f) /\ <<f, part>> \notin p.lacks
Says(p, f, statement) == IsMapping(p, f) /\ <<f, statement>> \in p.says

\* The payload restricted to some of its fields.
Restricted(p, names) ==
    [p EXCEPT !.fields = @ \cap names, !.untyped = @ \cap names, !.empty = @ \cap names,
              !.lacks = {l \in @ : l[1] \in names}, !.says = {s \in @ : s[1] \in names},
              !.coverage = IF "kernel_binding" \in names THEN @ ELSE {}]

-----------------------------------------------------------------------------
(* schema.py and validator.py                                              *)

\* _artifact_path_within_workspace_boundary; relative_to drops every ".".
ArtifactPathWithinBoundary(path, roots) ==
    LET parts(q) == SelectSeq(q, LAMBDA c : c # ".")
    IN  /\ Len(roots) = 1
        /\ ~IsAbsolute(path) /\ ~HasTraversal(path)
        /\ ~IsAbsolute(roots[1]) /\ ~HasTraversal(roots[1])
        /\ Len(parts(roots[1])) <= Len(parts(path))
        /\ SubSeq(parts(path), 1, Len(parts(roots[1]))) = parts(roots[1])

\* _validate_nested_fields and _validate_artifact_expectation.
NestedErrors(p) ==
    Code(NESTED_FIELDS \cap p.untyped # {}, "B1_DESCRIPTOR_INVALID_FIELD_TYPE") \cup
    Code(NESTED_FIELDS \cap p.empty # {}, "B1_DESCRIPTOR_MISSING_REQUIRED_FIELD")

\* validate_schema_shape: at most one code (two if a nested field is of the
\* wrong type and another one is incomplete: the code names either first).
SchemaErrors(p) ==
    LET first == FirstCode(<<
          <<p.fields \cap FORBIDDEN_FIELDS # {}, "B1_DESCRIPTOR_FORBIDDEN_FIELD">>,
          <<p.fields \ ALLOWED_FIELDS # {}, "B1_DESCRIPTOR_UNKNOWN_FIELD">>,
          <<~(REQUIRED_FIELDS \subseteq p.fields), "B1_DESCRIPTOR_MISSING_REQUIRED_FIELD">>,
          <<REQUIRED_STRING_FIELDS \cap (p.untyped \cup p.empty) # {},
            "B1_DESCRIPTOR_MISSING_REQUIRED_FIELD">>,
          <<"non_claims" \in p.untyped \cup p.empty, "B1_DESCRIPTOR_MISSING_REQUIRED_FIELD">>,
          <<Texts \cap (p.untyped \cup p.empty) # {}, "B1_DESCRIPTOR_INVALID_FIELD_TYPE">> >>)
        then == FirstCode(<<
          <<"artifact_expectation" \in p.untyped, "B1_DESCRIPTOR_INVALID_FIELD_TYPE">>,
          <<\E i \in DOMAIN p.artifacts :
                ~ArtifactPathWithinBoundary(p.artifacts[i].logical_path, p.roots),
            "B1_DESCRIPTOR_MISSING_REQUIRED_FIELD">>,
          <<Says(p, "executor_eligibility", "unknown class"), "B1_DESCRIPTOR_UNKNOWN_FIELD">> >>)
    IN  IF first # {} THEN first
        ELSE IF NestedErrors(p) # {} THEN NestedErrors(p)
        ELSE then

\* _workspace_invalid looks for two dots anywhere in the root, so a name such
\* as "x..y", which is no parent directory, is refused with "..".
DottedNames == {"..", "x..y"}

WorkspaceInvalid(p) ==
    \/ ~Has(p, "workspace_boundary", "single_root")
    \/ Len(p.roots) # 1
    \/ IsAbsolute(p.roots[1])
    \/ \E i \in DOMAIN p.roots[1] : p.roots[1][i] \in DottedNames

\* validate_descriptor: the code it raises, if any.
DescriptorErrors(p) ==
    LET before == FirstCode(<<
          <<"authority_binding" \notin p.fields, "B1_DESCRIPTOR_MISSING_AUTHORITY_BINDING">>,
          <<"governance_requirements" \notin p.fields,
            "B1_DESCRIPTOR_MISSING_GOVERNANCE_REQUIREMENT">>,
          <<"replay_binding" \notin p.fields, "B1_DESCRIPTOR_MISSING_REPLAY_BINDING">>,
          <<"non_claims" \notin p.fields \ p.empty, "B1_DESCRIPTOR_EMPTY_NON_CLAIMS">>,
          <<p.fields \cap DERIVED_FIELDS # {},
            "B1_DESCRIPTOR_PROPOSER_SUPPLIED_DERIVED_FIELD">> >>)
        after == FirstCode(<<
          <<~Has(p, "determinism_level", "STRICT"), "B1_DESCRIPTOR_INVALID_FIELD_TYPE">>,
          <<~Has(p, "governance_requirements", "required_predicates"),
            "B1_DESCRIPTOR_MISSING_GOVERNANCE_REQUIREMENT">>,
          <<~Has(p, "validation_requirements", "required_validators")
            \/ ~Has(p, "validation_requirements", "fail_closed"),
            "B1_DESCRIPTOR_MISSING_REQUIRED_FIELD">>,
          <<~NonEmpty(p, "replay_binding"), "B1_DESCRIPTOR_MISSING_REPLAY_BINDING">>,
          <<WorkspaceInvalid(p), "B1_DESCRIPTOR_AMBIGUOUS_WORKSPACE_BOUNDARY">>,
          <<Has(p, "action_type", "allowed") /\ p.artifacts = <<>>,
            "B1_DESCRIPTOR_UNDECLARED_ARTIFACT_OUTPUT">>,
          <<\/ ~Has(p, "authority_binding", "grants")
            \/ ~Has(p, "authority_binding", "stage grants")
            \/ ~Has(p, "capability_boundary", "actions")
            \/ ~Has(p, "action_type", "allowed")
            \/ Says(p, "authority_binding", "denied") \/ Says(p, "capability_boundary", "denied"),
            "B1_DESCRIPTOR_AUTHORITY_CAPABILITY_MISMATCH">>,
          <<\E f \in Texts \cup {"non_claims"} : Says(p, f, "forbidden claim"),
            "B1_DESCRIPTOR_FORBIDDEN_CLAIM">> >>)
    IN  IF before # {} THEN before
        ELSE IF SchemaErrors(p) # {} THEN SchemaErrors(p)
        ELSE after

\* canonical_hash of the descriptor: sha256_text, without the "sha256:" that
\* the other documents put before a hash.  It leaves out the derived names at
\* every depth.  At the top level validate_descriptor has refused them; two
\* payloads that differ only in such a name further down have one hash, and
\* are one payload here, since no gate looks at those names.
DescriptorHash(p) == <<"hex", Restricted(p, ALLOWED_FIELDS)>>

-----------------------------------------------------------------------------
(* spine_contract.py and kernel20/coverage.py                              *)

\* describe_kernel20_coverage; the two predicates also ask for the name.
Kernel20Report(p) ==
    LET coverage == IF IsMapping(p, "kernel_binding") THEN p.coverage ELSE {}
    IN  [minimal_coverage |-> MINIMAL_KERNEL_BINDING_12 \subseteq coverage,
         full_coverage |-> KERNEL20_PRIMITIVE_SET \subseteq coverage]

KernelBound(p) ==
    /\ Has(p, "kernel_binding", "Kernel 20") /\ p.coverage # {}
    /\ Kernel20Report(p).minimal_coverage

\* _executor_requested.
ExecutorRequested(p) == NonEmpty(p, "executor_eligibility")

\* _replay_receipt_bound: no replay binding at all is not an error here.
ReplayReceiptBound(p) ==
    \/ ~IsMapping(p, "replay_binding")
    \/ NonEmpty(p, "replay_binding") /\ Has(p, "replay_binding", "receipt refs")

\* validate_descriptor_spine_contract collects every code.
ContractErrors(p) ==
    UNION {
      Code(~NonEmpty(p, "task_ref"), "MISSING_TASK_IDENTITY"),
      Code(~NonEmpty(p, "authority_binding"), "MISSING_AUTHORITY_BINDING"),
      Code(ExecutorRequested(p) /\ (~NonEmpty(p, "workspace_boundary") \/ p.roots = <<>>),
           "EXECUTOR_WITHOUT_WORKSPACE_BOUNDARY"),
      Code(/\ IsMapping(p, "artifact_expectation") /\ p.artifacts # <<>>
           /\ ~(/\ Has(p, "validation_requirements", "artifact_validation_bindings")
                /\ Has(p, "validation_requirements", "required_validators")),
           "ARTIFACT_WITHOUT_VALIDATION_BINDING"),
      Code(~ReplayReceiptBound(p), "REPLAY_WITHOUT_RECEIPT_LEDGER_HASH"),
      Code(IsMapping(p, "tool_invocation") /\ ~Says(p, "capability_boundary", "declares tool"),
           "TOOL_WITHOUT_CAPABILITY"),
      Code("actor_transfer" \in p.fields /\ ~NonEmpty(p, "handoff_record"),
           "HANDOFF_WITHOUT_ACTOR_RECORD"),
      Code(/\ Says(p, "state_mutation", "mutates")
           /\ ~(NonEmpty(p, "transition_intent") /\ NonEmpty(p, "audit_binding")),
           "STATE_MUTATION_WITHOUT_TRANSITION_AUDIT"),
      Code(ExecutorRequested(p) /\ ~Has(p, "governance_requirements", "approved"),
           "EXECUTION_BEFORE_GOVERNANCE"),
      Code(~KernelBound(p), "KERNEL_20_BINDING_INCOMPLETE"),
      Code(~(/\ NonEmpty(p, "minimal_spine_binding")
             /\ MINIMAL_SPINE_FIELDS \subseteq p.fields), "MINIMAL_SPINE_BINDING_INCOMPLETE") }

-----------------------------------------------------------------------------
(* spine_adapter.py                                                        *)

\* _raw_preflight collects every code.
PreflightErrors(p) ==
    UNION {
      Code(Says(p, "execution_request", "live"), "DRY_RUN_EXECUTION_REQUESTED"),
      Code(Says(p, "workspace_mutation", "mutates"), "DRY_RUN_WORKSPACE_MUTATION_FORBIDDEN"),
      Code(IsMapping(p, "tool_invocation"), "DRY_RUN_TOOL_INVOCATION_FORBIDDEN"),
      Code(IsMapping(p, "llm_invocation"), "DRY_RUN_LLM_INVOCATION_FORBIDDEN"),
      Code(~(/\ Has(p, "governance_requirements", "approved")
             /\ Has(p, "governance_requirements", "decision_ref")),
           "DRY_RUN_GOVERNANCE_DECISION_MISSING"),
      Code(~(IsMapping(p, "transition_intent") /\ IsMapping(p, "audit_binding")),
           "DRY_RUN_TRANSITION_AUDIT_BINDING_MISSING"),
      Code(p.artifacts # <<>>
           /\ ~Has(p, "validation_requirements", "artifact_validation_bindings"),
           "DRY_RUN_ARTIFACT_VALIDATION_BINDING_MISSING"),
      Code(Says(p, "replay_binding", "proven"), "DRY_RUN_REPLAY_PROOF_FORBIDDEN") }

\* _descriptor_validation_payload.
ValidationPayload(p) == Restricted(p, p.fields \ {"kernel_binding", "minimal_spine_binding"})

\* Mutant: the contract is not asked.
DryRunErrorsNoContract(p) ==
    PreflightErrors(p) \cup DescriptorErrors(ValidationPayload(p))

\* build_descriptor_spine_dry_run: what rejects the payload.
DryRunErrors(p) ==
    IF PreflightErrors(p) # {} THEN PreflightErrors(p)
    ELSE IF ContractErrors(p) # {} THEN {"SPINE_CONTRACT_REJECTED"} \cup ContractErrors(p)
    ELSE LET errors == DescriptorErrors(ValidationPayload(p))
         IN  IF errors = {} THEN {} ELSE {"DESCRIPTOR_VALIDATION_REJECTED"} \cup errors

\* _build_dry_run_plan: the parts later stages carry on.
DryRunPlan(p) ==
    [task |-> [task_id |-> p.task_id, descriptor_hash |-> DescriptorHash(ValidationPayload(p))],
     artifacts |-> p.artifacts,
     governance |-> [decision |-> "approved", decision_ref |-> <<"ref", p.task_id>>],
     replay |-> [receipt_ref |-> <<"receipt">>, ledger_ref |-> <<"ledger">>,
                 proof_status |-> "not_proven"]]
=============================================================================
