----------------------------- MODULE Authority -----------------------------
(***************************************************************************)
(* Authority packets (authority/packet.py, authority/verify.py) and the    *)
(* admission of a descriptor payload with or without one                   *)
(* (admission/policy.py, admission/controller.py, admission/result.py).    *)
(* Every function here is pure: what it returns depends on its arguments   *)
(* only, and it changes nothing.                                           *)
(*                                                                         *)
(* A packet is its body with a packet_id and a payload_hash.               *)
(***************************************************************************)
EXTENDS Descriptors, FiniteSets

R114_CURRENT_EPOCH == "r114-local-epoch"
ALLOWED_CAPABILITY == "admission.evaluate"

\* sorted(list): two lists are sorted into the same one iff they hold every
\* value equally often.
Sorted(list) ==
    LET values == {list[i] : i \in DOMAIN list}
    IN  [v \in values |-> Cardinality({i \in DOMAIN list : list[i] = v})]

\* _descriptor_payload keeps the fields that a descriptor may have, and
\* compute_descriptor_payload_hash raises unless what is left is valid.
PayloadErrors(p) == DescriptorErrors(Restricted(p, ALLOWED_FIELDS))
PayloadHash(p)   == DescriptorHash(Restricted(p, ALLOWED_FIELDS))

\* _complete_packet_hash; the packet_id is cut from the hash.
CompletePacketHash(body) ==
    [body |-> body, packet_id |-> <<"authpkt", Hash(body)>>, payload_hash |-> Hash(body)]

\* build_authority_packet; "over" holds the keyword arguments, with those of
\* the payload itself in PacketDefaults.
PacketDefaults(p) ==
    [issuer |-> "governance:runtime_lab", subject |-> "actor:local_runtime",
     task_id |-> p.task_id, allowed_roots |-> p.roots, expected_artifacts |-> p.artifacts,
     capability_grants |-> {ALLOWED_CAPABILITY},
     not_before |-> R114_CURRENT_EPOCH, expires_at |-> "none"]

BuildAuthorityPacket(p, over) ==
    CompletePacketHash(
      [issuer |-> over.issuer, subject |-> over.subject,
       task_binding |-> [task_id |-> over.task_id, descriptor_hash |-> PayloadHash(p)],
       allowed_roots |-> over.allowed_roots, expected_artifacts |-> over.expected_artifacts,
       capability_grants |-> over.capability_grants,
       not_before |-> over.not_before, expires_at |-> over.expires_at])

\* verify_authority_packet, for a payload that is a valid descriptor: the
\* descriptor hash of any other payload raises.
AuthorityVerified(packet, p) ==
    LET body == packet.body IN
    /\ packet = CompletePacketHash(body)
    /\ body.issuer = "governance:runtime_lab"
    /\ body.subject = "actor:local_runtime"
    /\ {body.not_before, body.expires_at} \subseteq {"none", R114_CURRENT_EPOCH}
    /\ body.task_binding.descriptor_hash = PayloadHash(p)
    /\ body.task_binding.task_id = p.task_id
    /\ body.capability_grants = {ALLOWED_CAPABILITY}
    /\ Sorted(body.allowed_roots) = Sorted(p.roots)
    /\ Sorted(body.expected_artifacts) = Sorted(p.artifacts)

-----------------------------------------------------------------------------
(* Admission                                                               *)

ADMISSION_EXTENSIONS ==
    {"kernel_binding", "minimal_spine_binding", "tool_invocation", "llm_invocation",
     "workspace_mutation", "actor_transfer", "handoff_record", "state_mutation"}

\* validate_admission_policy collects every code; no decision at all is told
\* apart from a decision other than "approved", and no authority binding from
\* one whose grants are not a list of names.
PolicyErrors(p) ==
    LET gov      == "governance_requirements"
        approved == Has(p, gov, "approved")
        decided  == approved \/ Has(p, gov, "decision")
        bound    == IsMapping(p, "authority_binding")
    IN UNION {
      Code(~decided, "ADMISSION_MISSING_GOVERNANCE_DECISION"),
      Code(decided /\ ~approved, "ADMISSION_GOVERNANCE_DECISION_NOT_APPROVED"),
      Code(IsMapping(p, gov) /\ ~Has(p, gov, "decision_ref"),
           "ADMISSION_MISSING_GOVERNANCE_DECISION_REFERENCE"),
      Code(~bound, "ADMISSION_MISSING_AUTHORITY_BINDING"),
      Code(bound /\ ~Has(p, "authority_binding", "grants"),
           "ADMISSION_AUTHORITY_REQUIRED_GRANTS_INVALID"),
      Code("tool_invocation" \in p.fields, "ADMISSION_TOOL_INVOCATION_NOT_ALLOWED"),
      Code("llm_invocation" \in p.fields, "ADMISSION_LLM_INVOCATION_NOT_ALLOWED"),
      Code("workspace_mutation" \in p.fields, "ADMISSION_WORKSPACE_MUTATION_NOT_ALLOWED") }

\* _has_disallowed_full_kernel20_claim.
ClaimsFullKernel20(p) ==
    \E f \in Texts \cup {"non_claims"} : Says(p, f, "full kernel20")

KERNEL20_CODES == {"KERNEL20_MINIMAL_BOUNDARY_NOT_MET",
                   "KERNEL20_FULL_COVERAGE_CLAIM_BOUNDARY_VIOLATION"}

\* evaluate_admission, which admit_descriptor_payload wraps.
EvaluateAdmission(p) ==
    IF PolicyErrors(p) # {} THEN PolicyErrors(p)
    ELSE IF p.fields \ (ALLOWED_FIELDS \cup ADMISSION_EXTENSIONS) # {}
         THEN {"B1_DESCRIPTOR_UNKNOWN_FIELD"}
    ELSE IF ContractErrors(p) # {} THEN {"SPINE_CONTRACT_REJECTED"} \cup ContractErrors(p)
    ELSE IF PayloadErrors(p) # {}
         THEN {"ADMISSION_DESCRIPTOR_VALIDATION_ERROR"} \cup PayloadErrors(p)
    ELSE Code(~Kernel20Report(p).minimal_coverage, "KERNEL20_MINIMAL_BOUNDARY_NOT_MET") \cup
         Code(ClaimsFullKernel20(p) /\ ~Kernel20Report(p).full_coverage,
              "KERNEL20_FULL_COVERAGE_CLAIM_BOUNDARY_VIOLATION")

\* make_admission_receipt.
AdmissionReceipt(body) == [body |-> body, receipt_hash |-> Hash(body)]

\* evaluate_authorized_admission, for a payload that is a valid descriptor
\* (it raises, too, for a genuine packet and any other).  The receipt is bound to the packet only when
\* the packet was accepted, and it names the descriptor hash once the
\* descriptor has been validated, admitted or not.
AuthorizedAdmission(packet, p) ==
    LET authorized == AuthorityVerified(packet, p)
        codes      == EvaluateAdmission(p)
        validated  == authorized /\ codes \subseteq KERNEL20_CODES
    IN  AdmissionReceipt(
          [accepted |-> authorized /\ codes = {},
           descriptor_hash |-> IF validated THEN PayloadHash(p) ELSE <<>>,
           authority_packet_id |-> IF authorized THEN packet.packet_id ELSE <<>>,
           authority_packet_hash |-> IF authorized THEN packet.payload_hash ELSE <<>>])
=============================================================================
