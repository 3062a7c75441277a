-------------------------- MODULE PatchApplyPolicy --------------------------
(***************************************************************************)
(* The checks that stand between a patch-apply request and the workspace:  *)
(* validate_patch_apply_request (patch_apply/policy.py) and the            *)
(* validate_approval_packet it calls (patch_apply/approval.py).  Both      *)
(* collect every rejection code instead of stopping at the first one, so   *)
(* each is modelled as the set of codes it collects; a request is accepted *)
(* when the set is empty.                                                  *)
(*                                                                         *)
(* Data is abstracted to what the checks compare.  A target file's content *)
(* is a member of Contents; a unified diff is the sequence of its file     *)
(* sections, each naming a file and a patch; a SHA-256 of x is Hash(x).    *)
(***************************************************************************)
EXTENDS Naturals, Sequences, FiniteSets, Documents

CONSTANTS
    Files,          \* the workspace paths a request may name
    Contents,       \* the byte contents a workspace file may have
    Missing,        \* "there is no such file"
    RefusedContents,\* contents over max_target_file_bytes, with a NUL byte, or not UTF-8
    DeniedPaths,    \* paths resolve_patch_apply_target_path refuses
    Workspace,      \* the resolved workspace root
    Policy          \* the PatchApplyPolicy in force

ASSUME PolicyAssumption ==
    /\ Missing \notin Contents
    /\ RefusedContents \subseteq Contents
    /\ DeniedPaths \subseteq Files
    /\ Policy \in [max_files_allowed : Nat, max_bytes_allowed : Nat,
                   receipt_required : BOOLEAN, ledger_event_required : BOOLEAN]

TargetSet(r) == {r.proposal.target_files[i] : i \in DOMAIN r.proposal.target_files}

\* The rejection codes of validate_approval_packet.
ApprovalErrors(approval, proposal, now) ==
    UNION {
      Code(approval.missing_fields # {}, "APPROVAL_REQUIRED_FIELD_MISSING"),
      Code("expires_at" \in approval.blank_fields, "APPROVAL_EXPIRATION_REQUIRED"),
      Code("expires_at" \notin approval.blank_fields /\ approval.expires_at <= now,
           "APPROVAL_EXPIRED"),
      Code("actor" \in approval.blank_fields, "APPROVAL_ACTOR_REQUIRED"),
      Code(approval.proposal_id # proposal.proposal_id, "APPROVAL_PROPOSAL_ID_MISMATCH"),
      Code(approval.proposal_hash # Hash(proposal), "APPROVAL_PROPOSAL_HASH_MISMATCH"),
      Code(approval.unified_diff_hash # proposal.unified_diff_hash, "APPROVAL_DIFF_HASH_MISMATCH"),
      Code(approval.base_commit # proposal.base_commit, "APPROVAL_BASE_COMMIT_MISMATCH"),
      Code(approval.risk_class # proposal.risk_class, "APPROVAL_RISK_CLASS_MISMATCH"),
      Code(approval.workspace_root_hash # Hash(Workspace), "APPROVAL_WORKSPACE_HASH_MISMATCH"),
      Code(approval.target_files = <<>>, "APPROVAL_TARGET_FILES_REQUIRED"),
      Code(approval.wildcard, "APPROVAL_WILDCARD_TARGET_REJECTED"),
      Code(approval.target_files # proposal.target_files, "APPROVAL_TARGET_FILES_MISMATCH"),
      Code(approval.authority_scope # "single_patch_apply_transaction", "APPROVAL_SCOPE_TOO_BROAD"),
      Code(~approval.rollback_required, "APPROVAL_ROLLBACK_REQUIRED"),
      Code(approval.max_files_allowed < Len(proposal.target_files), "APPROVAL_MAX_FILES_EXCEEDED"),
      Code(approval.max_bytes_allowed <= 0, "APPROVAL_MAX_BYTES_REQUIRED"),
      Code(approval.confirms # proposal.proposal_id, "APPROVAL_CONFIRMATION_TEXT_REJECTED"),
      Code("nonce" \in approval.blank_fields, "APPROVAL_NONCE_REQUIRED"),
      Code("attestation" \in approval.blank_fields, "APPROVAL_ATTESTATION_REQUIRED") }

\* Mutant of TargetErrors: the preimage hash is required but not compared.
TargetErrorsNoPreimage(r, f, files) ==
    IF f \in DeniedPaths THEN {"DENIED_PATH_PATTERN"}
    ELSE IF files[f] = Missing THEN {"TARGET_FILE_MISSING"}
    ELSE IF files[f] \in RefusedContents THEN {"TARGET_CONTENT_REJECTED"}
    ELSE Code(f \notin DOMAIN r.proposal.target_file_hashes, "PREIMAGE_HASH_MISSING")

\* The codes one target collects: path, existence, size and text checks, each
\* of which skips the rest, then the preimage hash of the bytes just read.
TargetErrors(r, f, files) ==
    LET expected == r.proposal.target_file_hashes
    IN  IF f \in DeniedPaths THEN {"DENIED_PATH_PATTERN"}
        ELSE IF files[f] = Missing THEN {"TARGET_FILE_MISSING"}
        ELSE IF files[f] \in RefusedContents THEN {"TARGET_CONTENT_REJECTED"}
        ELSE Code(f \notin DOMAIN expected, "PREIMAGE_HASH_MISSING")
             \cup Code(f \in DOMAIN expected /\ expected[f] # Hash(files[f]),
                       "PREIMAGE_HASH_MISMATCH")

\* The paths of the diff's sections, in order (parse_unified_diff).
DiffTargets(diff) == [i \in DOMAIN diff.sections |-> diff.sections[i].path]

\* Mutant of RequestErrors: any packet counts as an approval.
RequestErrorsUnapproved(r, files, now) ==
    Code(~r.approval_packet.present, "APPROVAL_PACKET_REQUIRED")
    \cup Code(r.proposal.target_files = <<>>, "TARGET_FILES_REQUIRED")
    \cup Code(DiffTargets(r.proposal.unified_diff) # r.proposal.target_files,
              "TARGET_FILES_DIFF_MISMATCH")
    \cup UNION {TargetErrors(r, f, files) : f \in TargetSet(r)}

\* The rejection codes of validate_patch_apply_request on a workspace `files`.
RequestErrors(r, files, now) ==
    LET p == r.proposal
    IN  IF ~Policy.receipt_required THEN {"RECEIPT_CONTRACT_REQUIRED"}
        ELSE IF ~Policy.ledger_event_required THEN {"LEDGER_EVENT_REQUIRED"}
        ELSE UNION {
          Code(~r.transaction_id_valid, "TRANSACTION_ID_REQUIRED"),
          Code(r.side_effects_requested # {}, "EXECUTION_REQUEST_REJECTED"),
          Code(p.claims # {}, "PROPOSAL_CLAIM_REJECTED"),
          Code(~p.artifact_only, "PROPOSAL_ARTIFACT_ONLY_REQUIRED"),
          Code(~p.human_approval_required, "PROPOSAL_HUMAN_APPROVAL_REQUIRED"),
          Code(r.base_commit # p.base_commit, "BASE_COMMIT_MISMATCH"),
          Code(p.target_files = <<>>, "TARGET_FILES_REQUIRED"),
          Code(Len(p.target_files) > Policy.max_files_allowed, "POLICY_MAX_FILES_EXCEEDED"),
          Code(p.unified_diff.bytes > Policy.max_bytes_allowed, "PATCH_SIZE_LIMIT_EXCEEDED"),
          Code(p.unified_diff.malformed, "MALFORMED_UNIFIED_DIFF"),
          Code(/\ ~p.unified_diff.malformed
               /\ p.target_files # <<>>
               /\ DiffTargets(p.unified_diff) # p.target_files, "TARGET_FILES_DIFF_MISMATCH"),
          IF r.approval_packet.present
          THEN ApprovalErrors(r.approval_packet, p, now)
          ELSE {"APPROVAL_PACKET_REQUIRED"},
          UNION {TargetErrors(r, f, files) : f \in TargetSet(r)} }
=============================================================================
