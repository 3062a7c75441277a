---------------------------- MODULE MCPatchApply ----------------------------
(***************************************************************************)
(* Small instances of PatchApply for TLC.                                  *)
(***************************************************************************)
EXTENDS PatchApplyAtomic

CONSTANTS a, b, secret, blob   \* workspace paths

MCFiles     == {a, b}
PolicyFiles == {a, b, secret, blob}

\* Files of one or two lines: "old" or "new" first, then perhaps an extra line.
MCContents     == {"old", "new", "old+x", "new+x"}
PolicyContents == MCContents \cup {"binary"}

\* p rewrites the first line, r is its inverse, q appends the extra line.  A
\* hunk only looks at the lines it names; one that does not find them raises.
MCPatchText ==
    [p \in {"p", "q", "r"} |->
        [c \in Contents |->
            CASE p = "p" /\ c = "old"   -> "new"
              [] p = "p" /\ c = "old+x" -> "new+x"
              [] p = "q" /\ c = "old"   -> "old+x"
              [] p = "q" /\ c = "new"   -> "new+x"
              [] p = "r" /\ c = "new"   -> "old"
              [] p = "r" /\ c = "new+x" -> "old+x"
              [] OTHER -> Mismatch]]

MCPolicy == [max_files_allowed |-> 2, max_bytes_allowed |-> 1,
             receipt_required |-> TRUE, ledger_event_required |-> TRUE]

\* A proposal that expects content c in each of its targets.
Proposal(id, targets, patch, c) ==
    [proposal_id |-> id, base_commit |-> "c0", risk_class |-> "LOW",
     target_files |-> targets,
     unified_diff |-> [bytes |-> 1, malformed |-> FALSE,
                       sections |-> [i \in DOMAIN targets |->
                                        [path |-> targets[i], patch |-> patch]]],
     unified_diff_hash |-> Hash(patch),
     target_file_hashes |-> [f \in {targets[i] : i \in DOMAIN targets} |-> Hash(c)],
     claims |-> {}, artifact_only |-> TRUE, human_approval_required |-> TRUE]

\* An approval packet for that proposal, valid until time 1.
Approval(proposal) ==
    [present |-> TRUE, missing_fields |-> {}, blank_fields |-> {},
     expires_at |-> 1, proposal_id |-> proposal.proposal_id,
     proposal_hash |-> Hash(proposal),
     unified_diff_hash |-> proposal.unified_diff_hash,
     base_commit |-> proposal.base_commit, risk_class |-> proposal.risk_class,
     workspace_root_hash |-> Hash("root"), target_files |-> proposal.target_files,
     wildcard |-> FALSE, authority_scope |-> "single_patch_apply_transaction",
     rollback_required |-> TRUE, max_files_allowed |-> 2, max_bytes_allowed |-> 1,
     confirms |-> proposal.proposal_id]

Request(dir, proposal, approval) ==
    [transaction_dir |-> dir, transaction_id_valid |-> TRUE,
     side_effects_requested |-> {}, base_commit |-> "c0",
     proposal |-> proposal, approval_packet |-> approval]

Approved(dir, proposal) == Request(dir, proposal, Approval(proposal))

\* Two files at once; one file; the same file twice, whose second hunk fails;
\* the inverse of the second.
Both    == Proposal("both", <<a, b>>, "p", "old")
Single  == Proposal("single", <<b>>, "q", "old")
Twice   == Proposal("twice", <<a, a>>, "p", "old")
Inverse == Proposal("inverse", <<b, a>>, "r", "new")

TxRequests == {Approved(1, Both), Approved(2, Single)}
AllRequests == TxRequests \cup {Approved(3, Twice), Approved(4, Inverse)}

\* Requests that are wrong in one place each.
BadApprovals(approval) ==
    << [approval EXCEPT !.present = FALSE],
      [approval EXCEPT !.missing_fields = {"approval_id"}],
      [approval EXCEPT !.blank_fields = {"actor"}],
      [approval EXCEPT !.blank_fields = {"nonce"}],
      [approval EXCEPT !.blank_fields = {"attestation"}],
      [approval EXCEPT !.blank_fields = {"expires_at"}],
      [approval EXCEPT !.expires_at = 0],
      [approval EXCEPT !.proposal_hash = Hash(Both)],
      [approval EXCEPT !.proposal_id = "both"],
      [approval EXCEPT !.unified_diff_hash = Hash("p")],
      [approval EXCEPT !.base_commit = "c1"],
      [approval EXCEPT !.risk_class = "HIGH"],
      [approval EXCEPT !.workspace_root_hash = Hash("elsewhere")],
      [approval EXCEPT !.target_files = <<>>],
      [approval EXCEPT !.target_files = <<a, b>>],
      [approval EXCEPT !.wildcard = TRUE],
      [approval EXCEPT !.authority_scope = "any"],
      [approval EXCEPT !.rollback_required = FALSE],
      [approval EXCEPT !.max_files_allowed = 0],
      [approval EXCEPT !.max_bytes_allowed = 0],
      [approval EXCEPT !.confirms = "both"] >>

BadProposals(proposal) ==
    << [proposal EXCEPT !.claims = {"apply_performed"}],
      [proposal EXCEPT !.artifact_only = FALSE],
      [proposal EXCEPT !.human_approval_required = FALSE],
      [proposal EXCEPT !.base_commit = "c1"],
      [proposal EXCEPT !.unified_diff.bytes = 2],
      [proposal EXCEPT !.unified_diff.malformed = TRUE],
      [proposal EXCEPT !.target_files = <<a>>],
      [proposal EXCEPT !.target_file_hashes = [f \in {} |-> Hash("old")]],
      Proposal("empty", <<>>, "q", "old"),
      Proposal("three", <<a, b, a>>, "p", "old"),
      Proposal("denied", <<secret>>, "q", "old"),
       Proposal("binary", <<blob>>, "q", "binary") >>

PolicyRequests ==
    LET approvals == BadApprovals(Approval(Single))
        proposals == BadProposals(Single)
        good      == Approved(2, Single)
    IN  {good, Approved(4, Inverse)}
        \cup {Request(10 + i, Single, approvals[i]) : i \in DOMAIN approvals}
        \cup {Approved(40 + i, proposals[i]) : i \in DOMAIN proposals}
        \cup {[good EXCEPT !.transaction_dir = 61, !.transaction_id_valid = FALSE],
              [good EXCEPT !.transaction_dir = 62, !.side_effects_requested = {"shell"}],
              [good EXCEPT !.transaction_dir = 63, !.base_commit = "c1"]}

\* The policy run starts where the approved transactions can run at once.
PolicyInitialFiles == [f \in PolicyFiles |-> IF f = blob THEN "binary" ELSE "old"]

MCDenied == {secret}

MCRefused == {"binary"}

MCInitialFiles == [f \in MCFiles |-> "old"]
=============================================================================
