----------------------------- MODULE AgentLoop -----------------------------
(***************************************************************************)
(* run_agent_loop (agent_loop/supervisor.py): one call reads context,      *)
(* finds or creates a patch proposal artifact, applies it if the mode is   *)
(* SUPERVISED_APPLY, runs an allowlisted test, and writes a replay         *)
(* manifest, a final report and a receipt into its run directory.          *)
(*                                                                         *)
(* Calls follow one another; what they share is the workspace and the run  *)
(* directories below one parent.  Between calls a human approves artifacts *)
(* and an operator may undo a committed patch.  The environment kills the  *)
(* process, makes operations fail and edits the workspace.                 *)
(*                                                                         *)
(* patch_apply appears by its contract, AtomicPatch: `workspace' is the    *)
(* image that rollback.json can restore, and a transaction happens in one  *)
(* step or not at all.  The workspace is one target's content.             *)
(***************************************************************************)
EXTENDS AgentLoopPolicy, FiniteSets

CONSTANTS
    LoopRequests,  \* the requests that may be submitted, without their approval
    Authorities,   \* the AgentLoopAuthority values callers hold
    Dirs,          \* run_artifact_dir; numbers, in the order sorted() gives
    ProposalIds,   \* identifiers of patch proposals
    Contents,      \* contents of the target file
    Missing,       \* the target file does not exist
    Diffs,         \* unified diffs
    Redacted,      \* Redacted[d]: diff d without its secret-like values
    PatchText,     \* PatchText[d][c]: what diff d makes of content c, or Mismatch
    Mismatch,      \* apply_file_patch_to_text raised HUNK_CONTEXT_MISMATCH
    InitialContent,
    MaxApprovals, MaxCrashes, MaxFaults, MaxEdits   \* bounds on the environment

ASSUME LoopAssumption ==
    /\ Dirs \subseteq Nat
    /\ {Missing, Mismatch} \cap Contents = {}
    /\ Redacted \in [Diffs -> Diffs]
    /\ PatchText \in [Diffs -> [Contents -> Contents \cup {Mismatch}]]
    /\ InitialContent \in Contents
    /\ \A r \in LoopRequests :
           /\ r.dir \in Dirs
           /\ r.proposal_id \in ProposalIds
           /\ r.unified_diff \in Diffs
           /\ r.mode \in {"DRY_RUN", "SUPERVISED_APPLY"}
           /\ r.context_requests \in Nat
    /\ {MaxApprovals, MaxCrashes, MaxFaults, MaxEdits} \subseteq Nat

VARIABLES
    workspace,   \* content of the target
    artifacts,   \* <<run directory, proposal id>> -> patch_proposals/<id>.json
    commits,     \* run directory -> patch_apply/ (its receipt and rollback artifact)
    manifests,   \* run directory -> replay_manifest.json
    reports,     \* run directory -> final_report.json
    loopReceipts,\* run directory -> agent_loop_receipt.json
    approvals,   \* the approval packets humans have signed
    pc,          \* where the running call is; "idle" when none is
    req,         \* its request
    approval,    \* request.approval_packet
    proposal,    \* proposal_result: path, artifact_hash, receipt
    receipts,    \* executor_receipt_hashes
    result,      \* what the last call returned
    start,       \* ghost: the workspace when the last call began
    spent,       \* ghost: approvals a transaction has been committed under
    reused,      \* ghost: approvals two transactions have been committed under
    crashes, faults, edits

documents == <<artifacts, commits, manifests, reports, loopReceipts>>
local     == <<req, approval, proposal, receipts>>
ghosts    == <<start, spent, reused>>
budget    == <<crashes, faults, edits>>
vars      == <<workspace, documents, approvals, local, pc, result, ghosts, budget>>
-----------------------------------------------------------------------------
\* The proposal artifact.  Its receipt names the path and the hash that the
\* artifact had before the receipt was put into it; the recorded diff is
\* redacted, the recorded diff hash is that of the diff as requested.
Body(r, content) ==
    [proposal_id |-> r.proposal_id, base_commit |-> r.proposal_base_commit,
     unified_diff |-> Redacted[r.unified_diff],
     unified_diff_hash |-> Hash(r.unified_diff), target_file_hash |-> Hash(content)]

Artifact(r, content) ==
    [kind |-> "artifact", body |-> Body(r, content),
     receipt |-> [artifact_path |-> r.dir, artifact_hash |-> Hash(Body(r, content))]]

\* The approval packet a human signs for an artifact.
ApprovalFor(artifact) ==
    [proposal_hash |-> Hash(artifact),
     approved_unified_diff_hash |-> artifact.body.unified_diff_hash]

NoApproval == [proposal_hash |-> <<"none">>, approved_unified_diff_hash |-> <<"none">>]
NoRequest  == [mode |-> "none"]
NoProposal == [path |-> "none"]

\* The receipt and the rollback artifact of a committed transaction, with the
\* diff that was applied.
Commitment(artifact, before, after) ==
    [kind |-> "commit", proposal_hash |-> Hash(artifact), unified_diff |-> artifact.body.unified_diff,
     preimage |-> before, postimage |-> after]

\* build_ledger_events, one event per receipt: an event's hash covers the receipts
\* up to its own.
EventHash(hashes, i) == Hash(SubSeq(hashes, 1, i))

\* build_replay_manifest, over the ledger of the receipts so far.  The manifest
\* holds the hash of the rest of it.
Manifest(r, p, hashes) ==
    LET rest == [run_id |-> r.run_id, base_commit |-> r.base_commit, mode |-> r.mode,
                 artifact_path |-> p.path, patch_proposal |-> p.artifact_hash,
                 receipt_hashes |-> hashes, ledger_tail_hash |-> EventHash(hashes, Len(hashes))]
    IN  [kind |-> "manifest", rest |-> rest, replay_manifest_hash |-> Hash(rest)]

Report(r, p, hashes) ==
    [kind |-> "report", run_id |-> r.run_id, mode |-> r.mode, receipt_hashes |-> hashes,
     transition_log |-> TransitionLog(r.mode), ledger_hash |-> EventHash(hashes, Len(hashes)),
     replay_hash |-> Manifest(r, p, hashes).replay_manifest_hash]

\* build_agent_loop_receipt.
LoopReceipt(r, p, hashes) ==
    [kind |-> "receipt", run_id |-> r.run_id, mode |-> r.mode,
     executor_receipt_hashes |-> hashes, patch_proposal |-> p.artifact_hash,
     replay_manifest |-> Hash(Manifest(r, p, hashes)),
     final_report |-> Hash(Report(r, p, hashes))]

\* The dictionary that run_agent_loop returns, or how it ended without one.
\* A successful one knows its run directory and the receipts in its ledger.
Answer(status, codes, performed, dirs, ledger) ==
    [status |-> status, rejection_codes |-> codes, patch_apply_performed |-> performed,
     dirs |-> dirs, ledger |-> ledger]

Result(status, codes) == Answer(status, codes, FALSE, {}, <<>>)

NoResult == Result("none", {})
-----------------------------------------------------------------------------
Forget ==
    /\ pc' = "idle"
    /\ req' = NoRequest
    /\ approval' = NoApproval
    /\ proposal' = NoProposal
    /\ receipts' = <<>>

\* _failure(request, codes).
Failure(codes) ==
    /\ Forget
    /\ result' = Result("rejected", codes)

\* An exception that run_agent_loop does not catch.
Raise ==
    /\ Forget
    /\ result' = Result("raised", {})

Fault ==
    /\ faults < MaxFaults
    /\ faults' = faults + 1
    /\ UNCHANGED <<crashes, edits>>

Init ==
    /\ workspace = InitialContent
    /\ artifacts = [p \in Dirs \X ProposalIds |-> Absent]
    /\ commits = [d \in Dirs |-> Absent]
    /\ manifests = [d \in Dirs |-> Absent]
    /\ reports = [d \in Dirs |-> Absent]
    /\ loopReceipts = [d \in Dirs |-> Absent]
    /\ approvals = {}
    /\ pc = "idle"
    /\ req = NoRequest
    /\ approval = NoApproval
    /\ proposal = NoProposal
    /\ receipts = <<>>
    /\ result = NoResult
    /\ start = InitialContent
    /\ spent = {}
    /\ reused = {}
    /\ crashes = 0
    /\ faults = 0
    /\ edits = 0

\* The request does not pass: nothing but the answer changes.
RejectLoop(r, packet, authority) ==
    /\ pc = "idle"
    /\ LoopErrors(r, packet # NoApproval, authority) # {}
    /\ result' = Result("rejected", LoopErrors(r, packet # NoApproval, authority))
    /\ start' = workspace
    /\ UNCHANGED <<workspace, documents, approvals, local, pc, spent, reused, budget>>

\* The request passes.  The authority decision, the plan and the transition log
\* are computed; none of the checks on them can fail after validation.
BeginLoop(r, packet, authority) ==
    /\ pc = "idle"
    /\ LoopErrors(r, packet # NoApproval, authority) = {}
    /\ pc' = "context"
    /\ req' = r
    /\ approval' = packet
    /\ result' = NoResult
    /\ start' = workspace
    /\ UNCHANGED <<workspace, documents, approvals, proposal, receipts, spent, reused, budget>>

\* The run directory cannot be made.
BeginLoopFails(r, packet, authority) ==
    /\ pc = "idle"
    /\ LoopErrors(r, packet # NoApproval, authority) = {}
    /\ Fault
    /\ Raise
    /\ start' = workspace
    /\ UNCHANGED <<workspace, documents, approvals, spent, reused>>

\* _run_context_requests: every request is accepted and leaves a receipt...
ReadContext ==
    /\ pc = "context"
    /\ receipts' = [i \in 1..req.context_requests |-> Hash([kind |-> "context", request |-> i])]
    /\ pc' = "proposal"
    /\ UNCHANGED <<workspace, documents, approvals, req, approval, proposal, result, ghosts, budget>>

\* ...or one is rejected, once all have been tried, or is malformed and raises.
ReadContextRejected ==
    /\ pc = "context"
    /\ req.context_requests > 0
    /\ Failure({"REJECTED_CONTEXT_READ"}) \/ Raise
    /\ UNCHANGED <<workspace, documents, approvals, ghosts, budget>>
-----------------------------------------------------------------------------
\* _create_or_load_proposal.
Own == artifacts[<<req.dir, req.proposal_id>>]

ArtifactAt(dir) == artifacts[<<dir, req.proposal_id>>]

Approved(artifact) == Intact(artifact) /\ Hash(artifact) = approval.proposal_hash

\* The run's own artifact serves when it is the approved one, or when there is
\* no approval.
OwnServes == Intact(Own) /\ (approval = NoApproval \/ Approved(Own))

\* Where the search through the sibling directories stops: at the approved
\* artifact, or at a file that json.loads cannot read.
Stops ==
    IF approval = NoApproval THEN {}
    ELSE {d \in Dirs : ArtifactAt(d) = Torn \/ Approved(ArtifactAt(d))}

FirstStop == CHOOSE d \in Stops : \A e \in Stops : d <= e

Loaded(dir) ==
    /\ proposal' = [path |-> dir, artifact_hash |-> Hash(ArtifactAt(dir)),
                    receipt |-> ArtifactAt(dir).receipt]
    /\ receipts' = Append(receipts, Hash(ArtifactAt(dir).receipt))

\* A dry run goes on to its documents, a supervised run to the patch.
AfterProposal == IF req.mode = "SUPERVISED_APPLY" THEN "apply" ELSE "manifest"

\* Mutant of LoadOwn: whatever lies in the run's own directory serves.
LoadOwnFirst ==
    /\ pc = "proposal"
    /\ req.patch_proposal_request
    /\ Intact(Own)
    /\ Loaded(req.dir)
    /\ pc' = AfterProposal
    /\ UNCHANGED <<workspace, documents, approvals, req, approval, result, ghosts, budget>>

\* patch_proposal.artifact_reused: the own artifact serves, or it does not and
\* no approved one is found anywhere.
LoadOwn ==
    /\ pc = "proposal"
    /\ req.patch_proposal_request
    /\ OwnServes \/ (Intact(Own) /\ Stops = {})
    /\ Loaded(req.dir)
    /\ pc' = AfterProposal
    /\ UNCHANGED <<workspace, documents, approvals, req, approval, result, ghosts, budget>>

\* patch_proposal.approved_artifact_loaded, from the first directory that has it.
LoadApproved ==
    /\ pc = "proposal"
    /\ req.patch_proposal_request
    /\ ~OwnServes /\ Own # Torn
    /\ Stops # {} /\ ArtifactAt(FirstStop) # Torn
    /\ Loaded(FirstStop)
    /\ pc' = AfterProposal
    /\ UNCHANGED <<workspace, documents, approvals, req, approval, result, ghosts, budget>>

\* Mutant of LoadRaises: an unreadable artifact is read again.
LoadRetries ==
    /\ pc = "proposal"
    /\ req.patch_proposal_request
    /\ \/ Own = Torn
       \/ ~OwnServes /\ Stops # {} /\ ArtifactAt(FirstStop) = Torn
    /\ UNCHANGED vars

\* A truncated artifact on the way makes json.loads raise.
LoadRaises ==
    /\ pc = "proposal"
    /\ req.patch_proposal_request
    /\ \/ Own = Torn
       \/ ~OwnServes /\ Stops # {} /\ ArtifactAt(FirstStop) = Torn
    /\ Raise
    /\ UNCHANGED <<workspace, documents, approvals, ghosts, budget>>

\* validate_patch_proposal_request: what is wrong with the proposal as such, and
\* with its target.
ProposalErrors == req.proposal_errors \cup Code(workspace = Missing, "TARGET_FILE_MISSING")

\* create_patch_proposal_artifact: the hash it returns is that of the artifact
\* without its receipt.
CreateProposal ==
    /\ pc = "proposal"
    /\ req.patch_proposal_request
    /\ Own = Absent /\ Stops = {}
    /\ ProposalErrors = {}
    /\ LET artifact == Artifact(req, workspace)
       IN  /\ artifacts' = [artifacts EXCEPT ![<<req.dir, req.proposal_id>>] = artifact]
           /\ proposal' = [path |-> req.dir, artifact_hash |-> artifact.receipt.artifact_hash,
                           receipt |-> artifact.receipt]
           /\ receipts' = Append(receipts, Hash(artifact.receipt))
    /\ pc' = AfterProposal
    /\ UNCHANGED <<workspace, commits, manifests, reports, loopReceipts, approvals, req, approval,
                   result, ghosts, budget>>

\* The request names no proposal, or one that does not pass.
RejectProposal ==
    /\ pc = "proposal"
    /\ \/ /\ ~req.patch_proposal_request
          /\ Failure({"REJECTED_PATCH_PROPOSAL_REQUIRED"})
       \/ /\ req.patch_proposal_request
          /\ Own = Absent /\ Stops = {}
          /\ ProposalErrors # {}
          /\ Failure(ProposalErrors)
    /\ UNCHANGED <<workspace, documents, approvals, ghosts, budget>>

\* The write of the artifact fails.
CreateProposalFails ==
    /\ pc = "proposal"
    /\ req.patch_proposal_request
    /\ Own = Absent /\ Stops = {}
    /\ ProposalErrors = {}
    /\ Fault
    /\ \E document \in Damaged(Own) :
           artifacts' = [artifacts EXCEPT ![<<req.dir, req.proposal_id>>] = document]
    /\ Raise
    /\ UNCHANGED <<workspace, commits, manifests, reports, loopReceipts, approvals, ghosts>>
-----------------------------------------------------------------------------
\* _run_patch_apply reads the artifact again and calls apply_patch_transaction.
Selected == artifacts[<<proposal.path, req.proposal_id>>]

\* Mutant of RequestErrors: the packet is not bound to the proposal.
RequestErrorsUnbound ==
    UNION {
      Code(approval = NoApproval, "APPROVAL_PACKET_REQUIRED"),
      Code(workspace = Missing, "TARGET_FILE_MISSING"),
      Code(workspace # Missing /\ Selected.body.target_file_hash # Hash(workspace),
           "PREIMAGE_HASH_MISMATCH") }

\* validate_patch_apply_request, of which PatchApplyPolicy has the checks in
\* full: here those that the artifact the loop has chosen decides.
RequestErrors ==
    LET body == Selected.body
    IN  UNION {
          Code(approval = NoApproval, "APPROVAL_PACKET_REQUIRED"),
          Code(req.base_commit # body.base_commit, "BASE_COMMIT_MISMATCH"),
          Code(approval.proposal_hash # Hash(Selected), "APPROVAL_PROPOSAL_HASH_MISMATCH"),
          Code(approval.approved_unified_diff_hash # body.unified_diff_hash,
               "APPROVAL_DIFF_HASH_MISMATCH"),
          Code(workspace = Missing, "TARGET_FILE_MISSING"),
          Code(workspace # Missing /\ body.target_file_hash # Hash(workspace),
               "PREIMAGE_HASH_MISMATCH") }

Postimage == PatchText[Selected.body.unified_diff][workspace]

\* A transaction that got past validation has rewritten rollback.json, so an
\* earlier commit of the same directory may have lost its documents.
OverwriteCommit ==
    \E document \in Damaged(commits[req.dir]) :
        commits' = [commits EXCEPT ![req.dir] = document]

\* The transaction commits under the approval.
Commit ==
    /\ commits' = [commits EXCEPT ![req.dir] = Commitment(Selected, workspace, Postimage)]
    /\ workspace' = Postimage
    /\ spent' = spent \cup {approval}
    /\ reused' = IF approval \in spent THEN reused \cup {approval} ELSE reused

\* Mutant of ApplyPatch: what the hunks make of the text is not looked at.
ApplyPatchUnchecked ==
    /\ pc = "apply"
    /\ RequestErrors = {}
    /\ Commit
    /\ receipts' = Append(receipts, Hash(commits'[req.dir]))
    /\ pc' = "test"
    /\ UNCHANGED <<artifacts, manifests, reports, loopReceipts, approvals, req, approval, proposal,
                   result, start, budget>>

ApplyPatch ==
    /\ pc = "apply"
    /\ RequestErrors = {}
    /\ Postimage # Mismatch
    /\ Commit
    /\ receipts' = Append(receipts, Hash(commits'[req.dir]))
    /\ pc' = "test"
    /\ UNCHANGED <<artifacts, manifests, reports, loopReceipts, approvals, req, approval, proposal,
                   result, start, budget>>

\* apply_patch_transaction raises after the commit, while it builds its answer.
ApplyRaises ==
    /\ pc = "apply"
    /\ RequestErrors = {}
    /\ Postimage # Mismatch
    /\ Commit
    /\ Fault
    /\ Raise
    /\ UNCHANGED <<artifacts, manifests, reports, loopReceipts, approvals, start>>

\* Mutant of ApplyRejected: the supervisor does not look at `accepted'.
ApplyRejectedIgnored ==
    /\ pc = "apply"
    /\ RequestErrors # {}
    /\ pc' = "test"
    /\ UNCHANGED <<workspace, documents, approvals, local, result, ghosts, budget>>

\* The transaction is refused.
ApplyRejected ==
    /\ pc = "apply"
    /\ RequestErrors # {}
    /\ Failure(RequestErrors)
    /\ UNCHANGED <<workspace, documents, approvals, ghosts, budget>>

\* A hunk does not match or a file operation fails, and the transaction is
\* rolled back; if the rollback fails too, the exception goes through.
ApplyRolledBack ==
    /\ pc = "apply"
    /\ RequestErrors = {}
    /\ \/ Postimage = Mismatch /\ Failure({"HUNK_CONTEXT_MISMATCH"}) /\ UNCHANGED budget
       \/ Fault /\ (Failure({"PATCH_APPLY_WRITE_FAILED"}) \/ Raise)
    /\ OverwriteCommit
    /\ UNCHANGED <<workspace, artifacts, manifests, reports, loopReceipts, approvals, ghosts>>

TestOutcomes == {"SUCCESS", "FAILED_EXIT_CODE", "TIMEOUT"}

\* _run_test: a failed test and a timeout are accepted outcomes with a receipt.
RunTest ==
    /\ pc = "test"
    /\ req.test_command_id # "none"
    /\ \E outcome \in TestOutcomes :
           receipts' = Append(receipts, Hash([kind |-> "test", outcome |-> outcome]))
    /\ pc' = "manifest"
    /\ UNCHANGED <<workspace, documents, approvals, req, approval, proposal, result, ghosts, budget>>

\* Mutant of SkipTest: a supervised run needs a test receipt.
SkipTestRefused ==
    /\ pc = "test"
    /\ req.test_command_id = "none"
    /\ Failure({"REJECTED_TEST_RUNNER_RECEIPT"})
    /\ UNCHANGED <<workspace, documents, approvals, ghosts, budget>>

\* No test was asked for.
SkipTest ==
    /\ pc = "test"
    /\ req.test_command_id = "none"
    /\ pc' = "manifest"
    /\ UNCHANGED <<workspace, documents, approvals, local, result, ghosts, budget>>

\* run_allowlisted_test refuses (a secret-like value in the environment, no
\* working directory), or the test process cannot be started and it raises.
TestNotRun ==
    /\ pc = "test"
    /\ req.test_command_id # "none"
    /\ Failure({"UNREDACTED_SECRET_ENV_REJECTED"}) \/ Raise
    /\ UNCHANGED <<workspace, documents, approvals, ghosts, budget>>
-----------------------------------------------------------------------------
\* The three documents, each written by _write_json outside any try block.
WriteManifest ==
    /\ pc = "manifest"
    /\ manifests' = [manifests EXCEPT ![req.dir] = Manifest(req, proposal, receipts)]
    /\ pc' = "report"
    /\ UNCHANGED <<workspace, artifacts, commits, reports, loopReceipts, approvals, local, result,
                   ghosts, budget>>

\* Mutant of WriteReport: a report that is there already is kept.
WriteReportOnce ==
    /\ pc = "report"
    /\ reports' = [reports EXCEPT ![req.dir] =
                      IF Intact(@) THEN @ ELSE Report(req, proposal, receipts)]
    /\ pc' = "receipt"
    /\ UNCHANGED <<workspace, artifacts, commits, manifests, loopReceipts, approvals, local, result,
                   ghosts, budget>>

WriteReport ==
    /\ pc = "report"
    /\ reports' = [reports EXCEPT ![req.dir] = Report(req, proposal, receipts)]
    /\ pc' = "receipt"
    /\ UNCHANGED <<workspace, artifacts, commits, manifests, loopReceipts, approvals, local, result,
                   ghosts, budget>>

WriteLoopReceipt ==
    /\ pc = "receipt"
    /\ loopReceipts' = [loopReceipts EXCEPT ![req.dir] = LoopReceipt(req, proposal, receipts)]
    /\ pc' = "return"
    /\ UNCHANGED <<workspace, artifacts, commits, manifests, reports, approvals, local, result,
                   ghosts, budget>>

\* The answer.  Its ledger is built anew, over the executors' receipts and the
\* loop's own.
ReturnSuccess ==
    /\ pc = "return"
    /\ Forget
    /\ result' = Answer("success", {}, req.mode = "SUPERVISED_APPLY", {req.dir},
                        Append(receipts, Hash(LoopReceipt(req, proposal, receipts))))
    /\ UNCHANGED <<workspace, documents, approvals, ghosts, budget>>

\* The document being written is damaged by a failing write or a dying process.
DamageDocument ==
    \/ /\ pc = "manifest"
       /\ \E document \in Damaged(manifests[req.dir]) :
              manifests' = [manifests EXCEPT ![req.dir] = document]
       /\ UNCHANGED <<artifacts, commits, reports, loopReceipts>>
    \/ /\ pc = "report"
       /\ \E document \in Damaged(reports[req.dir]) :
              reports' = [reports EXCEPT ![req.dir] = document]
       /\ UNCHANGED <<artifacts, commits, manifests, loopReceipts>>
    \/ /\ pc = "receipt"
       /\ \E document \in Damaged(loopReceipts[req.dir]) :
              loopReceipts' = [loopReceipts EXCEPT ![req.dir] = document]
       /\ UNCHANGED <<artifacts, commits, manifests, reports>>

WriteFails ==
    /\ DamageDocument
    /\ Fault
    /\ Raise
    /\ UNCHANGED <<workspace, approvals, ghosts>>

\* The process dies, perhaps in the middle of a write.
Crash ==
    /\ pc # "idle"
    /\ crashes < MaxCrashes
    /\ crashes' = crashes + 1
    /\ \/ DamageDocument
       \/ UNCHANGED documents
       \/ /\ pc = "proposal"
          /\ req.patch_proposal_request /\ Own = Absent /\ Stops = {} /\ ProposalErrors = {}
          /\ artifacts' = [artifacts EXCEPT ![<<req.dir, req.proposal_id>>] = Torn]
          /\ UNCHANGED <<commits, manifests, reports, loopReceipts>>
       \/ /\ pc = "apply" /\ RequestErrors = {}
          /\ OverwriteCommit
          /\ UNCHANGED <<artifacts, manifests, reports, loopReceipts>>
    /\ Forget
    /\ result' = Result("crashed", {})
    /\ UNCHANGED <<workspace, approvals, ghosts, faults, edits>>

\* A human reads an artifact and signs an approval packet for it.
Approve(path) ==
    /\ pc = "idle"
    /\ Intact(artifacts[path])
    /\ Cardinality(approvals) < MaxApprovals
    /\ ApprovalFor(artifacts[path]) \notin approvals
    /\ approvals' = approvals \cup {ApprovalFor(artifacts[path])}
    /\ UNCHANGED <<workspace, documents, pc, local, result, ghosts, budget>>

\* An operator undoes a committed transaction whose postimage is in place.
Undo(d) ==
    /\ pc = "idle"
    /\ Intact(commits[d])
    /\ workspace = commits[d].postimage
    /\ workspace' = commits[d].preimage
    /\ start' = workspace'
    /\ result' = NoResult
    /\ UNCHANGED <<documents, approvals, pc, local, spent, reused, budget>>

\* Somebody else writes or deletes the target.
Edit(c) ==
    /\ edits < MaxEdits
    /\ workspace # c
    /\ workspace' = c
    /\ edits' = edits + 1
    /\ UNCHANGED <<documents, approvals, pc, local, result, ghosts, crashes, faults>>

Step ==
    \/ ReadContext \/ ReadContextRejected
    \/ LoadOwn \/ LoadApproved \/ LoadRaises \/ CreateProposal \/ CreateProposalFails
    \/ RejectProposal
    \/ ApplyPatch \/ ApplyRaises \/ ApplyRejected \/ ApplyRolledBack \/ RunTest \/ SkipTest \/ TestNotRun
    \/ WriteManifest \/ WriteReport \/ WriteLoopReceipt \/ WriteFails \/ ReturnSuccess

Next ==
    \/ \E r \in LoopRequests, packet \in approvals \cup {NoApproval}, authority \in Authorities :
           \/ RejectLoop(r, packet, authority)
           \/ BeginLoop(r, packet, authority)
           \/ BeginLoopFails(r, packet, authority)
    \/ Step
    \/ Crash
    \/ \E path \in Dirs \X ProposalIds : Approve(path)
    \/ \E d \in Dirs : Undo(d)
    \/ \E c \in Contents \cup {Missing} : Edit(c)

Spec == Init /\ [][Next]_vars

\* A running call is a Python function on a live process: it keeps going.
FairSpec == Spec /\ WF_vars(Step)
-----------------------------------------------------------------------------
Locations == {"idle", "context", "proposal", "apply", "test", "manifest", "report", "receipt",
              "return"}

\* Every variable keeps its type: documents are of the kind their place asks for.
TypeOK ==
    /\ workspace \in Contents \cup {Missing}
    /\ DOMAIN artifacts = Dirs \X ProposalIds
    /\ \A path \in DOMAIN artifacts : artifacts[path].kind \in {"absent", "torn", "artifact"}
    /\ \A d \in Dirs :
           /\ commits[d].kind \in {"absent", "torn", "commit"}
           /\ manifests[d].kind \in {"absent", "torn", "manifest"}
           /\ reports[d].kind \in {"absent", "torn", "report"}
           /\ loopReceipts[d].kind \in {"absent", "torn", "receipt"}
    /\ pc \in Locations
    /\ req \in LoopRequests \cup {NoRequest}
    /\ approval \in approvals \cup {NoApproval}
    /\ result.dirs \subseteq Dirs
    /\ start \in Contents \cup {Missing}
    /\ reused \subseteq spent /\ spent \subseteq approvals
    /\ <<crashes, faults, edits>> \in Nat \X Nat \X Nat

(* Safety.                                                                 *)

\* Once the supervisor is about to apply a patch, and the approved artifact lies
\* in any run directory, that is the artifact it has chosen: neither the run's
\* own stale artifact nor a new one takes its place (_create_or_load_proposal).
ApprovedArtifactChosen ==
    pc = "apply" /\ (\E d \in Dirs : Approved(ArtifactAt(d))) => Approved(Selected)

\* Every transaction the loop commits is of a proposal that a human approved,
\* though the supervisor may hand patch_apply one that nobody did.
CommitsAreApproved ==
    \A d \in Dirs : Intact(commits[d]) =>
        \E packet \in approvals : packet.proposal_hash = commits[d].proposal_hash

\* A SUCCESS answer comes with a receipt, a final report and a manifest in its
\* run directory that name each other by hash, and with the receipt of its
\* transaction, whatever an earlier call left in that directory.  The ledger in
\* the answer is built anew with one receipt more: the tail that manifest and
\* report name is its last event but one, its last records the receipt on disk.
SuccessDocumentsAgree ==
    \A d \in result.dirs :
        LET written == loopReceipts[d]
        IN  /\ Intact(written) /\ Intact(reports[d]) /\ Intact(manifests[d])
            /\ written.final_report = Hash(reports[d])
            /\ written.replay_manifest = Hash(manifests[d])
            /\ reports[d].replay_hash = manifests[d].replay_manifest_hash
            /\ manifests[d].rest.receipt_hashes = written.executor_receipt_hashes
            /\ LET recorded == EventHash(result.ledger, Len(result.ledger) - 1)
               IN  recorded = manifests[d].rest.ledger_tail_hash /\ recorded = reports[d].ledger_hash
            /\ result.ledger[Len(result.ledger)] = Hash(written)
            /\ result.patch_apply_performed =>
                   \E i \in DOMAIN written.executor_receipt_hashes :
                       written.executor_receipt_hashes[i] = Hash(commits[d])

\* Without edits by others, an answer with patch_apply_performed = True means that
\* the workspace holds the postimage of the transaction in its run directory.
PerformedMeansApplied ==
    result.patch_apply_performed =>
        \A d \in result.dirs : Intact(commits[d]) /\ workspace = commits[d].postimage

\* Without edits by others, a call that is rejected anywhere but at the test
\* runner, reporting patch_apply_performed = False, has not changed the workspace.
RejectedBeforeTestsUntouched ==
    /\ result.status = "rejected"
    /\ "UNREDACTED_SECRET_ENV_REJECTED" \notin result.rejection_codes
    => workspace = start

\* A rejected call, which reports patch_apply_performed = False, has applied no
\* patch (supervisor.py, line 47).
RejectedMeansNotPerformed ==
    result.status = "rejected" => workspace = start

\* An approval, whose scope is single_patch_apply_transaction and which carries a
\* nonce, serves for one transaction.
ApprovalSingleUse == reused = {}

\* The diff a transaction applied is the one whose hash the human approved.
AppliedDiffIsApproved ==
    \A d \in Dirs : Intact(commits[d]) =>
        \E packet \in approvals :
            /\ packet.proposal_hash = commits[d].proposal_hash
            /\ packet.approved_unified_diff_hash = Hash(commits[d].unified_diff)

(* Liveness.                                                               *)

\* A call of run_agent_loop ends, by an answer, an exception or the death of its
\* process.
LoopEnds == pc # "idle" ~> pc = "idle"
=============================================================================
