----------------------------- MODULE PatchApply -----------------------------
(***************************************************************************)
(* apply_patch_transaction (patch_apply/transaction.py) and                *)
(* restore_rollback_artifact (patch_apply/rollback.py), step by step, over *)
(* the durable state they touch: the workspace files, the temporary files  *)
(* beside them, and the rollback.json and receipt.json of every            *)
(* transaction directory.                                                  *)
(*                                                                         *)
(* One process runs at a time: a call of apply_patch_transaction, or an    *)
(* operator's call of restore_rollback_artifact on a rollback.json that a  *)
(* finished or interrupted transaction left behind.  The environment may   *)
(* kill the process between two steps, make a file operation fail, edit a  *)
(* workspace file, and let time pass.                                      *)
(***************************************************************************)
EXTENDS PatchApplyPolicy

CONSTANTS
    Requests,     \* the requests that may be submitted
    Patches,      \* the file sections a diff may contain
    PatchText,    \* PatchText[p][c]: what read_text and apply_file_patch_to_text
                  \* make of content c under patch p, or Mismatch
    Undecodable,  \* the contents that are not UTF-8
    Mismatch,     \* apply_file_patch_to_text raised HUNK_CONTEXT_MISMATCH
    InitialFiles, \* the workspace to start with
    RecoverFirst, \* operators restore an interrupted transaction before any other
    MaxCrashes, MaxFaults, MaxEdits, MaxTime   \* bounds on the environment

\* Distinct requests use distinct transaction directories, as distinct run
\* identifiers do in agent_loop.
ASSUME RequestsAssumption ==
    /\ \A r \in Requests : r.proposal.target_files \in Seq(Files)
    /\ \A r, s \in Requests : r.transaction_dir = s.transaction_dir => r = s
    /\ InitialFiles \in [Files -> Contents \cup {Missing}]
    /\ Undecodable \subseteq RefusedContents
    /\ RecoverFirst \in BOOLEAN

ASSUME BoundsAssumption ==
    {MaxCrashes, MaxFaults, MaxEdits, MaxTime} \subseteq Nat

VARIABLES
    files,     \* workspace: path -> content
    temps,     \* temporary files lying beside the targets: <<path, kind>>
    rollback,  \* transaction directory -> its rollback.json
    receipt,   \* transaction directory -> its receipt.json
    pc,        \* where the running call is; "idle" when none is
    req,       \* the request it serves (volatile, as are the next six)
    pre,       \* validation["preimage_hashes"]
    snap,      \* rollback_artifact["preimage_texts"]
    next,      \* position of the loop over target_files
    buf,       \* patched_text, written to the temporary file
    post,      \* postimage_hashes
    left,      \* targets restore_rollback_artifact has still to write
    why,       \* rejection code that made the call restore, or "operator"
    changed,   \* changed_files is not empty
    result,    \* what the last call returned
    start,     \* ghost: the workspace when the last call began
    mutated,   \* ghost: request -> targets it replaced and neither committed
               \* nor finished restoring
    crashes, faults, edits, now

durable  == <<files, temps, rollback, receipt>>
volatile == <<req, pre, snap, next, buf, post, left, why, changed>>
ghosts   == <<start, mutated>>
budget   == <<crashes, faults, edits, now>>
vars     == <<durable, volatile, pc, result, ghosts, budget>>

-----------------------------------------------------------------------------
\* build_rollback_artifact, sealed by seal_rollback_artifact.
RollbackArtifact(r, texts) ==
    [kind |-> "rollback", transaction |-> r.transaction_dir, preimage_texts |-> texts]

\* build_patch_apply_receipt.
Receipt(r, preimages, postimages, artifact) ==
    [kind |-> "receipt", proposal_hash |-> Hash(r.proposal),
     preimage_hashes |-> preimages, postimage_hashes |-> postimages,
     rollback_artifact_hash |-> Hash(artifact)]

NoRequest == [kind |-> "none"]
Empty     == [f \in {} |-> Missing]

\* The dictionary returned by _failure or by a commit (committed: its directory),
\* or how the call ended without one.
Result(status, codes, restored, committed) ==
    [status |-> status, rejection_codes |-> codes, rollback_performed |-> restored,
     committed |-> committed]

NoResult         == Result("none", {}, FALSE, {})
Failure(codes)   == Result("rejected", codes, FALSE, {})

Targets(r) == r.proposal.target_files

\* The section parse_unified_diff's dictionary keeps for f: the last one.
PatchOf(r, f) ==
    LET s == r.proposal.unified_diff.sections
        i == CHOOSE n \in DOMAIN s :
                 s[n].path = f /\ \A m \in DOMAIN s : m > n => s[m].path # f
    IN  s[i].patch

\* read_text followed by apply_file_patch_to_text; a file that is gone or no
\* longer decodes makes read_text raise; its size is not looked at again.
Readable(c) == c # Missing /\ c \notin Undecodable
Patched(r, f, c) == PatchText[PatchOf(r, f)][c]

\* A well-formed diff has a section for every target it lists.
ASSUME PatchAssumption ==
    /\ Mismatch \notin Contents
    /\ PatchText \in [Patches -> [Contents -> Contents \cup {Mismatch}]]
    /\ \A r \in Requests :
           DiffTargets(r.proposal.unified_diff) = Targets(r)
               => \A f \in TargetSet(r) : PatchOf(r, f) \in Patches
-----------------------------------------------------------------------------
\* The call is over: its local variables are gone.
ForgetCall ==
    /\ pc' = "idle"
    /\ req' = NoRequest
    /\ pre' = Empty
    /\ snap' = Empty
    /\ next' = 1
    /\ buf' = Missing
    /\ post' = Empty
    /\ left' = {}
    /\ why' = "none"
    /\ changed' = FALSE

\* A file operation fails; the model bounds how many do.
Fault ==
    /\ faults < MaxFaults
    /\ faults' = faults + 1
    /\ UNCHANGED <<crashes, edits, now>>

Init ==
    /\ files = InitialFiles
    /\ temps = {}
    /\ rollback = [d \in {r.transaction_dir : r \in Requests} |-> Absent]
    /\ receipt = [d \in {r.transaction_dir : r \in Requests} |-> Absent]
    /\ pc = "idle"
    /\ req = NoRequest
    /\ pre = Empty
    /\ snap = Empty
    /\ next = 1
    /\ buf = Missing
    /\ post = Empty
    /\ left = {}
    /\ why = "none"
    /\ changed = FALSE
    /\ result = NoResult
    /\ start = InitialFiles
    /\ mutated = [r \in Requests |-> {}]
    /\ crashes = 0
    /\ faults = 0
    /\ edits = 0
    /\ now = 0

\* No transaction but r's own is interrupted.
OnlyInterrupted(r) == \A s \in Requests \ {r} : mutated[s] = {}

\* The request does not pass validation: nothing but the answer changes.
RejectRequest(r) ==
    /\ pc = "idle"
    /\ RecoverFirst => OnlyInterrupted(r)
    /\ RequestErrors(r, files, now) # {}
    /\ result' = Failure(RequestErrors(r, files, now))
    /\ start' = files
    /\ UNCHANGED <<durable, volatile, pc, mutated, budget>>

\* _target_bytes cannot read a target and raises, outside the loop's try block:
\* the call ends with an exception before it has touched anything.
ValidateFails(r) ==
    /\ pc = "idle"
    /\ RecoverFirst => OnlyInterrupted(r)
    /\ Policy.receipt_required /\ Policy.ledger_event_required
    /\ \E f \in TargetSet(r) \ DeniedPaths : files[f] # Missing
    /\ Fault
    /\ result' = Result("raised", {}, FALSE, {})
    /\ start' = files
    /\ UNCHANGED <<durable, volatile, pc, mutated>>

\* Validation passes: APPROVAL_VERIFIED, PREIMAGE_VERIFIED.  Every target has
\* its approved preimage, so nothing of an earlier attempt is left over.
BeginTransaction(r) ==
    /\ pc = "idle"
    /\ RecoverFirst => OnlyInterrupted(r)
    /\ RequestErrors(r, files, now) = {}
    /\ pc' = "snapshot"
    /\ req' = r
    /\ pre' = [f \in TargetSet(r) |-> Hash(files[f])]
    /\ start' = files
    /\ mutated' = [mutated EXCEPT ![r] = {}]
    /\ result' = NoResult
    /\ UNCHANGED <<durable, snap, next, buf, post, left, why, changed, budget>>

\* _failure without a restore: the call ends, the workspace as it found it.
Reject(code) ==
    /\ ForgetCall
    /\ result' = Failure({code})
    /\ UNCHANGED <<files, temps, receipt, ghosts>>

\* mkdir and build_rollback_artifact read the targets again.
BuildRollback ==
    /\ pc = "snapshot"
    /\ \A f \in TargetSet(req) : Readable(files[f])
    /\ snap' = [f \in TargetSet(req) |-> files[f]]
    /\ pc' = "write_rollback"
    /\ UNCHANGED <<durable, req, pre, next, buf, post, left, why, changed, result, ghosts, budget>>

BuildRollbackFails ==
    /\ pc = "snapshot"
    /\ \/ Fault
       \/ /\ \E f \in TargetSet(req) : ~Readable(files[f])
          /\ UNCHANGED budget
    /\ Reject("ROLLBACK_ARTIFACT_WRITE_FAILED")
    /\ UNCHANGED rollback

\* Mutant of WriteRollback: the artifact stays in memory.
WriteRollbackLater ==
    /\ pc = "write_rollback"
    /\ pc' = "apply"
    /\ UNCHANGED <<durable, volatile, result, ghosts, budget>>

\* rollback.json is written: ROLLBACK_PREPARED, APPLY_STARTED.
WriteRollback ==
    /\ pc = "write_rollback"
    /\ rollback' = [rollback EXCEPT ![req.transaction_dir] = RollbackArtifact(req, snap)]
    /\ pc' = "apply"
    /\ UNCHANGED <<files, temps, receipt, volatile, result, ghosts, budget>>

WriteRollbackFails ==
    /\ pc = "write_rollback"
    /\ Fault
    /\ \E document \in Damaged(rollback[req.transaction_dir]) :
           rollback' = [rollback EXCEPT ![req.transaction_dir] = document]
    /\ Reject("ROLLBACK_ARTIFACT_WRITE_FAILED")

-----------------------------------------------------------------------------
\* Mutant of Restore: the call answers without restoring anything.
RestoreNothing(code) ==
    /\ pc' = "restore"
    /\ why' = code
    /\ left' = {}

\* An exception inside the apply loop or the receipt write: restore everything.
Restore(code) ==
    /\ pc' = "restore"
    /\ why' = code
    /\ left' = DOMAIN snap

\* Mutant of PatchTarget: a hunk whose context differs is not noticed.
PatchTargetUnchecked ==
    LET f == Targets(req)[next]
    IN  /\ pc = "apply"
        /\ next <= Len(Targets(req))
        /\ Readable(files[f])
        /\ buf' = Patched(req, f, files[f])
        /\ temps' = temps \cup {<<f, "apply">>}
        /\ pc' = "replace"
        /\ UNCHANGED <<files, rollback, receipt, req, pre, snap, next, post, left, why, changed,
                       result, ghosts, budget>>

\* One turn of the loop, up to the temporary file: read the target again,
\* patch the text, write <name>.<transaction_id>.tmp.
PatchTarget ==
    LET f == Targets(req)[next]
    IN  /\ pc = "apply"
        /\ next <= Len(Targets(req))
        /\ Readable(files[f])
        /\ Patched(req, f, files[f]) # Mismatch
        /\ buf' = Patched(req, f, files[f])
        /\ temps' = temps \cup {<<f, "apply">>}
        /\ pc' = "replace"
        /\ UNCHANGED <<files, rollback, receipt, req, pre, snap, next, post, left, why, changed,
                       result, ghosts, budget>>

\* The turn raises before the temporary file exists: the hunk does not match
\* or the target cannot be read.
PatchTargetFails ==
    LET f == Targets(req)[next]
    IN  /\ pc = "apply"
        /\ next <= Len(Targets(req))
        /\ \/ /\ Readable(files[f])
              /\ Patched(req, f, files[f]) = Mismatch
              /\ Restore("HUNK_CONTEXT_MISMATCH")
              /\ UNCHANGED budget
           \/ /\ ~Readable(files[f])
              /\ Restore("PATCH_APPLY_WRITE_FAILED")
              /\ UNCHANGED budget
           \/ /\ Fault
              /\ Restore("PATCH_APPLY_WRITE_FAILED")
        /\ UNCHANGED <<durable, req, pre, snap, next, buf, post, changed, result, ghosts>>

\* temp_path.replace(path); changed_files.append(target).
ReplaceTarget ==
    LET f == Targets(req)[next]
    IN  /\ pc = "replace"
        /\ files' = [files EXCEPT ![f] = buf]
        /\ temps' = temps \ {<<f, "apply">>}
        /\ mutated' = [mutated EXCEPT ![req] = @ \cup {f}]
        /\ changed' = TRUE
        /\ next' = next + 1
        /\ pc' = "apply"
        /\ UNCHANGED <<rollback, receipt, req, pre, snap, buf, post, left, why, result, start, budget>>

\* The write of the temporary file, or the replace, raises: the file stays.
ReplaceTargetFails ==
    /\ pc = "replace"
    /\ Fault
    /\ Restore("PATCH_APPLY_WRITE_FAILED")
    /\ UNCHANGED <<durable, req, pre, snap, next, buf, post, changed, result, ghosts>>

\* Mutant of ReadPostimages: hashes the texts in memory instead of the files.
ReadPostimagesOfSnapshot ==
    /\ pc = "apply"
    /\ next > Len(Targets(req))
    /\ post' = [f \in TargetSet(req) |-> Hash(snap[f])]
    /\ pc' = "write_receipt"
    /\ UNCHANGED <<durable, req, pre, snap, next, buf, left, why, changed, result, ghosts, budget>>

\* APPLY_COMPLETED, then the postimages are read: POSTIMAGE_VERIFIED.
ReadPostimages ==
    /\ pc = "apply"
    /\ next > Len(Targets(req))
    /\ \A f \in TargetSet(req) : files[f] # Missing
    /\ post' = [f \in TargetSet(req) |-> Hash(files[f])]
    /\ pc' = "write_receipt"
    /\ UNCHANGED <<durable, req, pre, snap, next, buf, left, why, changed, result, ghosts, budget>>

\* An exception nobody catches: the call ends without an answer.
Raise ==
    /\ ForgetCall
    /\ result' = Result("raised", {}, FALSE, {})

\* The postimage read is outside every try block.
ReadPostimagesFails ==
    /\ pc = "apply"
    /\ next > Len(Targets(req))
    /\ \/ Fault
       \/ /\ \E f \in TargetSet(req) : files[f] = Missing
          /\ UNCHANGED budget
    /\ Raise
    /\ UNCHANGED <<durable, ghosts>>

\* Mutant of WriteReceipt: the artifact is built again for its hash.
WriteReceiptRebuilt ==
    /\ pc = "write_receipt"
    /\ receipt' = [receipt EXCEPT ![req.transaction_dir] =
                      Receipt(req, pre, post,
                              RollbackArtifact(req, [f \in TargetSet(req) |-> files[f]]))]
    /\ mutated' = [mutated EXCEPT ![req] = {}]
    /\ pc' = "return"
    /\ UNCHANGED <<files, temps, rollback, volatile, result, start, budget>>

\* receipt.json is written: RECEIPT_WRITTEN, COMMITTED_LOCAL_TRANSACTION.
WriteReceipt ==
    /\ pc = "write_receipt"
    /\ receipt' = [receipt EXCEPT ![req.transaction_dir] =
                      Receipt(req, pre, post, RollbackArtifact(req, snap))]
    /\ mutated' = [mutated EXCEPT ![req] = {}]
    /\ pc' = "return"
    /\ UNCHANGED <<files, temps, rollback, volatile, result, start, budget>>

WriteReceiptFails ==
    /\ pc = "write_receipt"
    /\ Fault
    /\ \E document \in Damaged(receipt[req.transaction_dir]) :
           receipt' = [receipt EXCEPT ![req.transaction_dir] = document]
    /\ Restore("RECEIPT_WRITE_FAILED")
    /\ UNCHANGED <<files, temps, rollback, req, pre, snap, next, buf, post, changed, result, ghosts>>

\* The answer is assembled; bytes_changed reads the targets once more.
ReturnSuccess ==
    /\ pc = "return"
    /\ \A f \in TargetSet(req) : files[f] # Missing
    /\ ForgetCall
    /\ result' = Result("success", {}, FALSE, {req.transaction_dir})
    /\ UNCHANGED <<durable, ghosts, budget>>

ReturnFails ==
    /\ pc = "return"
    /\ \/ Fault
       \/ /\ \E f \in TargetSet(req) : files[f] = Missing
          /\ UNCHANGED budget
    /\ Raise
    /\ UNCHANGED <<durable, ghosts>>
-----------------------------------------------------------------------------
\* Mutant of RestoreTarget: the loop does not advance.
RestoreTargetAgain ==
    /\ pc = "restore"
    /\ \E f \in left :
           /\ files' = [files EXCEPT ![f] = snap[f]]
           /\ temps' = temps \ {<<f, "rollback">>}
    /\ UNCHANGED <<rollback, receipt, pc, req, pre, snap, next, buf, post, left, why, changed,
                   result, ghosts, budget>>

\* One turn of restore_rollback_artifact: <name>.rollback.tmp, then replace.  The
\* order is the dictionary's: target_files in a running call, sorted once the
\* artifact has been through rollback.json.  The model allows any order.
RestoreTarget ==
    /\ pc = "restore"
    /\ \E f \in left :
           /\ files' = [files EXCEPT ![f] = snap[f]]
           /\ temps' = temps \ {<<f, "rollback">>}
           /\ left' = left \ {f}
    /\ UNCHANGED <<rollback, receipt, pc, req, pre, snap, next, buf, post, why, changed,
                   result, ghosts, budget>>

\* Mutant of FinishRestore: the loop stops after any target.
FinishRestoreEarly ==
    /\ pc = "restore"
    /\ ForgetCall
    /\ mutated' = [mutated EXCEPT ![req] = {}]
    /\ result' = IF why = "operator"
                 THEN Result("restored", {}, FALSE, {})
                 ELSE Result("rejected", {why}, changed \/ why = "RECEIPT_WRITE_FAILED", {})
    /\ UNCHANGED <<durable, start, budget>>

\* ROLLBACK_COMPLETED: the transaction answers _failure(...), an operator's
\* restore simply returns.
FinishRestore ==
    /\ pc = "restore"
    /\ left = {}
    /\ ForgetCall
    /\ mutated' = [mutated EXCEPT ![req] = {}]
    /\ result' = IF why = "operator"
                 THEN Result("restored", {}, FALSE, {})
                 ELSE Result("rejected", {why}, changed \/ why = "RECEIPT_WRITE_FAILED", {})
    /\ UNCHANGED <<durable, start, budget>>

\* A failing restore propagates: some targets are restored, some are not.
RestoreFails ==
    /\ pc = "restore"
    /\ Fault
    /\ \E f \in left : temps' \in {temps, temps \cup {<<f, "rollback">>}}
    /\ Raise
    /\ UNCHANGED <<files, rollback, receipt, ghosts>>

\* The operator may undo a commit whose postimages are still in place.
Undoable(r) ==
    LET d == r.transaction_dir
    IN  /\ Intact(receipt[d])
        /\ \A f \in TargetSet(r) : receipt[d].postimage_hashes[f] = Hash(files[f])

\* restore_rollback_artifact on the rollback.json of r, to recover from an
\* interrupted transaction or to undo a commit.
OperatorRestore(r) ==
    LET document == rollback[r.transaction_dir]
    IN  /\ pc = "idle"
        /\ Intact(document)
        /\ mutated[r] # {} \/ Undoable(r)
        /\ RecoverFirst => OnlyInterrupted(r)
        /\ pc' = "restore"
        /\ req' = r
        /\ snap' = document.preimage_texts
        /\ left' = DOMAIN document.preimage_texts
        /\ why' = "operator"
        /\ mutated' = [mutated EXCEPT ![r] = TargetSet(r)]
        /\ start' = files
        /\ result' = NoResult
        /\ UNCHANGED <<durable, pre, next, buf, post, changed, budget>>
-----------------------------------------------------------------------------
\* What an interrupted write leaves behind in the documents and beside a target.
Debris ==
    \/ /\ pc = "write_rollback"
       /\ rollback' = [rollback EXCEPT ![req.transaction_dir] = Torn]
       /\ UNCHANGED <<temps, receipt>>
    \/ /\ pc = "write_receipt"
       /\ receipt' = [receipt EXCEPT ![req.transaction_dir] = Torn]
       /\ UNCHANGED <<temps, rollback>>
    \/ /\ pc = "restore"
       /\ \E f \in left : temps' = temps \cup {<<f, "rollback">>}
       /\ UNCHANGED <<rollback, receipt>>
    \/ UNCHANGED <<temps, rollback, receipt>>

\* The process dies between two steps, or in the middle of a write.
Crash ==
    /\ pc # "idle"
    /\ crashes < MaxCrashes
    /\ crashes' = crashes + 1
    /\ Debris
    /\ ForgetCall
    /\ result' = Result("crashed", {}, FALSE, {})
    /\ UNCHANGED <<files, ghosts, faults, edits, now>>

\* Somebody else writes or deletes a workspace file.
Edit(f, c) ==
    /\ edits < MaxEdits
    /\ files[f] # c
    /\ edits' = edits + 1
    /\ files' = [files EXCEPT ![f] = c]
    /\ UNCHANGED <<temps, rollback, receipt, volatile, pc, result, ghosts, crashes, faults, now>>

\* Time passes; approvals expire.
Tick ==
    /\ now < MaxTime
    /\ now' = now + 1
    /\ UNCHANGED <<durable, volatile, pc, result, ghosts, crashes, faults, edits>>

\* The steps of the running call.
Step ==
    \/ BuildRollback \/ BuildRollbackFails \/ WriteRollback \/ WriteRollbackFails
    \/ PatchTarget \/ PatchTargetFails \/ ReplaceTarget \/ ReplaceTargetFails
    \/ ReadPostimages \/ ReadPostimagesFails \/ WriteReceipt \/ WriteReceiptFails
    \/ ReturnSuccess \/ ReturnFails
    \/ RestoreTarget \/ FinishRestore \/ RestoreFails

Next ==
    \/ \E r \in Requests :
           RejectRequest(r) \/ ValidateFails(r) \/ BeginTransaction(r) \/ OperatorRestore(r)
    \/ Step
    \/ Crash
    \/ \E f \in Files, c \in Contents \cup {Missing} : Edit(f, c)
    \/ Tick

Spec == Init /\ [][Next]_vars

\* A running call is a Python function on a live process: it keeps going.
FairSpec == Spec /\ WF_vars(Step)
-----------------------------------------------------------------------------
Dirs     == {r.transaction_dir : r \in Requests}
Texts    == {Empty} \cup UNION {[TargetSet(r) -> Contents] : r \in Requests}
Hashes   == {Empty} \cup UNION {[TargetSet(r) -> {Hash(c) : c \in Contents}] : r \in Requests}
Locations == {"idle", "snapshot", "write_rollback", "apply", "replace",
              "write_receipt", "return", "restore"}

RollbackArtifacts ==
    [kind : {"rollback"}, transaction : Dirs, preimage_texts : Texts]
Receipts ==
    [kind : {"receipt"}, proposal_hash : {Hash(r.proposal) : r \in Requests},
     preimage_hashes : Hashes, postimage_hashes : Hashes,
     rollback_artifact_hash : {Hash(x) : x \in RollbackArtifacts}]

\* Every variable keeps its type.
TypeOK ==
    /\ files \in [Files -> Contents \cup {Missing}]
    /\ temps \subseteq Files \X {"apply", "rollback"}
    /\ rollback \in [Dirs -> RollbackArtifacts \cup {Absent, Torn}]
    /\ receipt \in [Dirs -> Receipts \cup {Absent, Torn}]
    /\ pc \in Locations
    /\ req \in Requests \cup {NoRequest}
    /\ pre \in Hashes
    /\ snap \in Texts
    /\ next \in Nat \ {0}
    /\ buf \in Contents \cup {Missing}
    /\ post \in Hashes
    /\ left \subseteq Files
    /\ changed \in BOOLEAN
    /\ result.status \in {"none", "rejected", "raised", "crashed", "restored", "success"}
    /\ start \in [Files -> Contents \cup {Missing}]
    /\ mutated \in [Requests -> SUBSET Files]
    /\ <<crashes, faults, edits, now>> \in Nat \X Nat \X Nat \X Nat

-----------------------------------------------------------------------------
(* Safety.                                                                 *)

\* The content the approved proposal expects to find in target f.
ApprovedPreimage(r, f, c) ==
    /\ f \in DOMAIN r.proposal.target_file_hashes
    /\ r.proposal.target_file_hashes[f] = Hash(c)

\* As long as a transaction has replaced a target and has neither committed
\* nor been restored, the rollback.json in its directory is whole and covers
\* every target: whatever crashes, fails or is edited, transaction.py writes
\* the rollback artifact before the first replace and never damages it later.
RollbackBeforeMutation ==
    \A r \in Requests :
        LET document == rollback[r.transaction_dir]
        IN  mutated[r] # {} =>
                Intact(document) /\ DOMAIN document.preimage_texts = TargetSet(r)

\* With no edits by others, that rollback.json moreover holds the preimages
\* the human approved: a retry after a crash is refused by the preimage check
\* of policy.py and cannot replace the artifact by one of a half-applied state.
Recoverable ==
    \A r \in Requests :
        LET document == rollback[r.transaction_dir]
        IN  mutated[r] # {} =>
                /\ Intact(document)
                /\ \A f \in TargetSet(r) : ApprovedPreimage(r, f, document.preimage_texts[f])

\* A call that answers REJECTED_FAIL_CLOSED, which reports
\* workspace_mutation_performed = False, leaves every workspace file as the
\* call found it, at whatever step and for whatever reason it gave up.
RejectedMeansUntouched ==
    result.status = "rejected" => files = start

\* A SUCCESS answer comes with a receipt.json and a rollback.json that belong
\* together: the receipt names the hash of the artifact on disk.
ReceiptBindsRollback ==
    \A d \in result.committed :
        /\ Intact(receipt[d])
        /\ Intact(rollback[d])
        /\ receipt[d].rollback_artifact_hash = Hash(rollback[d])

\* A SUCCESS answer tells the truth about the workspace: each target holds the
\* content whose hash the receipt gives as postimage.
ReceiptMatchesWorkspace ==
    \A d \in result.committed : \A f \in DOMAIN receipt[d].postimage_hashes :
        receipt[d].postimage_hashes[f] = Hash(files[f])

\* The preimages a SUCCESS answer reports are the ones rollback.json restores
\* (tests/patch_apply/test_patch_apply_transaction.py, line 43).
ReportedPreimagesAreRestorable ==
    \A d \in result.committed : \A f \in DOMAIN receipt[d].preimage_hashes :
        receipt[d].preimage_hashes[f] = Hash(rollback[d].preimage_texts[f])

\* A rejected call, reporting workspace_mutation_performed = False, leaves no
\* temporary file in the workspace either.
RejectedLeavesNoDebris ==
    result.status = "rejected" /\ crashes = 0 => temps = {}

\* Until somebody else writes to the workspace, a file only ever changes by a
\* transaction whose human approval is
\* bound to exactly this proposal and this workspace and lists the file, and
\* only to what the proposal's diff makes of it or back to the preimage the
\* approval was given for.
OnlyApprovedWrites ==
    [][\A f \in Files : edits' = 0 /\ files'[f] # files[f] =>
          LET approval == req.approval_packet
          IN  /\ pc # "idle"
              /\ approval.present
              /\ approval.proposal_hash = Hash(req.proposal)
              /\ approval.workspace_root_hash = Hash(Workspace)
              /\ f \in {approval.target_files[i] : i \in DOMAIN approval.target_files}
              /\ f \notin DeniedPaths
              /\ \/ ApprovedPreimage(req, f, files'[f])
                 \/ files'[f] = Patched(req, f, files[f])]_files

(* Liveness.                                                               *)

\* A call ends, by an answer, an exception or the death of its process.
CallEnds == pc # "idle" ~> pc = "idle"
=============================================================================
