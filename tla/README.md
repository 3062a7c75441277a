# TLA+ models of runtime-lab-core

runtime-lab-core is a local, supervised "agent loop": it reads context from a
repository, records a patch proposal, waits for a human approval packet, applies
the approved patch in a transaction that can be rolled back, runs an allowlisted
test, and leaves hash-bound receipts behind. This directory holds TLA+ models of
it, TLC configurations that check them on small instances, and TLAPS proofs.

Paths below are relative to the repository (`runtime_lab/...`, `tests/...`).

## 1. Inventory

| Component | State it keeps | Operations | Talks to | What makes it correct |
|---|---|---|---|---|
| `patch_apply` | the workspace files, temporary files beside them, `rollback.json` and `receipt.json` of a transaction directory | `validate_patch_apply_request`, `apply_patch_transaction`, `restore_rollback_artifact` | called by `agent_loop`; recovered by an operator | all targets or none; a half-applied workspace can always be restored; answers and receipts tell the truth; only approved content is written |
| `patch_proposal` | `patch_proposals/<id>.json` in a run directory | `create_patch_proposal_artifact` | called by `agent_loop`; a human approves the artifact's hash | the artifact that is approved is the one that is applied |
| `agent_loop` | run directory: artifacts, `replay_manifest.json`, `final_report.json`, `agent_loop_receipt.json` | `validate_agent_loop_request`, `run_agent_loop`; transition log, ledger events, replay manifest | calls `repo_context`, `patch_proposal`, `patch_apply`, `test_runner` | picks the approved artifact; never commits an unapproved one; reports what it did; its documents agree |
| `test_runner` | none (child process, time-out, receipts) | `run_allowlisted_test` | called by `agent_loop` | outcome classification, output limits |
| `repo_context` | none (reads the workspace) | `list_files`, `read_file`, `grep` | called by `agent_loop` | limits are kept, truncation is reported |
| `llm_provider` | none | one guarded network call | not called by default | nothing is sent unless every gate is open |
| `authority`, `admission`, `workspace`, `artifact_store` | none: they return immutable packets and receipts | build, evaluate, verify | a chain: each verifies the documents of the one before | a receipt accepted at one stage was issued for the same subject at every earlier stage |
| `executor` | one text file in a workspace | `execute_write_text_artifact` | presents packet, transaction and artifact receipts | what is written was authorised and is what the receipt says; it should lie inside the workspace and the task's roots |
| `ledger`, `replay`, `spine` | none: ledgers are values that callers keep | `append_event`, `validate_ledger_chain`, `replay_ledger_chain`, `seal_unified_local_spine` | consume the receipts of the chain above | an altered ledger is noticed; only the evidence of one run is sealed; what a replay accepts is sealed |
| `descriptors` | none: payloads and receipts that callers keep | schema, descriptor and contract validation; dry run; no-op bridge, ledger, replay audit, tamper matrix | `authority` and `admission` hash and check the same payloads | both paths agree on a payload; what was altered in between is noticed |
| `kernel20`, `common` | static tables; JSON and hashing helpers | coverage report; hashing | everyone | - |

Three kinds of behaviour are hard to test. In the first three rows, a transaction
takes several file operations, any of which may fail or be the last one before the
process dies; recovery is a separate call at a later time; a request may be repeated;
the workspace may be edited between two reads of it; run directories and approvals are
used again. In the executor, two calls may write one path and die in between, and a link may
change between its check and its write. In the
chains of receipts, every function is pure and correct on what its test hands it, and
the question is what callers can put together: genuine documents of different tasks,
receipts of refusals, old copies, forks, and documents altered and hashed again.
`PROJECT.json` lists each such hazard at its line, with the property that covers it or
the reason why none does.

## 2. Plan

1. `PatchApply`, its policy, abstract specification and first proofs: **done**.
2. `AgentLoop` and its policy, with transition log and ledger: **done**.
3. The hunk engine against a reference definition (`DiffApply`): **done**.
4. The executor chain (`Descriptors`, `Authority`, `Workspace`, `ArtifactStore`,
   `Executor`, `BoundedWrite`) and the no-op chain (`NoopChain`): **done**.
5. The evidence chain (`LedgerChain`, `Ledger`, `Replay`, `Spine`) and its composition
   with the executor (`WriteEvidence`): **done**.
6. Theorems: every safety property of the passing runs, and the refinement `AllOrNothing`:
   **done** (section 5). What is left to TLC is liveness.

## 3. Modules

| Module | Models |
|---|---|
| `Documents` | what the components share: collision-free hashes, rejection codes, JSON documents that may be absent or truncated |
| `PatchApplyPolicy` | `patch_apply/policy.py`, `approval.py`, `path_policy.py`: the set of rejection codes of a request against a workspace at a time |
| `PatchApply` | `patch_apply/transaction.py`, `rollback.py`, step by step |
| `AtomicPatch` | the contract of `patch_apply`: a workspace that changes by whole transactions |
| `PatchApplyAtomic` | the refinement mapping from `PatchApply` to `AtomicPatch` |
| `AgentLoopPolicy` | `agent_loop/policy.py`, `authority.py`, `state_machine.py` |
| `AgentLoop` | `agent_loop/supervisor.py` with `patch_proposal/artifacts.py` and the documents of `agent_loop`, over the contract of `patch_apply` |
| `DiffApply` | `patch_apply/diff_apply.py`: `apply_file_patch_to_text`, with the reading and writing around it |
| `Paths` | the path rules of `workspace`, which `executor` and `spine` repeat |
| `Descriptors` | `descriptors/schema.py`, `validator.py`, `canonical.py`, `spine_contract.py`, `spine_adapter.py`, `kernel20/coverage.py` |
| `Authority` | `authority/packet.py`, `verify.py`, `admission/` |
| `Workspace`, `ArtifactStore` | `workspace/__init__.py`, `artifact_store/__init__.py` |
| `Executor` | `executor/__init__.py`: the checks of a request and the receipt, over the four above |
| `BoundedWrite` | its steps over the workspace, with callers, their documents and links |
| `NoopChain` | `descriptors/noop_*.py` with admission |
| `LedgerChain`, `Ledger` | `ledger/__init__.py`: the operators, and holders of copies |
| `Replay`, `Spine` | `replay/__init__.py`; `spine/__init__.py`, composed with the ledger and the replay |
| `WriteEvidence` | `BoundedWrite` composed with the ledger |
| `PatchApplyProofs`, `AgentLoopProofs`, `BoundedWriteProofs`, `NoopChainProofs`, `LedgerProofs`, `SpineProofs`, `DiffApplyProofs` | theorems about the module they are named after (`PatchApplyProofs` also has the refinement) |
| `SharedLemmas` | induction over the naturals and the unfolding of recursive functions in the form the provers can use; what a valid chain of events is, for any length |
| `MC*` | small instances for TLC |

### PatchApply

`files`, `temps`, `rollback` and `receipt` are durable; `pc` and the variables next to
it are the locals of the call in progress and vanish when it ends or the process
dies. One action stands for each file operation of `apply_patch_transaction`, with
the computation up to the next one:

| Action | Code (`transaction.py`) |
|---|---|
| `RejectRequest`, `ValidateFails`, `BeginTransaction` | validation, 72-82 |
| `BuildRollback(Fails)`, `WriteRollback(Fails)` | snapshot and `rollback.json`, 84-99 |
| `PatchTarget(Fails)`, `ReplaceTarget(Fails)` | one round of the loop: read, patch, write the temporary file; `replace` |
| `Restore`, `RestoreTarget`, `FinishRestore`, `RestoreFails` | `restore_rollback_artifact` from an exception handler, `rollback.py` 36-42 |
| `ReadPostimages(Fails)`, `WriteReceipt(Fails)`, `ReturnSuccess`, `ReturnFails` | postimage hashes, `receipt.json`, the answer |
| `OperatorRestore` | an operator's call of `restore_rollback_artifact` |
| `Crash`, `Edit`, `Tick`, `Fault` | the environment |

Data that decides nothing is abstracted: a content is a name, a hunk is a function on
contents (`PatchText`) that may raise `Mismatch`, a hash is an injective operator.
`mutated` and `start` are history variables. A write that is cut short leaves a
truncated document (`Torn`), which no reader accepts.

### AgentLoop

Calls of `run_agent_loop` follow one another and share the workspace, the run
directories and the approvals. A transaction of `patch_apply` is one step: by
`AllOrNothing` the image that `rollback.json` can restore changes that way, and
`workspace` is that image, so a transaction that is interrupted or whose rollback
fails leaves it alone. `Approve` is a human signing a packet for an artifact on disk;
`Undo` is an operator restoring a commit. The proposal artifact has two hashes, as in
the code: without its receipt (what `create_patch_proposal_artifact` returns) and
with it (what an approval names), and it holds the redacted diff beside the hash of
the diff before redaction. `LoadOwn`, `LoadApproved`, `LoadRaises`, `CreateProposal(Fails)`
and `RejectProposal` are the branches of `_create_or_load_proposal`; the search through
sibling directories stops at the first approved or truncated artifact. The transition
log (`TransitionPairs`, `TransitionLog`) is the list of states it passes through, computed
from the request before any step, as in the code; the ledger is the list of receipt hashes
with `EventHash` chaining them, built once for the manifest and once more, one event
longer, for the answer. A request's flags that reject it by themselves are the set of
codes they raise. The test process is assumed not to write to the workspace.

### DiffApply

A file is a sequence of lines, each a text and the way it ends (LF, CRLF, one of the other
separators of `splitlines`, or not at all for the last). `ReadText` is what `read_text` makes of
it (CRLF becomes LF, the other separators stay), `Joined` what `join` writes. `Cursor` and
`CursorInHunk` are the two loops of `apply_file_patch_to_text` as recursive functions, over
`ApplyHunk` and `ApplyLine`; a cursor has what was put out, the position in the original and
the code that was raised. `old_count`, `new_start` and `new_count` of a header are parsed and
never checked by the code, so a hunk is its `old_start` and its lines. `AppliedAsWritten` states the
result by position, without the cursor: `Side` is what a hunk says of the file before or
after it, `Fits` that every old side stands at its header, `Replaced` the original with the old
sides replaced. It speaks of patches in which every hunk keeps or removes a line. A hunk that
only adds has a header `-N,0`, which in a unified diff means "after line N"; the code places it
before line N and refuses N = 0. `AdditionsFollowTheirLine` states the meaning of the format, and
`additions.cfg` shows the disagreement. `ReversePatch` exchanges the sides and moves each header by
what the hunks before it have added or removed (`Moved`), in the code's reading of headers.

### Executor, BoundedWrite and the modules they compose

A payload is a record of the fields the checks read, each with the few values they tell
apart. A packet, transaction receipt or artifact receipt is a body and a hash. `Hash` is
injective but has no key: a receipt altered where it is kept (`AlterTransaction`: paths, denied
paths, roots of any task; `AlterArtifact`: the text) comes back with its old hash or with that
of the new body. `issued` remembers the transaction receipts as they were returned.
`IssuePacket`, `BeginTransaction` and `StoreArtifact` are the calls that make documents, refused
ones included, as the code hashes those too.

| Action | Code (`execute_write_text_artifact`) |
|---|---|
| `Execute` | the ladder of checks (`RequestAccepted`), and the comparison of the resolved target with the root |
| `OpenTarget`, `WriteText` | `mkdir` and `write_text`, which follow the links again: open and truncate, then write |
| `ReturnReceipt` | the receipt, made from the request |
| `StoppedBeforeOpen`, `Interrupted` | an `OSError` or a crash before the file is open, or later |
| `Relink` | somebody else changes where `LinkedDirectory` leads, at any moment |

A file is the set of texts that its bytes come from and whether the last write was ended, since
calls that have it open together write over each other. A path is a sequence of segments, so
that `./x` and `x` are two spellings of one file; `ResolvedIn` stands for `Path.resolve`. All callers
name one workspace root, and `mkdir` changes nothing that is modelled. `artifact_type` stands for
type and media type together. `descriptor_hash` leaves out derived names at every depth; payloads
that differ only in nested ones are one payload here.

### NoopChain

A payload goes through admission and through dry run, bridge, ledger, audit and tamper
matrix. The receipts kept between two stages are variables that somebody may alter
(`AlterBridge`, `AlterLedger`). The rejection codes are sets; each stage renames those of the
one before through its table, as the code does, since losing a code on the way is one of
the hazards.

### LedgerChain, Ledger, Replay, Spine

`LedgerChain` has `append_event` and `validate_ledger_chain` with every check and the order of
codes. The code persists no ledger: `Ledger` lets holders keep copies, pass them on,
truncate, edit and mix them, which is the environment, and append to whatever they hold.
`Replay` lists the bindings of `_graph_hash_errors` and `_event_binding_errors` as tables
(`NODE_BINDINGS`, `HASH_FIELDS`) and requires them with one quantifier; a field that a node does
not have is not compared, as in the code.

A receipt graph consists of nodes that callers make of the receipts of runs (`NodesOf`): the
receipts as they are returned do not pass, because the replay looks for a `receipt_hash` that an
authority packet does not have, the descriptor hash lacks the prefix that the ledger wants
(finding 3), and no component makes a validation receipt. `Graphs` has every combination of
nodes, each kind from any run, with or without a validation receipt. `Combinations` adds what the caller
expects of them and leaves out what the replay refuses whatever the ledger is. `Spine` records events
of several runs in one ledger, replays it, restores older copies, and seals with any combination,
admission receipt and demand and with a replay receipt as it was returned or changed in any of its
three ledger fields, with the old hash or a new one (`Presented`). Rejection codes of replay and
seal are abstracted to a refusal (`REPLAY_TASK_BINDING_MISMATCH` has no entry in
`REPLAY_TO_SPINE_REJECTION` and is reported as an invalid ledger; the seal is refused all
the same). One seal per behaviour: sealing changes nothing, so that a second one is a
second behaviour. `MCSpine` builds the receipts of its runs with the operators of `Executor` and
`Authority`, checks with `ASSUME`s that the executor accepts them and which hashes they share and
name, and gives each hash a short name; some nodes lack optional fields, and two are receipts as they
were returned.

## 4. Runs

Every bound is a constant of the configuration. The number of calls is not bounded in
`PatchApply` and `AgentLoop`. Deadlock is not checked where standing still is what the
system does: when every request has been refused or the budgets of the environment are
used up, after the seal (`Spine`), after the last stage (`NoopChain`), when every caller has
called (`BoundedWrite`), and when a file has outgrown `MaxLines` (`DiffApply`). `ledger`
checks it: a copy can always be passed on.

| Run | Shows | Instance | States |
|---|---|---|---|
| `transaction` | `TypeOK`, `Recoverable`, `RollbackBeforeMutation`, `RejectedMeansUntouched`, `ReceiptMatchesWorkspace`; `AllOrNothing` (refinement); `CallEnds` (liveness) | four approved requests (two files, one of these with another patch, a file listed twice, the inverse), two crashes, one failing operation; operators recover an interrupted transaction first | 149,120 |
| `policy` | `OnlyApprovedWrites`, `ReceiptBindsRollback` | two good requests and requests wrong in one place each, while approvals expire and somebody writes, deletes or spoils a file | 15,631 |
| `loop` | `ApprovedArtifactChosen`, `PerformedMeansApplied`, `RejectedBeforeTestsUntouched` | two run directories with different proposals under one identifier, callers with and without authority, reuse of directories, a crash | 483,961 |
| `loop_live` | `TypeOK`, `CommitsAreApproved`, `SuccessDocumentsAgree`; `LoopEnds` (liveness) | one directory: context reads, tests, a diff that does not fit, a second identifier, no proposal, refused requests; a failing operation and an edit | 210,490 |
| `diff_apply` | `TypeOK`, `AppliedAsWritten`, `ReversePatchRestores` | files of up to two lines with every line end, patches of one or two small hunks with headers from 0 to past the end, patched again | 501,347 |
| `bounded_write` | `TypeOK`, `WrittenAsAuthorised`, `SoleWriterReceiptHolds` | two callers, four documents of two tasks, genuine, refused or altered, with old and new hashes; two spellings of a path; a link that leads to another path or out of the workspace, changed once | 299,661 |
| `noop` | `TypeOK`, `DryRunAgreesWithAdmission`, `AuditSeesWhatWasBound`, `ForbiddenEffectsNamed`, `AuditedLedgersPassMatrix` | payloads that are right or wrong in one or two places, alterations of kept receipts | 50,535 |
| `ledger` | `TypeOK`, `AppendedLedgersValidate`, `AnchoredLedgerIsTheAppended`, `SharedEventSharedHistory` | two holders, three events, two alterations | 136,672 |
| `spine` | `TypeOK`, `SealedEvidenceOfOneRun`, `SealedOnReplayOfThisLedger`, `AcceptedReplayIsSealed` | three runs of two tasks, one after a refused admission; every combination of their receipts; two event types, a ledger of two events | 5,172 |
| `test_refused` | finding 1 | the test runner refuses after the commit | - |
| `prepared` | finding 2 | the receipt of a rejected transaction | - |
| `recorded` | finding 3 | a genuine write and the event that would record it | - |

Why the bounds are enough: two files give every partial state of a transaction
(none, one, both replaced); two crashes let a recovery be interrupted and resumed;
one failing operation at any step, combined with a crash at any other, covers
failure during rollback; two run directories are enough for the approved artifact to
lie before, after or in the run's own. Edits are separate because several promises
hold only without them, and say so. Two lines and two hunks give a hunk before, at and
past the end, and hunks that touch, overlap and stand in the wrong order. Two callers
and four documents give a write with a whole set of documents and a second set that
shares some of them, or one in which a receipt was altered; one change of the link, at any
moment, separates the check of a call from its write. A ledger of three events has an event to change with one before
and one after it. In `spine` the choice among the parts of the request is large and
the histories are short: the last event, an older copy and a replay of either.

Fairness. `FairSpec` adds weak fairness of `Step`, the steps of the call in progress:
a Python function on a live process goes on. Nothing is assumed of callers, humans,
operators or the environment. The remaining modules are about functions that return at
once and state no liveness. Every loop of the code is bounded by its data and the
test runner has a time-out, so a step that is possible is taken.

## 5. Proofs

`tlapm` proves every safety property that a passing run checks, for arbitrary files,
contents, patches, requests, payloads, holders, runs and bounds. The bounds of the
configurations play no part in it: crashes, faults, alterations, callers, events, copies,
lines and hunks may be any number.

### Assumptions

Each module states what it assumes of its constants, and TLC evaluates it on every
instance. `PolicyAssumption`, `RequestsAssumption`, `PatchAssumption`, `BoundsAssumption`:
contents are not `Missing` or `Mismatch`, distinct requests have distinct directories, a
well-formed diff has a section per target. `LoopAssumption`, `LoopPolicyAssumption`: the
same for the loop, and the types of the policy. `DiffApplyAssumption`: a file is a sequence of
lines of which only the last may have no end; a patch is what `parse_unified_diff` yields, with
at least one hunk, at least one line in each, and a natural number in the header; nothing is
assumed of the order of the hunks or of whether they fit. `LedgerAssumption`: bounds are naturals.
`NoopAssumption`: a payload has the fields of its abstraction, and a field that is not there
lacks and says nothing. `RunsAssumption` (`Spine`) is about executor nodes only: a node that callers
make of a run's executor receipt has its task, its hash and the three receipt hashes that
`_executor_receipt` puts into it. Nothing is assumed of the other kinds of nodes, which may lack
any field or say anything, nor of which hashes two runs share. `BoundsAssumption` (`BoundedWrite`):
bounds are naturals. `Hash` is an injective constructor: two documents with one hash are the same.
No hash is keyed, and nothing assumes that a document with a right hash is one that was issued.

Several promises hold only until somebody else writes to the workspace. Their theorems say
so in the formula, `[](edits = 0 => P)`, for any `MaxEdits`: they also cover the time before
the first edit of a behaviour that has some. The runs check `P` with `MaxEdits = 0`.

### PatchApply

- `RollbackBeforeMutationHolds`, `TypeCorrect`. The invariant is not inductive: it says
  nothing of the call that is about to replace a target. `IndInv` adds what the call knows:
  the directory of a request holds only artifacts of that request over its targets
  (`DocumentsInv`); from the write of `rollback.json` on, the one on disk is the one in
  memory (`CallInv`); and a call that is about to overwrite `rollback.json` has nothing
  mutated, because a retry over a half-applied workspace did not get past validation or
  mutated nothing (`MutatedInv`).
- `RecoverableHolds`: `ApprovedInv` adds that every usable artifact holds approved preimages,
  which the preimage check established when the call began and which nothing changes before
  the snapshot.
- `RejectedMeansUntouchedHolds`: `UntouchedInv` follows how far the call has moved the workspace
  from where it found it, and back.
- `ReceiptBindsRollbackHolds` (edits or not) and `ReceiptMatchesWorkspaceHolds`: `CommittedInv` and
  `PostimagesInv` carry the binding from the read of the postimages to the next call.
- `OnlyApprovedWritesHolds`: `AuthorisedInv` says that the running call and whoever left a usable
  `rollback.json` were authorised, `PatchedInv` that the temporary file holds the patched text
  of the file it is about to replace.
- `AllOrNothingHolds`: the refinement of `AtomicPatch`, under `RecoverFirst` and `MaxEdits = 0`. At
  most one transaction is interrupted (`SingleInv`); what it has not replaced still has its
  preimage (`PreimagesInv`); the loop has applied each target's patch as often as the target
  was listed so far (`ProgressInv`, where `TextAfter` is a recursive function unfolded by
  `SetInduction`); and a receipt reports the outcome of the whole list (`OutcomeInv`).
  `StepSimulates` shows each kind of step to be a transaction, its undoing, or a stutter.

### AgentLoop

`LoopInv` gives the kinds of the documents and of the call's locals. On top of it:
`CommitsAreApprovedHolds`; `ApprovedArtifactChosenHolds`, which follows the search through the
sibling directories and needs its order (`LeastNumber`); `RejectedBeforeTestsUntouchedHolds`
(`UntouchedInv`); `PerformedMeansAppliedHolds` (`RecordedInv`: from the commit to the answer its
receipt is among the recorded ones; `AppliedInv`); `SuccessDocumentsAgreeHolds` (`AgreementInv`: each
document, once written, is that of the running call). `UnredactedDiffIsApproved` is the
complement of `redaction.cfg`: where redaction changes nothing, `AppliedDiffIsApproved` holds.

### BoundedWrite

`WriteInv`: a packet has the hash of its body, and a transaction receipt that was returned has the roots
of the packet it names, whatever altered receipts lie beside it (`DocumentsInv`); a call past its
checks keeps an accepted request, and what it opened is where it says (`CallInv`); each file was opened
by a call, its bytes come from texts of calls that opened it, and a file that is not whole has a call that
is still in its write or failed there (`FilesInv`); each receipt belongs to a call that has
returned (`ReceiptsInv`). `WrittenAsAuthorisedHolds` needs that an accepted request has one task behind all
three documents (`AcceptedAuthorised`), and `IssuedRoots`: the packet that verifies against the payload has the payload's
roots, and an issued transaction has those of the packet it names, so that the path the executor
allowed lies under a root of the task. For a receipt that was altered and hashed again this last
part is false, and `widened.cfg` shows it. `SoleWriterReceiptStands` follows from `FilesInv`: where no call with another
text has opened the file, its bytes are of one text.

### NoopChain

`ChainInv`: while the chain is not rejected, the kept receipts keep their shape and the ledger
receipt's hash of the bridge receipt is that of the one it was bound to, or a foreign one.
`AuditSeesWhatWasBoundHolds` follows by injectivity of the hash. `AuditedLedgersPassMatrixHolds` goes
through the thirteen cases (`TamperCasesRejected`); it needs that no genuine reference is the one
the cases put in. `ForbiddenEffectsNamedHolds` follows four codes through three maps
(`EffectsInv`). `DryRunAgreesWithAdmissionHolds` rests on `DryRunImpliesAdmission`, which compares the two
ladders of checks for every payload, and on `SameDescriptor`: the two ways of cutting a payload
down to its descriptor agree on what the dry run accepts.

### LedgerChain, Ledger, Spine

`ChainsAgree`: two valid chains with the same event hash at some place have the same place and
the same events before it; by `LeastNumber` on the first place where they differ, and the
hash of an event covering that of the one before. `TerminalHashDecides`: the last event's hash
decides the whole ledger. From these, `AnchoredLedgerIsTheAppendedHolds` and
`SharedEventSharedHistoryHolds` for copies that were cut, edited or mixed in any way, and
`AppendedLedgersValidateHolds`.

`SpineInv`: the kept ledger is sound and of known event types (`LedgerInv`); a replay was accepted for
its ledger, which is sound and bound to what was asked, and its receipt is the one a replay of that
ledger makes (`ReplayInv`);
what was sealed satisfies the two seal properties (`SealInv`). `SealedGraphOfOneRun`: the executor node is of
some run and names the other three receipts of it by hash, so the expected state, which must agree with
the node, has the hashes of that run, and so have the other nodes and every event. This is why nothing
has to be assumed of the other kinds. `SealedReplayIsCurrent`: a receipt that passes has the hash of the one
the seal has just generated, hence its body; if it is as it was returned, its last event hash decides
the ledger (`TerminalHashDecides`). `AcceptedReplayIsSealedHolds` compares what the replay was asked with what
the seal asks it (`ReplayAskedAgrees`, `AgreeingStates`): both expect the same of graph and events, and the
count and chain hash the seal adds are those of the ledger.

### DiffApply

The state is small and the work is in the loops, so the proofs are inductions over lines
and hunks. `RecursionExists` (`SharedLemmas`) shows that a recursion over `0..n` that stays in a
set has a solution; the library's induction theorems take an operator as a parameter, which
the installed provers cannot instantiate, so the step is given as a function and induction
goes over sets of naturals (`SetInduction`, `BoundedInduction`). With it every recursive function of
the module unfolds (`SideUnfolds`, `JoinedUnfolds`, `CursorInHunkUnfolds`, `CursorUnfolds`,
`MovedUnfolds`, `ReplacedUnfolds`).

- `TypeCorrect`: what is joined is a file again, whatever runs together (`JoinedIsFile`).
- `AppliedAsWrittenHolds`, from the invariant `FileAsReplaced`, which says the same of every patch in the
  code's reading of headers: the lines of a hunk take the cursor over the old side and put out the
  new one if the old side stands there, and raise otherwise (`HunkLinesApplied`, by induction over
  the lines); the hunks do so one behind the other, and the first that does not fit raises
  (`HunksApplied`, by induction over the hunks); so `PatchApplied`: the code is `none` if and only if
  `Fits`, and the lines that are joined are `Replaced`.
- `ReversePatchRestoresHolds`: reversing exchanges the sides of a hunk (`ReverseSides`) and puts its
  header where the hunk has come to stand (`ReverseHunks`). `ResultParts` and `ResultTail` find each
  part of the original in the result, moved by `Moved`; hence the reverse patch fits
  (`ReverseFits`) and makes the original of the result (`ReverseReplaces`). That is about the lines
  before they are joined. If none runs into another, joining changes nothing (`JoinedSame`).
  Otherwise the original had a last line without an end (`RunTogether`), the file has fewer
  lines than were put out (`JoinedShorter`), and the reverse patch, whose last hunk reaches to the
  end, is refused.

### Only model-checked

- `CallEnds` and `LoopEnds`: liveness under fairness is out of the prover's reach.
- The three findings and the further configurations below are violations, not theorems.

## 6. Findings

With a run in `PROJECT.json`:

1. `test_refused`: when the test runner refuses, the loop answers
   `patch_apply_performed: False` though the patch is committed.
   `RejectedBeforeTestsUntouched` shows that this is the only place where it does so.
2. `prepared`: the executor checks hash and bindings of the workspace transaction's receipt
   and never its `accepted`; it writes under a transaction that was rejected. Nor does it compare the
   receipt's roots with those of the packet (`widened` below).
3. `recorded`: the ledger asks for `sha256:` before every hash, and `descriptor_hash` is bare
   hex; the event of a genuine write is refused, so that it can be neither replayed nor
   sealed.

Further configurations, each of which TLC ends with a violation of its one property
(`tlc -config <name>.cfg <module>`):

| Configuration, module | Property | What happens |
|---|---|---|
| `edit_race`, `MCPatchApply` | `ReportedPreimagesAreRestorable` | `build_rollback_artifact` reads the targets again after validation; after an edit in between, the reported preimage hashes are not those of what `rollback.json` restores, although `tests/patch_apply/test_patch_apply_transaction.py:43` says they are equal |
| `debris`, `MCPatchApply` | `RejectedLeavesNoDebris` | a temporary file whose write or replace fails stays in a workspace that the answer calls not mutated |
| `approval_reuse`, `MCAgentLoop` | `ApprovalSingleUse` | an approval for one transaction serves a second one once its preimage is back; the nonce is never consumed |
| `redaction`, `MCAgentLoop` | `AppliedDiffIsApproved` | the diff that is applied is the redacted one, under an approval that names the hash of the diff before redaction |
| `line_ends`, `MCDiffApply` | `LinesBeforeHunksUntouched` | an added line runs into a last line without a line end; CRLF becomes LF throughout |
| `additions`, `MCDiffApply` | `AdditionsFollowTheirLine` | a hunk that only adds is placed before the line its header names instead of after it, and one with header 0 (`@@ -0,0 +1 @@`, the header of a diff against an empty file) is refused, although `transaction.py:4` says "apply an existing unified diff" |
| `widened`, `MCBoundedWrite` | `WrittenUnderTaskRoots` | the roots in a transaction receipt are not compared with the packet's (`executor/__init__.py:168`): one that was altered and hashed again lets the executor write outside the roots of the task |
| `relinked`, `MCBoundedWrite` | `WrittenInsideWorkspace` | the target is resolved and checked (`executor/__init__.py:285-291`) and then opened by its unresolved name (294): after a link changes in between, the file is written outside the "isolated workspace root" of the module's docstring |
| `noop_audit`, `MCNoopChain` | `RederivedAndVerified` | the audit says `rederived_and_verified` of a ledger receipt whose task or artifacts differ from the derived one: `_mismatch_codes` compares other fields only |
| `admitted`, `MCSpine` | `SealedTaskWasAdmitted` | replay and seal never read `accepted` of the admission receipt |

## 7. Not modelled

- Two calls of `apply_patch_transaction` at once on one workspace: the repository starts one
  per process and has no lock.
- `repo_context`: reads files and changes nothing; its limits and redaction are text
  processing. `AgentLoop` has its outcomes.
- `llm_provider`: one network call behind a ladder of refusals, without state or retries;
  no other component calls it.
- The scan of unified-diff headers, the regular expressions of the policies, redaction and
  truncation of text: abstracted to the codes and lists they yield. In `PatchApply` files
  are distinct and a path has one spelling.
- More than one workspace root for the executor, and the directories that its `mkdir` leaves.
- `verify_*` functions of `agent_loop` and `patch_apply` that no code calls on the modelled
  paths.
- Tables and status report of `kernel20`, JSON fixtures, scripts.
