-------------------------- MODULE AgentLoopProofs --------------------------
(***************************************************************************)
(* What is proved of the agent loop: its types, that a commit was          *)
(* approved, that the approved artifact is the one chosen, and that the    *)
(* answer of a call tells the truth about the documents and the workspace. *)
(***************************************************************************)
EXTENDS AgentLoop, TLAPS

Shared == INSTANCE SharedLemmas

\* What an artifact file, and a patch_apply/ directory, can hold.
Artifacts == {Artifact(r, c) : r \in LoopRequests, c \in Contents}

\* The documents and the target: each is of its kind, and what the diffs and the
\* rollback of a commit need of them.
StoreInv ==
    /\ workspace \in Contents \cup {Missing}
    /\ start \in Contents \cup {Missing}
    /\ DOMAIN artifacts = Dirs \X ProposalIds
    /\ \A path \in Dirs \X ProposalIds : artifacts[path] \in Artifacts \cup {Absent, Torn}
    /\ DOMAIN commits = Dirs
    /\ \A d \in Dirs :
           /\ commits[d].kind \in {"absent", "torn", "commit"}
           /\ Intact(commits[d]) => {commits[d].preimage, commits[d].postimage} \subseteq Contents

DocumentsInv ==
    /\ DOMAIN manifests = Dirs /\ DOMAIN reports = Dirs /\ DOMAIN loopReceipts = Dirs
    /\ \A d \in Dirs :
           /\ manifests[d].kind \in {"absent", "torn", "manifest"}
           /\ reports[d].kind \in {"absent", "torn", "report"}
           /\ loopReceipts[d].kind \in {"absent", "torn", "receipt"}

\* The running call.
CallInv ==
    /\ pc \in Locations
    /\ IF pc = "idle" THEN req = NoRequest ELSE req \in LoopRequests /\ result = NoResult
    /\ approval \in approvals \cup {NoApproval}
    /\ result.dirs \subseteq Dirs
    /\ pc = "apply" => /\ proposal.path \in Dirs
                       /\ Intact(Selected)
    /\ pc \in {"apply", "test"} => req.mode = "SUPERVISED_APPLY"
    /\ reused \subseteq spent /\ spent \subseteq approvals
    /\ <<crashes, faults, edits>> \in Nat \X Nat \X Nat

LoopInv == StoreInv /\ DocumentsInv /\ CallInv
-----------------------------------------------------------------------------
\* A check that raised nothing found its condition false.
LEMMA NoCode ==
    ASSUME NEW c \in BOOLEAN, NEW code, Code(c, code) = {}
    PROVE  ~c
BY DEF Code

\* The approval of a request that patch_apply accepts is a packet a human signed for
\* the selected artifact, and the target is there.
LEMMA AcceptedRequest ==
    ASSUME RequestErrors = {}
    PROVE  /\ approval # NoApproval
           /\ approval.proposal_hash = Hash(Selected)
           /\ workspace # Missing
<1>1. Code(approval = NoApproval, "APPROVAL_PACKET_REQUIRED") = {}
  BY Zenon DEF RequestErrors
<1>2. Code(approval.proposal_hash # Hash(Selected), "APPROVAL_PROPOSAL_HASH_MISMATCH") = {}
  BY Zenon DEF RequestErrors
<1>3. Code(workspace = Missing, "TARGET_FILE_MISSING") = {}
  BY Zenon DEF RequestErrors
<1> QED
  BY <1>1, <1>2, <1>3 DEF Code

\* A proposal that passes has its target.
LEMMA AcceptedProposal ==
    ASSUME ProposalErrors = {}
    PROVE  workspace # Missing
BY DEF ProposalErrors, Code

\* An intact artifact file holds an artifact some run wrote.
LEMMA IntactArtifact ==
    ASSUME StoreInv, NEW path \in Dirs \X ProposalIds, Intact(artifacts[path])
    PROVE  /\ artifacts[path] \in Artifacts
           /\ artifacts[path].kind = "artifact"
           /\ artifacts[path].body.unified_diff \in Diffs
<1>1. artifacts[path] \in Artifacts
  BY DEF StoreInv, Intact, Absent, Torn
<1>2. PICK r \in LoopRequests, c \in Contents : artifacts[path] = Artifact(r, c)
  BY <1>1 DEF Artifacts
<1> QED
  BY <1>1, <1>2, LoopAssumption DEF Artifact, Body
-----------------------------------------------------------------------------
(* Steps in groups.  A call ends by _failure, an exception or a crash; it  *)
(* moves on with its request and approval; or no call is running.          *)

Ends == Forget /\ \E status, codes : result' = Result(status, codes)

\* What the environment's budget does in a step.
LEMMA FaultCounts ==
    ASSUME <<crashes, faults, edits>> \in Nat \X Nat \X Nat, Fault \/ UNCHANGED budget
    PROVE  <<crashes, faults, edits>>' \in Nat \X Nat \X Nat /\ edits' = edits
BY DEF Fault, budget

\* The end of a call keeps CallInv.
LEMMA EndKeepsCall ==
    ASSUME CallInv, Ends, UNCHANGED approvals,
           reused' \subseteq spent', spent' \subseteq approvals,
           <<crashes, faults, edits>>' \in Nat \X Nat \X Nat
    PROVE  CallInv'
BY DEF CallInv, Ends, Forget, Locations, Result, Answer, NoRequest

\* A step of the running call that keeps its request and moves to a place other
\* than the patch.
LEMMA MoveKeepsCall ==
    ASSUME CallInv, pc # "idle", pc' \in Locations \ {"idle", "apply"},
           pc' = "test" => req.mode = "SUPERVISED_APPLY",
           UNCHANGED <<req, approval, approvals, result, budget>>,
           reused' \subseteq spent', spent' \subseteq approvals
    PROVE  CallInv'
BY DEF CallInv, budget

\* Failure and Raise are ends.
LEMMA FailureEnds ==
    ASSUME NEW codes, Failure(codes)
    PROVE  Ends
BY DEF Failure, Ends

LEMMA RaiseEnds ==
    ASSUME Raise
    PROVE  Ends
BY DEF Raise, Ends

\* The choice of a proposal takes the call to the patch or to its documents.
LEMMA ChoiceKeepsCall ==
    ASSUME CallInv, pc = "proposal", pc' = AfterProposal,
           UNCHANGED <<req, approval, approvals, result, ghosts, budget>>,
           proposal'.path \in Dirs, Intact(Selected)'
    PROVE  CallInv'
BY DEF CallInv, budget, ghosts, AfterProposal, Locations

\* Steps of a call that touch neither the target nor any document.
Reads ==
    \/ ReadContext \/ ReadContextRejected \/ LoadOwn \/ LoadApproved \/ LoadRaises
    \/ RejectProposal \/ ApplyRejected \/ RunTest \/ SkipTest \/ TestNotRun \/ ReturnSuccess

\* Steps that write one of the three documents.
Writes == WriteManifest \/ WriteReport \/ WriteLoopReceipt \/ WriteFails

Submits ==
    \E r \in LoopRequests, packet \in approvals \cup {NoApproval}, authority \in Authorities :
        \/ RejectLoop(r, packet, authority)
        \/ BeginLoop(r, packet, authority)
        \/ BeginLoopFails(r, packet, authority)

Approves == \E path \in Dirs \X ProposalIds : Approve(path)

LEMMA NextCases ==
    ASSUME [Next]_vars
    PROVE  \/ Reads \/ Writes \/ CreateProposal \/ CreateProposalFails
           \/ ApplyPatch \/ ApplyRaises \/ ApplyRolledBack
           \/ Submits \/ Crash \/ Approves
           \/ \E d \in Dirs : Undo(d)
           \/ \E c \in Contents \cup {Missing} : Edit(c)
           \/ UNCHANGED vars
BY DEF Next, Step, Reads, Writes, Submits, Approves

LEMMA ReadsTouchNothing ==
    ASSUME Reads
    PROVE  UNCHANGED <<workspace, documents, approvals, ghosts, budget>> /\ pc # "idle"
BY DEF Reads, ReadContext, ReadContextRejected, LoadOwn, LoadApproved, LoadRaises,
       RejectProposal, ApplyRejected, RunTest, SkipTest, TestNotRun, ReturnSuccess

LEMMA WritesTouchDocuments ==
    ASSUME Writes
    PROVE  /\ UNCHANGED <<workspace, artifacts, commits, approvals, ghosts, crashes, edits>>
           /\ pc # "idle"
BY DEF Writes, WriteManifest, WriteReport, WriteLoopReceipt, WriteFails, DamageDocument,
       Fault, documents, budget, ghosts

\* A commit leaves a target that exists, its images in its directory, and spends an
\* approval that a human signed.
LEMMA CommitKeepsStore ==
    ASSUME LoopInv, pc = "apply", RequestErrors = {}, Postimage # Mismatch, Commit,
           UNCHANGED <<artifacts, start>>
    PROVE  /\ StoreInv'
           /\ reused' \subseteq spent' /\ spent' \subseteq approvals
           /\ commits'[req.dir] = Commitment(Selected, workspace, Postimage)
           /\ workspace' = commits'[req.dir].postimage
<1>1. req.dir \in Dirs /\ req.proposal_id \in ProposalIds
  BY LoopAssumption DEF LoopInv, CallInv
<1>2. <<proposal.path, req.proposal_id>> \in Dirs \X ProposalIds /\ Intact(Selected)
  BY <1>1 DEF LoopInv, CallInv
<1>3. Selected.body.unified_diff \in Diffs
  BY <1>2, IntactArtifact DEF LoopInv, Selected
<1>4. workspace \in Contents /\ approval \in approvals
  BY AcceptedRequest DEF LoopInv, StoreInv, CallInv
<1>5. Postimage \in Contents
  BY <1>3, <1>4, LoopAssumption DEF Postimage
<1>6. commits'[req.dir] = Commitment(Selected, workspace, Postimage)
  BY <1>1 DEF Commit, LoopInv, StoreInv
<1>7. reused' \subseteq spent' /\ spent' \subseteq approvals
  BY <1>4 DEF Commit, LoopInv, CallInv
<1>8. StoreInv'
  BY <1>1, <1>4, <1>5, <1>6 DEF Commit, LoopInv, StoreInv, Commitment, Intact
<1> QED
  BY <1>5, <1>6, <1>7, <1>8 DEF Commit, Commitment

LEMMA OverwriteKeepsStore ==
    ASSUME LoopInv, pc = "apply", OverwriteCommit, UNCHANGED <<workspace, artifacts, start>>
    PROVE  StoreInv'
BY LoopAssumption DEF LoopInv, StoreInv, CallInv, OverwriteCommit, Damaged, Torn, Intact

LEMMA StoreStep == LoopInv /\ [Next]_vars => StoreInv'
<1> SUFFICES ASSUME LoopInv, [Next]_vars PROVE StoreInv'
  OBVIOUS
<1>0. StoreInv /\ CallInv
  BY DEF LoopInv
<1>1. UNCHANGED <<workspace, artifacts, commits, start>> => StoreInv'
  BY <1>0 DEF StoreInv
<1>2. CASE Reads \/ Writes \/ Approves \/ UNCHANGED vars
  BY <1>1, <1>2, ReadsTouchNothing, WritesTouchDocuments
     DEF Approves, Approve, vars, documents, ghosts
<1>3. CASE CreateProposal
  <2>1. workspace \in Contents
    BY <1>0, <1>3, AcceptedProposal DEF CreateProposal, StoreInv
  <2>2. req \in LoopRequests /\ <<req.dir, req.proposal_id>> \in Dirs \X ProposalIds
    BY <1>0, <1>3, LoopAssumption DEF CreateProposal, CallInv
  <2>3. Artifact(req, workspace) \in Artifacts
    BY <2>1, <2>2 DEF Artifacts
  <2>4. artifacts' = [artifacts EXCEPT ![<<req.dir, req.proposal_id>>] = Artifact(req, workspace)]
    BY <1>3 DEF CreateProposal
  <2>5. UNCHANGED <<workspace, commits, start>>
    BY <1>3 DEF CreateProposal, ghosts
  <2> QED
    BY <1>0, <2>2, <2>3, <2>4, <2>5 DEF StoreInv
<1>4. CASE CreateProposalFails
  BY <1>0, <1>4, LoopAssumption DEF CreateProposalFails, StoreInv, CallInv, Damaged, Own, ghosts
<1>5. CASE ApplyPatch \/ ApplyRaises
  BY <1>5, CommitKeepsStore DEF ApplyPatch, ApplyRaises
<1>6. CASE ApplyRolledBack
  BY <1>6, OverwriteKeepsStore DEF ApplyRolledBack, ghosts
<1>7. CASE Submits
  BY <1>0, <1>7 DEF Submits, RejectLoop, BeginLoop, BeginLoopFails, StoreInv, documents
<1>8. CASE Crash
  <2>1. UNCHANGED <<workspace, start>>
    BY <1>8 DEF Crash, ghosts
  <2>2. CASE UNCHANGED <<artifacts, commits>>
    BY <1>1, <2>1, <2>2
  <2>3. CASE pc = "proposal" /\ artifacts' = [artifacts EXCEPT ![<<req.dir, req.proposal_id>>] = Torn]
                /\ UNCHANGED commits
    BY <1>0, <2>1, <2>3, LoopAssumption DEF StoreInv, CallInv
  <2>4. CASE pc = "apply" /\ OverwriteCommit /\ UNCHANGED artifacts
    BY <2>1, <2>4, OverwriteKeepsStore
  <2> QED
    BY <1>8, <2>2, <2>3, <2>4 DEF Crash, DamageDocument, documents
<1>9. CASE \E d \in Dirs : Undo(d)
  BY <1>0, <1>9 DEF Undo, StoreInv, documents
<1>10. CASE \E c \in Contents \cup {Missing} : Edit(c)
  BY <1>0, <1>10 DEF Edit, StoreInv, documents, ghosts
<1> QED
  BY <1>2, <1>3, <1>4, <1>5, <1>6, <1>7, <1>8, <1>9, <1>10, NextCases

\* Steps that leave the three documents alone.
LEMMA DocumentsUntouched ==
    ASSUME [Next]_vars
    PROVE  \/ UNCHANGED <<manifests, reports, loopReceipts>>
           \/ Writes
           \/ Crash /\ DamageDocument
BY NextCases, ReadsTouchNothing
   DEF CreateProposal, CreateProposalFails, ApplyPatch, ApplyRaises, ApplyRolledBack, Submits,
       RejectLoop, BeginLoop, BeginLoopFails, Crash, Approves, Approve, Undo, Edit, vars, documents

LEMMA DamageKeepsDocuments ==
    ASSUME LoopInv, DamageDocument
    PROVE  DocumentsInv'
<1>1. req.dir \in Dirs
  BY LoopAssumption DEF LoopInv, CallInv, DamageDocument
<1> QED
  BY <1>1 DEF DamageDocument, LoopInv, DocumentsInv, Damaged, Torn

LEMMA DocumentsStep == LoopInv /\ [Next]_vars => DocumentsInv'
<1> SUFFICES ASSUME LoopInv, [Next]_vars PROVE DocumentsInv'
  OBVIOUS
<1>0. DocumentsInv /\ CallInv
  BY DEF LoopInv
<1>1. CASE UNCHANGED <<manifests, reports, loopReceipts>>
  BY <1>0, <1>1 DEF DocumentsInv
<1>2. CASE DamageDocument
  BY <1>2, DamageKeepsDocuments
<1>3. CASE WriteManifest
  BY <1>0, <1>3 DEF WriteManifest, DocumentsInv, Manifest
<1>4. CASE WriteReport
  BY <1>0, <1>4 DEF WriteReport, DocumentsInv, Report
<1>5. CASE WriteLoopReceipt
  BY <1>0, <1>5 DEF WriteLoopReceipt, DocumentsInv, LoopReceipt
<1> QED
  BY <1>1, <1>2, <1>3, <1>4, <1>5, DocumentsUntouched DEF Writes, WriteFails

\* The first stop of the search is one of the stops.
LEMMA FirstStopIsStop ==
    ASSUME Stops # {}
    PROVE  FirstStop \in Stops /\ FirstStop \in Dirs
<1>1. Stops \subseteq Dirs /\ Stops \subseteq Nat
  BY LoopAssumption DEF Stops
<1>2. \E d \in Stops : \A e \in Stops : d <= e
  BY <1>1, Shared!LeastNumber
<1> QED
  BY <1>1, <1>2 DEF FirstStop

\* The artifact the supervisor loads is intact.
LEMMA LoadedIsIntact ==
    ASSUME CallInv, LoadOwn \/ LoadApproved
    PROVE  /\ Intact(Selected)' /\ proposal'.path \in Dirs
           /\ Selected' = ArtifactAt(proposal'.path)
           /\ LoadOwn => proposal'.path = req.dir
           /\ LoadApproved => proposal'.path = FirstStop
<1>1. req \in LoopRequests /\ req.dir \in Dirs
  BY LoopAssumption DEF CallInv, LoadOwn, LoadApproved
<1>2. UNCHANGED <<artifacts, req>>
  BY DEF LoadOwn, LoadApproved, documents
<1>3. \A dir : Loaded(dir) => proposal'.path = dir /\ Selected' = ArtifactAt(dir)
  BY <1>2 DEF Loaded, Selected, ArtifactAt
<1>4. CASE LoadOwn
  <2>1. Loaded(req.dir) /\ Intact(Own)
    BY <1>4 DEF LoadOwn, OwnServes
  <2> QED
    BY <1>1, <1>3, <1>4, <2>1 DEF Own, ArtifactAt, Intact, LoadOwn, LoadApproved
<1>5. CASE LoadApproved
  <2>1. Loaded(FirstStop) /\ ArtifactAt(FirstStop) # Torn /\ FirstStop \in Stops
    BY <1>5, FirstStopIsStop DEF LoadApproved
  <2>2. Approved(ArtifactAt(FirstStop)) /\ FirstStop \in Dirs
    BY <2>1 DEF Stops
  <2> QED
    BY <1>3, <1>5, <2>1, <2>2 DEF Approved, Intact, LoadApproved, LoadOwn
<1> QED
  BY <1>4, <1>5

\* The artifact the supervisor creates is the one it has selected.
LEMMA CreatedIsIntact ==
    ASSUME LoopInv, CreateProposal
    PROVE  /\ proposal'.path = req.dir /\ req.dir \in Dirs
           /\ Selected' = Artifact(req, workspace)
           /\ Intact(Selected)'
           /\ \A d \in Dirs : d # req.dir => ArtifactAt(d)' = ArtifactAt(d)
<1>1. req.dir \in Dirs /\ req.proposal_id \in ProposalIds
  BY LoopAssumption DEF LoopInv, CallInv, CreateProposal
<1>2. /\ artifacts' = [artifacts EXCEPT ![<<req.dir, req.proposal_id>>] = Artifact(req, workspace)]
      /\ proposal'.path = req.dir
      /\ req' = req
  BY DEF CreateProposal
<1>3. Selected' = Artifact(req, workspace)
  BY <1>1, <1>2 DEF Selected, LoopInv, StoreInv
<1>4. \A d \in Dirs : d # req.dir => ArtifactAt(d)' = ArtifactAt(d)
  BY <1>1, <1>2 DEF ArtifactAt, LoopInv, StoreInv
<1> QED
  BY <1>1, <1>2, <1>3, <1>4 DEF Intact, Artifact

LEMMA CallStep == LoopInv /\ [Next]_vars => CallInv'
<1> SUFFICES ASSUME LoopInv, [Next]_vars PROVE CallInv'
  OBVIOUS
<1>0. CallInv
  BY DEF LoopInv
<1>b. <<crashes, faults, edits>> \in Nat \X Nat \X Nat /\ reused \subseteq spent /\ spent \subseteq approvals
  BY <1>0 DEF CallInv
\* The end of a call that spends no approval.
<1>e. ASSUME Ends, UNCHANGED <<approvals, ghosts>>, Fault \/ UNCHANGED budget PROVE CallInv'
  BY <1>0, <1>b, <1>e, EndKeepsCall, FaultCounts DEF ghosts
<1>1. CASE ReadContext \/ RunTest \/ SkipTest
  BY <1>0, <1>b, <1>1, MoveKeepsCall DEF ReadContext, RunTest, SkipTest, Locations, local, ghosts
<1>2. CASE WriteManifest \/ WriteReport \/ WriteLoopReceipt
  BY <1>0, <1>b, <1>2, MoveKeepsCall
     DEF WriteManifest, WriteReport, WriteLoopReceipt, Locations, local, ghosts
<1>3. CASE ReadContextRejected \/ LoadRaises \/ RejectProposal \/ ApplyRejected \/ TestNotRun
  BY <1>e, <1>3, FailureEnds, RaiseEnds
     DEF ReadContextRejected, LoadRaises, RejectProposal, ApplyRejected, TestNotRun
<1>4. CASE CreateProposalFails \/ WriteFails \/ ApplyRolledBack
  BY <1>e, <1>4, FailureEnds, RaiseEnds DEF CreateProposalFails, WriteFails, ApplyRolledBack
<1>5. CASE LoadOwn \/ LoadApproved
  BY <1>0, <1>5, LoadedIsIntact, ChoiceKeepsCall DEF LoadOwn, LoadApproved
<1>6. CASE CreateProposal
  BY <1>0, <1>6, CreatedIsIntact, ChoiceKeepsCall DEF CreateProposal
<1>7. CASE ApplyPatch
  <2>1. reused' \subseteq spent' /\ spent' \subseteq approvals
    BY <1>7, CommitKeepsStore DEF ApplyPatch
  <2> QED
    BY <1>0, <1>7, <2>1, MoveKeepsCall DEF ApplyPatch, CallInv, Locations
<1>8. CASE ApplyRaises
  <2>1. reused' \subseteq spent' /\ spent' \subseteq approvals
    BY <1>8, CommitKeepsStore DEF ApplyRaises
  <2> QED
    BY <1>0, <1>b, <1>8, <2>1, EndKeepsCall, RaiseEnds, FaultCounts DEF ApplyRaises
<1>9. CASE ReturnSuccess
  <2>1. req.dir \in Dirs
    BY <1>0, <1>9, LoopAssumption DEF CallInv, ReturnSuccess
  <2> QED
    BY <1>0, <1>9, <2>1 DEF ReturnSuccess, Forget, CallInv, Locations, Answer, budget, ghosts
<1>10. CASE Submits
  BY <1>0, <1>10 DEF Submits, RejectLoop, BeginLoop, BeginLoopFails, Raise, Forget, CallInv, Locations,
                     Result, NoResult, Answer, Fault, local, budget
<1>11. CASE Crash
  <2>1. Ends /\ UNCHANGED <<approvals, ghosts>>
    BY <1>11 DEF Crash, Ends
  <2>2. <<crashes, faults, edits>>' \in Nat \X Nat \X Nat
    BY <1>b, <1>11 DEF Crash
  <2> QED
    BY <1>0, <1>b, <2>1, <2>2, EndKeepsCall DEF ghosts
<1>12. CASE Approves \/ (\E d \in Dirs : Undo(d)) \/ (\E c \in Contents \cup {Missing} : Edit(c))
            \/ UNCHANGED vars
  <2>1. CASE Approves
    BY <1>0, <2>1 DEF Approves, Approve, CallInv, documents, local, ghosts, budget
  <2>2. CASE \E d \in Dirs : Undo(d)
    BY <1>0, <2>2 DEF Undo, CallInv, Result, NoResult, Answer, documents, local, budget
  <2>3. CASE (\E c \in Contents \cup {Missing} : Edit(c)) \/ UNCHANGED vars
    <3>1. UNCHANGED <<artifacts, proposal, req, approval, approvals, pc, result, spent, reused>>
      BY <2>3 DEF Edit, vars, documents, local, ghosts
    <3>2. <<crashes, faults, edits>>' \in Nat \X Nat \X Nat
      BY <1>b, <2>3 DEF Edit, vars, budget
    <3> QED
      BY <1>0, <3>1, <3>2 DEF CallInv, Selected
  <2> QED
    BY <1>12, <2>1, <2>2, <2>3
<1> QED
  BY <1>1, <1>2, <1>3, <1>4, <1>5, <1>6, <1>7, <1>8, <1>9, <1>10, <1>11, <1>12, NextCases
     DEF Reads, Writes

LEMMA LoopInvInit == Init => LoopInv
BY LoopAssumption
   DEF Init, LoopInv, StoreInv, DocumentsInv, CallInv, Absent, Intact, Locations, NoResult, Result,
       Answer

\* Documents are of their kinds, a running call has its request and its selected
\* artifact, a dry run never reaches the patch.
THEOREM LoopInvHolds == Spec => []LoopInv
<1>1. LoopInv /\ [Next]_vars => LoopInv'
  BY StoreStep, DocumentsStep, CallStep DEF LoopInv
<1> QED
  BY <1>1, LoopInvInit, PTL DEF Spec

\* Type correctness of the agent loop.
THEOREM TypeCorrect == Spec => []TypeOK
<1>1. LoopInv => TypeOK
  <2> SUFFICES ASSUME LoopInv PROVE TypeOK
    OBVIOUS
  <2>1. ASSUME NEW path \in Dirs \X ProposalIds
        PROVE  artifacts[path].kind \in {"absent", "torn", "artifact"}
    BY IntactArtifact DEF LoopInv, Intact, StoreInv, Absent, Torn, Artifacts, Artifact
  <2> QED
    BY <2>1 DEF LoopInv, StoreInv, DocumentsInv, CallInv, TypeOK
<1> QED
  BY <1>1, LoopInvHolds, PTL
-----------------------------------------------------------------------------
(* Commits.                                                                *)

\* Only patch_apply, behind its checks, changes a patch_apply/ directory; approvals
\* are never withdrawn.
LEMMA CommitsTouched ==
    ASSUME [Next]_vars
    PROVE  /\ approvals \subseteq approvals'
           /\ \/ UNCHANGED commits
              \/ pc = "apply" /\ RequestErrors = {} /\ (OverwriteCommit \/ Commit)
<1>1. CASE Reads \/ Writes
  BY <1>1, ReadsTouchNothing, WritesTouchDocuments DEF documents
<1>2. CASE CreateProposal \/ CreateProposalFails \/ ApplyPatch \/ ApplyRaises \/ ApplyRolledBack
  BY <1>2 DEF CreateProposal, CreateProposalFails, ApplyPatch, ApplyRaises, ApplyRolledBack
<1>3. CASE Submits \/ Approves \/ UNCHANGED vars
  BY <1>3 DEF Submits, RejectLoop, BeginLoop, BeginLoopFails, Approves, Approve, vars, documents
<1>4. CASE Crash
  BY <1>4 DEF Crash, DamageDocument, documents
<1>5. CASE (\E d \in Dirs : Undo(d)) \/ (\E c \in Contents \cup {Missing} : Edit(c))
  BY <1>5 DEF Undo, Edit, documents
<1> QED
  BY <1>1, <1>2, <1>3, <1>4, <1>5, NextCases

\* Whatever the supervisor hands to patch_apply, every transaction it commits is of a
\* proposal that a human approved.
THEOREM CommitsAreApprovedHolds == Spec => []CommitsAreApproved
<1>1. Init => CommitsAreApproved
  BY DEF Init, CommitsAreApproved, Intact, Absent
<1>2. LoopInv /\ CommitsAreApproved /\ [Next]_vars => CommitsAreApproved'
  <2> SUFFICES ASSUME LoopInv, CommitsAreApproved, [Next]_vars,
                      NEW d \in Dirs, Intact(commits'[d])
               PROVE  \E packet \in approvals' : packet.proposal_hash = commits'[d].proposal_hash
    BY DEF CommitsAreApproved, Intact
  <2>1. CASE commits'[d] = commits[d]
    BY <2>1, CommitsTouched DEF CommitsAreApproved, Intact
  <2>2. CASE pc = "apply" /\ RequestErrors = {} /\ Commit /\ d = req.dir
    <3>1. commits'[d].proposal_hash = Hash(Selected)
      BY <2>2 DEF Commit, Commitment, LoopInv, StoreInv
    <3>2. approval \in approvals /\ approval.proposal_hash = Hash(Selected)
      BY <2>2, AcceptedRequest DEF LoopInv, CallInv
    <3> QED
      BY <3>1, <3>2, CommitsTouched
  <2> QED
    BY <2>1, <2>2, CommitsTouched
       DEF OverwriteCommit, Damaged, Torn, Intact, Commit, LoopInv, StoreInv
<1> QED
  BY <1>1, <1>2, LoopInvHolds, PTL DEF Spec
\* Where redaction changes no diff, the diff a transaction applied is the one whose hash
\* the human approved: redaction is the only way to AppliedDiffIsApproved's violation.
THEOREM UnredactedDiffIsApproved ==
    ASSUME \A x \in Diffs : Redacted[x] = x
    PROVE  Spec => []AppliedDiffIsApproved
<1>1. Init => AppliedDiffIsApproved
  BY DEF Init, AppliedDiffIsApproved, Intact, Absent
<1>2. LoopInv /\ AppliedDiffIsApproved /\ [Next]_vars => AppliedDiffIsApproved'
  <2> SUFFICES ASSUME LoopInv, AppliedDiffIsApproved, [Next]_vars,
                      NEW d \in Dirs, Intact(commits'[d])
               PROVE  \E packet \in approvals' :
                          /\ packet.proposal_hash = commits'[d].proposal_hash
                          /\ packet.approved_unified_diff_hash = Hash(commits'[d].unified_diff)
    BY DEF AppliedDiffIsApproved, Intact, Hash
  <2>1. CASE commits'[d] = commits[d]
    BY <2>1, CommitsTouched DEF AppliedDiffIsApproved, Intact
  <2>2. CASE pc = "apply" /\ RequestErrors = {} /\ Commit /\ d = req.dir
    <3>1. /\ commits'[d].proposal_hash = Hash(Selected)
          /\ commits'[d].unified_diff = Selected.body.unified_diff
      BY <2>2 DEF Commit, Commitment, LoopInv, StoreInv
    <3>2. approval \in approvals /\ approval.proposal_hash = Hash(Selected)
      BY <2>2, AcceptedRequest DEF LoopInv, CallInv
    <3>3. Code(approval.approved_unified_diff_hash # Selected.body.unified_diff_hash,
               "APPROVAL_DIFF_HASH_MISMATCH") = {}
      BY <2>2, Zenon DEF RequestErrors
    <3>4. approval.approved_unified_diff_hash = Selected.body.unified_diff_hash
      BY <3>3 DEF Code
    <3>5. <<proposal.path, req.proposal_id>> \in Dirs \X ProposalIds /\ Intact(Selected)
      BY <2>2, LoopAssumption DEF LoopInv, CallInv
    <3>6. PICK r \in LoopRequests, c \in Contents : Selected = Artifact(r, c)
      BY <3>5, IntactArtifact DEF LoopInv, Selected, Artifacts
    <3>7. Selected.body.unified_diff_hash = Hash(Selected.body.unified_diff)
      BY <3>6, LoopAssumption DEF Artifact, Body
    <3> QED
      BY <3>1, <3>2, <3>4, <3>7, CommitsTouched
  <2> QED
    BY <2>1, <2>2, CommitsTouched
       DEF OverwriteCommit, Damaged, Torn, Intact, Commit, LoopInv, StoreInv
<1> QED
  BY <1>1, <1>2, LoopInvHolds, PTL DEF Spec
-----------------------------------------------------------------------------
(* The choice of the artifact.                                             *)

\* Without a packet no artifact counts as approved.
LEMMA NothingApproved ==
    ASSUME approval = NoApproval
    PROVE  \A artifact : ~Approved(artifact)
BY DEF Approved, NoApproval, Hash

\* When the search found no stop, no directory has the approved artifact.
LEMMA NoStopNoApproved ==
    ASSUME Stops = {}
    PROVE  \A d \in Dirs : ~Approved(ArtifactAt(d))
<1>1. CASE approval = NoApproval
  BY <1>1, NothingApproved
<1>2. CASE approval # NoApproval
  BY <1>2 DEF Stops
<1> QED
  BY <1>1, <1>2

\* Wherever the approved artifact lies, it is the one the supervisor is about to
\* apply.
THEOREM ApprovedArtifactChosenHolds == Spec => []ApprovedArtifactChosen
<1>1. Init => ApprovedArtifactChosen
  BY DEF Init, ApprovedArtifactChosen
<1>2. LoopInv /\ ApprovedArtifactChosen /\ [Next]_vars => ApprovedArtifactChosen'
  <2> SUFFICES ASSUME LoopInv, ApprovedArtifactChosen, [Next]_vars, pc' = "apply",
                      NEW d \in Dirs, Approved(ArtifactAt(d))'
               PROVE  Approved(Selected)'
    BY DEF ApprovedArtifactChosen
  <2>1. CASE LoadOwn \/ LoadApproved
    <3>1. UNCHANGED <<artifacts, approval, req>>
      BY <2>1 DEF LoadOwn, LoadApproved, documents
    <3>2. Approved(ArtifactAt(d))
      BY <3>1 DEF Approved, ArtifactAt, Intact
    <3>3. approval # NoApproval /\ Stops # {}
      BY <3>2, NothingApproved, NoStopNoApproved
    <3>4. Selected' = ArtifactAt(proposal'.path)
      BY <2>1, LoadedIsIntact DEF LoopInv
    <3>5. Approved(ArtifactAt(proposal'.path))
      <4>1. CASE LoadOwn
        BY <3>3, <4>1, LoadedIsIntact DEF LoopInv, LoadOwn, OwnServes, Own, ArtifactAt
      <4>2. CASE LoadApproved
        BY <3>3, <4>2, LoadedIsIntact, FirstStopIsStop DEF LoopInv, LoadApproved, Stops
      <4> QED
        BY <2>1, <4>1, <4>2
    <3> QED
      BY <3>1, <3>4, <3>5 DEF Approved, Intact
  <2>2. CASE CreateProposal
    <3>1. ~Approved(ArtifactAt(d))
      BY <2>2, NoStopNoApproved DEF CreateProposal
    <3>2. d = req.dir
      BY <2>2, <3>1, CreatedIsIntact DEF Approved, Intact, CreateProposal
    <3>3. Selected' = ArtifactAt(d)'
      BY <2>2, <3>2, CreatedIsIntact DEF Selected, ArtifactAt, CreateProposal
    <3> QED
      BY <3>3 DEF Approved, Intact
  <2>3. CASE pc = "apply" /\ UNCHANGED <<artifacts, approval, req, proposal>>
    BY <2>3 DEF ApprovedArtifactChosen, Approved, ArtifactAt, Selected, Intact
  <2> QED
    BY <2>1, <2>2, <2>3, NextCases
       DEF Reads, Writes, Submits, Approves, ReadContext, ReadContextRejected, LoadRaises,
           RejectProposal, ApplyRejected, RunTest, SkipTest, TestNotRun, ReturnSuccess, WriteManifest,
           WriteReport, WriteLoopReceipt, WriteFails, CreateProposalFails, ApplyPatch, ApplyRaises,
           ApplyRolledBack, RejectLoop, BeginLoop, BeginLoopFails, Crash, Approve, Undo, Edit,
           Failure, Raise, Forget, vars, local, documents
<1> QED
  BY <1>1, <1>2, LoopInvHolds, PTL DEF Spec
-----------------------------------------------------------------------------
(* The workspace, as long as nobody else has edited it.                    *)

\* Edits are only counted.
LEMMA EditsGrow ==
    ASSUME LoopInv, [Next]_vars
    PROVE  /\ edits' = 0 => edits = 0
           /\ \A c \in Contents \cup {Missing} : Edit(c) => edits' # 0
<1>1. edits \in Nat
  BY DEF LoopInv, CallInv
<1>2. edits' \in {edits, edits + 1}
  BY NextCases, ReadsTouchNothing, WritesTouchDocuments
     DEF CreateProposal, CreateProposalFails, ApplyPatch, ApplyRaises, ApplyRolledBack, Submits,
         RejectLoop, BeginLoop, BeginLoopFails, Crash, Approves, Approve, Undo, Edit, Fault, vars,
         budget
<1> QED
  BY <1>1, <1>2 DEF Edit

\* Before the patch the workspace is as the call found it, and so is it after a
\* rejection that does not come from the test runner.
UntouchedInv ==
    /\ pc \in {"context", "proposal", "apply"} => workspace = start
    /\ RejectedBeforeTestsUntouched

LEMMA UntouchedStep ==
    ASSUME LoopInv, [Next]_vars, edits = 0 => UntouchedInv, edits' = 0
    PROVE  UntouchedInv'
<1>0. UntouchedInv /\ CallInv /\ edits = 0
  BY EditsGrow DEF LoopInv
<1>1. CASE ReadContext \/ RunTest \/ SkipTest \/ LoadOwn \/ LoadApproved \/ WriteManifest
           \/ WriteReport \/ WriteLoopReceipt \/ CreateProposal
  <2>1. UNCHANGED <<workspace, start, result>> /\ pc # "idle"
    BY <1>1 DEF ReadContext, RunTest, SkipTest, LoadOwn, LoadApproved, WriteManifest,
                WriteReport, WriteLoopReceipt, CreateProposal, local, ghosts
  <2>2. pc' \in {"context", "proposal", "apply"} => pc \in {"context", "proposal", "apply"}
    BY <1>1 DEF ReadContext, RunTest, SkipTest, LoadOwn, LoadApproved, WriteManifest,
                WriteReport, WriteLoopReceipt, CreateProposal
  <2> QED
    BY <1>0, <2>1, <2>2 DEF UntouchedInv, RejectedBeforeTestsUntouched
<1>2. CASE ReadContextRejected \/ LoadRaises \/ RejectProposal \/ ApplyRejected \/ ApplyRolledBack
           \/ CreateProposalFails
  <2>1. pc \in {"context", "proposal", "apply"} /\ pc' = "idle" /\ UNCHANGED <<workspace, start>>
    BY <1>2 DEF ReadContextRejected, LoadRaises, RejectProposal, ApplyRejected, ApplyRolledBack,
                CreateProposalFails, Failure, Raise, Forget, ghosts
  <2> QED
    BY <1>0, <2>1 DEF UntouchedInv, RejectedBeforeTestsUntouched
<1>3. CASE TestNotRun \/ WriteFails \/ ApplyRaises \/ ReturnSuccess \/ Crash
  BY <1>3 DEF TestNotRun, WriteFails, ApplyRaises, ReturnSuccess, Crash, Failure, Raise, Forget,
              Result, Answer, UntouchedInv, RejectedBeforeTestsUntouched
<1>4. CASE ApplyPatch
  BY <1>0, <1>4 DEF ApplyPatch, CallInv, NoResult, Result, Answer, UntouchedInv,
                    RejectedBeforeTestsUntouched
<1>5. CASE Submits
  BY <1>5 DEF Submits, RejectLoop, BeginLoop, BeginLoopFails, Raise, Forget, UntouchedInv,
              RejectedBeforeTestsUntouched
<1>6. CASE Approves \/ UNCHANGED vars
  BY <1>0, <1>6 DEF Approves, Approve, vars, ghosts, UntouchedInv, RejectedBeforeTestsUntouched
<1>7. CASE \E d \in Dirs : Undo(d)
  BY <1>7 DEF Undo, UntouchedInv, RejectedBeforeTestsUntouched
<1> QED
  BY <1>1, <1>2, <1>3, <1>4, <1>5, <1>6, <1>7, NextCases, EditsGrow DEF Reads, Writes

\* As long as nobody else has edited the target, a call that is rejected anywhere but
\* at the test runner has left the workspace as it was.
THEOREM RejectedBeforeTestsUntouchedHolds == Spec => [](edits = 0 => RejectedBeforeTestsUntouched)
<1>1. Init => (edits = 0 => UntouchedInv)
  BY DEF Init, UntouchedInv, RejectedBeforeTestsUntouched
<1>2. LoopInv /\ (edits = 0 => UntouchedInv) /\ [Next]_vars => (edits = 0 => UntouchedInv)'
  BY UntouchedStep
<1>3. (edits = 0 => UntouchedInv) => (edits = 0 => RejectedBeforeTestsUntouched)
  BY DEF UntouchedInv
<1> QED
  BY <1>1, <1>2, <1>3, LoopInvHolds, PTL DEF Spec
-----------------------------------------------------------------------------
(* The patch of a supervised run.                                          *)

Patched == {"test", "manifest", "report", "receipt", "return"}

\* The receipt of the transaction in the run's directory is among those of the call.
CommitRecorded ==
    /\ Intact(commits[req.dir])
    /\ \E i \in DOMAIN receipts : receipts[i] = Hash(commits[req.dir])

IsSequence(s) == \E S : s \in Seq(S)

\* From the commit to the answer of a supervised run its receipt is recorded.
RecordedInv ==
    /\ IsSequence(receipts)
    /\ pc \in Patched /\ req.mode = "SUPERVISED_APPLY" => CommitRecorded

LEMMA AppendKeeps ==
    ASSUME NEW s, IsSequence(s), NEW x
    PROVE  /\ IsSequence(Append(s, x))
           /\ Len(Append(s, x)) = Len(s) + 1 /\ Len(s) \in Nat
           /\ DOMAIN Append(s, x) = 1..(Len(s) + 1) /\ DOMAIN s = 1..Len(s)
           /\ \A i \in DOMAIN s : Append(s, x)[i] = s[i]
           /\ Append(s, x)[Len(s) + 1] = x
<1>1. PICK S : s \in Seq(S)
  BY DEF IsSequence
<1>2. s \in Seq(S \cup {x})
  BY <1>1
<1> QED
  BY <1>1, <1>2 DEF IsSequence

\* Steps in which the call ends, or no call is running.
Outside ==
    /\ pc' \in {"idle", "context"}
    /\ receipts' = receipts \/ receipts' = <<>>

LEMMA StepsOutside ==
    ASSUME [Next]_vars
    PROVE  \/ Outside
           \/ ReadContext \/ LoadOwn \/ LoadApproved \/ CreateProposal \/ ApplyPatch \/ RunTest
           \/ SkipTest \/ WriteManifest \/ WriteReport \/ WriteLoopReceipt
           \/ UNCHANGED <<documents, local, pc, result>>
<1>1. CASE ReadContextRejected \/ LoadRaises \/ RejectProposal \/ ApplyRejected \/ TestNotRun
           \/ ReturnSuccess \/ WriteFails \/ CreateProposalFails \/ ApplyRaises \/ ApplyRolledBack
           \/ Crash
  BY <1>1 DEF ReadContextRejected, LoadRaises, RejectProposal, ApplyRejected, TestNotRun,
              ReturnSuccess, WriteFails, CreateProposalFails, ApplyRaises, ApplyRolledBack, Crash,
              Failure, Raise, Forget, Outside
<1>2. CASE Submits
  BY <1>2 DEF Submits, RejectLoop, BeginLoop, BeginLoopFails, Raise, Forget, Outside, local
<1>3. CASE Approves \/ (\E d \in Dirs : Undo(d)) \/ (\E c \in Contents \cup {Missing} : Edit(c))
           \/ UNCHANGED vars
  BY <1>3 DEF Approves, Approve, Undo, Edit, Outside, vars, local
<1> QED
  BY <1>1, <1>2, <1>3, NextCases DEF Reads, Writes

LEMMA RecordedStep == LoopInv /\ RecordedInv /\ [Next]_vars => RecordedInv'
<1> SUFFICES ASSUME LoopInv, RecordedInv, [Next]_vars PROVE RecordedInv'
  OBVIOUS
<1>0. CallInv /\ IsSequence(receipts)
  BY DEF LoopInv, RecordedInv
<1>1. CASE Outside
  <2>1. IsSequence(<<>>)
    BY DEF IsSequence
  <2> QED
    BY <1>0, <1>1, <2>1 DEF Outside, RecordedInv, Patched
<1>2. CASE ReadContext
  <2> DEFINE h(i) == Hash([kind |-> "context", request |-> i])
  <2>1. req.context_requests \in Nat /\ receipts' = [i \in 1..req.context_requests |-> h(i)]
    BY <1>0, <1>2, LoopAssumption DEF ReadContext, CallInv
  <2> HIDE DEF h
  <2>2. receipts' \in Seq({h(i) : i \in 1..req.context_requests})
    BY <2>1
  <2> QED
    BY <1>2, <2>2 DEF ReadContext, RecordedInv, IsSequence, Patched
<1>3. CASE LoadOwn \/ LoadApproved \/ CreateProposal
  <2>1. PICK x : receipts' = Append(receipts, x)
    BY <1>3 DEF LoadOwn, LoadApproved, CreateProposal, Loaded
  <2>2. pc' = AfterProposal /\ req' = req
    BY <1>3 DEF LoadOwn, LoadApproved, CreateProposal
  <2> QED
    BY <1>0, <2>1, <2>2, AppendKeeps DEF RecordedInv, AfterProposal, Patched
<1>4. CASE ApplyPatch
  <2>1. /\ receipts' = Append(receipts, Hash(commits'[req.dir])) /\ req' = req
        /\ commits'[req.dir] = Commitment(Selected, workspace, Postimage)
    BY <1>4, CommitKeepsStore DEF ApplyPatch
  <2>2. Len(receipts) + 1 \in DOMAIN receipts' /\ IsSequence(receipts')
        /\ receipts'[Len(receipts) + 1] = Hash(commits'[req.dir])
    BY <1>0, <2>1, AppendKeeps
  <2> QED
    BY <2>1, <2>2 DEF RecordedInv, CommitRecorded, Commitment, Intact
<1>5. CASE RunTest
  <2>1. PICK x : receipts' = Append(receipts, x)
    BY <1>5 DEF RunTest
  <2>2. pc \in Patched /\ UNCHANGED <<req, commits>>
    BY <1>5 DEF RunTest, documents, Patched
  <2>3. IsSequence(receipts') /\ \A i \in DOMAIN receipts : i \in DOMAIN receipts' /\ receipts'[i] = receipts[i]
    BY <1>0, <2>1, AppendKeeps
  <2> QED
    BY <2>2, <2>3 DEF RecordedInv, CommitRecorded, Intact
<1>6. CASE SkipTest \/ WriteManifest \/ WriteReport \/ WriteLoopReceipt
  <2>1. pc \in Patched /\ UNCHANGED <<req, receipts, commits>>
    BY <1>6 DEF SkipTest, WriteManifest, WriteReport, WriteLoopReceipt, documents, local, Patched
  <2> QED
    BY <2>1 DEF RecordedInv, CommitRecorded, Intact
<1>7. CASE UNCHANGED <<documents, local, pc, result>>
  BY <1>7 DEF RecordedInv, CommitRecorded, Intact, documents, local
<1> QED
  BY <1>1, <1>2, <1>3, <1>4, <1>5, <1>6, <1>7, StepsOutside

THEOREM RecordedHolds == Spec => []RecordedInv
<1>1. Init => RecordedInv
  <2>1. IsSequence(<<>>)
    BY DEF IsSequence
  <2> QED
    BY <2>1 DEF Init, RecordedInv, Patched
<1> QED
  BY <1>1, RecordedStep, LoopInvHolds, PTL DEF Spec

\* Without edits the workspace is the commit's postimage, from the commit to the end
\* of the call and after a SUCCESS answer until the next call.
AppliedInv ==
    /\ pc \in Patched /\ req.mode = "SUPERVISED_APPLY" => workspace = commits[req.dir].postimage
    /\ PerformedMeansApplied

LEMMA AppliedStep ==
    ASSUME LoopInv, RecordedInv, [Next]_vars, edits = 0 => AppliedInv, edits' = 0
    PROVE  AppliedInv'
<1>0. CallInv /\ AppliedInv /\ edits = 0
  BY EditsGrow DEF LoopInv
<1>1. CASE ReadContext \/ LoadOwn \/ LoadApproved \/ CreateProposal
  <2>1. pc # "idle" /\ UNCHANGED <<req, result>>
        /\ (pc' \in {"proposal", "apply"} \/ req.mode # "SUPERVISED_APPLY")
    BY <1>1 DEF ReadContext, LoadOwn, LoadApproved, CreateProposal, AfterProposal
  <2> QED
    BY <1>0, <2>1 DEF AppliedInv, PerformedMeansApplied, Patched, CallInv, NoResult, Result, Answer
<1>2. CASE ApplyPatch
  <2>1. workspace' = commits'[req.dir].postimage /\ UNCHANGED <<req, result>>
    BY <1>2, CommitKeepsStore DEF ApplyPatch
  <2> QED
    BY <1>0, <1>2, <2>1 DEF AppliedInv, PerformedMeansApplied, CallInv, NoResult, Result, Answer, ApplyPatch
<1>3. CASE RunTest \/ SkipTest \/ WriteManifest \/ WriteReport \/ WriteLoopReceipt
  <2>1. pc \in Patched /\ UNCHANGED <<req, result, commits, workspace>>
    BY <1>3 DEF RunTest, SkipTest, WriteManifest, WriteReport, WriteLoopReceipt, documents, local, Patched
  <2> QED
    BY <1>0, <2>1 DEF AppliedInv, PerformedMeansApplied, Intact
<1>4. CASE ReturnSuccess
  <2>1. /\ result'.patch_apply_performed = (req.mode = "SUPERVISED_APPLY") /\ result'.dirs = {req.dir}
        /\ pc = "return" /\ pc' = "idle" /\ UNCHANGED <<workspace, commits>>
    BY <1>4 DEF ReturnSuccess, Answer, Forget, documents
  <2>2. pc' \notin Patched /\ pc \in Patched
    BY <2>1 DEF Patched
  <2> QED
    BY <1>0, <2>1, <2>2 DEF AppliedInv, PerformedMeansApplied, RecordedInv, CommitRecorded, Intact
<1>5. CASE ReadContextRejected \/ LoadRaises \/ RejectProposal \/ ApplyRejected \/ TestNotRun
           \/ WriteFails \/ CreateProposalFails \/ ApplyRaises \/ ApplyRolledBack \/ Crash
           \/ (\E d \in Dirs : Undo(d)) \/ Submits
  <2>1. pc' \in {"idle", "context"} /\ result'.patch_apply_performed = FALSE
    <3>1. CASE \E d \in Dirs : Undo(d)
      BY <3>1 DEF Undo, NoResult, Result, Answer
    <3>2. CASE Submits
      <4>1. pc' \in {"idle", "context"} /\ \E status, codes : result' = Result(status, codes)
        BY <3>2 DEF Submits, RejectLoop, BeginLoop, BeginLoopFails, Raise, Forget, NoResult
      <4> QED
        BY <4>1 DEF Result, Answer
    <3>3. CASE Crash
      BY <3>3 DEF Crash, Forget, Result, Answer
    <3>4. CASE Ends
      BY <3>4 DEF Ends, Forget, Result, Answer
    <3> QED
      BY <1>5, <3>1, <3>2, <3>3, <3>4, FailureEnds, RaiseEnds
         DEF ReadContextRejected, LoadRaises, RejectProposal, ApplyRejected, TestNotRun, WriteFails,
             CreateProposalFails, ApplyRaises, ApplyRolledBack
  <2> QED
    BY <2>1 DEF AppliedInv, PerformedMeansApplied, Patched
<1>6. CASE Approves \/ UNCHANGED vars
  BY <1>0, <1>6 DEF Approves, Approve, vars, documents, local, AppliedInv, PerformedMeansApplied, Intact
<1> QED
  BY <1>1, <1>2, <1>3, <1>4, <1>5, <1>6, NextCases, EditsGrow DEF Reads, Writes

\* As long as nobody else has edited the target, an answer with
\* patch_apply_performed = True comes with the postimage of its transaction.
THEOREM PerformedMeansAppliedHolds == Spec => [](edits = 0 => PerformedMeansApplied)
<1>1. Init => (edits = 0 => AppliedInv)
  BY DEF Init, AppliedInv, PerformedMeansApplied, Patched, NoResult, Result, Answer
<1>2. LoopInv /\ RecordedInv /\ (edits = 0 => AppliedInv) /\ [Next]_vars => (edits = 0 => AppliedInv)'
  BY AppliedStep
<1>3. (edits = 0 => AppliedInv) => (edits = 0 => PerformedMeansApplied)
  BY DEF AppliedInv
<1> QED
  BY <1>1, <1>2, <1>3, LoopInvHolds, RecordedHolds, PTL DEF Spec
-----------------------------------------------------------------------------
(* The documents of a successful run.                                      *)

\* Each document, once written, is that of the running call; a SUCCESS answer finds
\* them in agreement.
AgreementInv ==
    /\ pc \in {"report", "receipt", "return"} =>
           manifests[req.dir] = Manifest(req, proposal, receipts)
    /\ pc \in {"receipt", "return"} => reports[req.dir] = Report(req, proposal, receipts)
    /\ pc = "return" => loopReceipts[req.dir] = LoopReceipt(req, proposal, receipts)
    /\ SuccessDocumentsAgree

\* An answer without a run directory claims no documents.
LEMMA NothingClaimed ==
    ASSUME NEW status, NEW codes
    PROVE  Result(status, codes).dirs = {}
BY DEF Result, Answer

\* The event before the last one of a ledger with one more receipt is the last event of
\* the ledger without it.
LEMMA LastButOne ==
    ASSUME NEW s, IsSequence(s), NEW x
    PROVE  EventHash(Append(s, x), Len(Append(s, x)) - 1) = EventHash(s, Len(s))
<1>1. Len(Append(s, x)) - 1 = Len(s) /\ Len(s) \in Nat /\ \A i \in 1..Len(s) : Append(s, x)[i] = s[i]
  BY AppendKeeps
<1>2. SubSeq(Append(s, x), 1, Len(s)) = SubSeq(s, 1, Len(s))
  <2>1. SubSeq(Append(s, x), 1, Len(s)) = [i \in 1..Len(s) |-> Append(s, x)[i]]
    BY <1>1
  <2>2. SubSeq(s, 1, Len(s)) = [i \in 1..Len(s) |-> s[i]]
    BY <1>1
  <2> QED
    BY <1>1, <2>1, <2>2
<1> QED
  BY <1>1, <1>2 DEF EventHash

\* The documents of one call agree.
LEMMA DocumentsOfOneCall ==
    ASSUME RecordedInv, AgreementInv, CallInv, ReturnSuccess
    PROVE  SuccessDocumentsAgree'
<1> DEFINE d == req.dir
           w == LoopReceipt(req, proposal, receipts)
           p == Report(req, proposal, receipts)
           m == Manifest(req, proposal, receipts)
<1>1. loopReceipts'[d] = w /\ reports'[d] = p /\ manifests'[d] = m /\ commits' = commits
  BY DEF ReturnSuccess, AgreementInv, documents
<1>2. /\ result'.ledger = Append(receipts, Hash(w)) /\ result'.dirs = {d}
      /\ result'.patch_apply_performed = (req.mode = "SUPERVISED_APPLY")
  BY DEF ReturnSuccess, Answer
<1>3. Intact(w) /\ Intact(p) /\ Intact(m)
  BY DEF Intact, LoopReceipt, Report, Manifest
<1>4. /\ w.final_report = Hash(p) /\ w.replay_manifest = Hash(m)
      /\ p.replay_hash = m.replay_manifest_hash
      /\ m.rest.receipt_hashes = receipts /\ w.executor_receipt_hashes = receipts
      /\ m.rest.ledger_tail_hash = EventHash(receipts, Len(receipts))
      /\ p.ledger_hash = EventHash(receipts, Len(receipts))
  BY DEF LoopReceipt, Report, Manifest
<1>5. IsSequence(receipts)
  BY DEF RecordedInv
<1>6. req.mode = "SUPERVISED_APPLY" =>
          \E i \in DOMAIN receipts : receipts[i] = Hash(commits[d])
  BY DEF ReturnSuccess, RecordedInv, Patched, CommitRecorded
<1> HIDE DEF d, w, p, m
<1> DEFINE ledger == Append(receipts, Hash(w))
<1>7. EventHash(ledger, Len(ledger) - 1) = EventHash(receipts, Len(receipts))
  BY <1>5, LastButOne
<1>8. ledger[Len(ledger)] = Hash(w)
  BY <1>5, AppendKeeps
<1>9. result'.ledger = ledger
  BY <1>2
<1> HIDE DEF ledger
<1> SUFFICES ASSUME NEW e \in result'.dirs
             PROVE  LET written == loopReceipts'[e]
                    IN  /\ Intact(written) /\ Intact(reports'[e]) /\ Intact(manifests'[e])
                        /\ written.final_report = Hash(reports'[e])
                        /\ written.replay_manifest = Hash(manifests'[e])
                        /\ reports'[e].replay_hash = manifests'[e].replay_manifest_hash
                        /\ manifests'[e].rest.receipt_hashes = written.executor_receipt_hashes
                        /\ LET recorded == EventHash(result'.ledger, Len(result'.ledger) - 1)
                           IN  recorded = manifests'[e].rest.ledger_tail_hash
                               /\ recorded = reports'[e].ledger_hash
                        /\ result'.ledger[Len(result'.ledger)] = Hash(written)
                        /\ result'.patch_apply_performed =>
                               \E i \in DOMAIN written.executor_receipt_hashes :
                                   written.executor_receipt_hashes[i] = Hash(commits'[e])
  BY DEF SuccessDocumentsAgree, Intact, EventHash, Hash
<1>10. e = d
  BY <1>2
<1> QED
  BY <1>1, <1>2, <1>3, <1>4, <1>6, <1>7, <1>8, <1>9, <1>10

\* The end of a call without an answer, a new submission and an undo leave nothing to
\* agree on.
LEMMA NothingToAgree ==
    ASSUME pc' \in {"idle", "context"}, NEW status, NEW codes, result' = Result(status, codes)
    PROVE  AgreementInv'
BY NothingClaimed DEF AgreementInv, SuccessDocumentsAgree

\* Steps of a running call that write none of the three documents, or the next one.
LEMMA AgreementStep == LoopInv /\ RecordedInv /\ AgreementInv /\ [Next]_vars => AgreementInv'
<1> SUFFICES ASSUME LoopInv, RecordedInv, AgreementInv, [Next]_vars PROVE AgreementInv'
  OBVIOUS
<1>0. CallInv /\ DocumentsInv
  BY DEF LoopInv
\* A running call has given no answer yet.
<1>a. ASSUME pc # "idle", result' = result PROVE SuccessDocumentsAgree'
  <2>1. result'.dirs = {}
    BY <1>0, <1>a, NothingClaimed DEF CallInv, NoResult
  <2> QED
    BY <2>1 DEF SuccessDocumentsAgree
<1>1. CASE ReadContext \/ LoadOwn \/ LoadApproved \/ CreateProposal \/ ApplyPatch \/ RunTest \/ SkipTest
  <2>1. pc # "idle" /\ result' = result /\ pc' \in {"proposal", "apply", "test", "manifest"}
    BY <1>1 DEF ReadContext, LoadOwn, LoadApproved, CreateProposal, ApplyPatch, RunTest, SkipTest,
                AfterProposal
  <2> QED
    BY <1>a, <2>1 DEF AgreementInv
<1>2. CASE WriteManifest \/ WriteReport \/ WriteLoopReceipt
  <2>1. pc # "idle" /\ UNCHANGED <<result, req, proposal, receipts>>
    BY <1>2 DEF WriteManifest, WriteReport, WriteLoopReceipt, local
  <2>2. req.dir \in Dirs
    BY <1>0, <2>1, LoopAssumption DEF CallInv
  <2>3. CASE WriteManifest
    <3>1. pc' = "report" /\ manifests'[req.dir] = Manifest(req, proposal, receipts)
      BY <1>0, <2>2, <2>3 DEF WriteManifest, DocumentsInv
    <3> QED
      BY <1>a, <2>1, <3>1 DEF AgreementInv
  <2>4. CASE WriteReport
    <3>1. /\ pc = "report" /\ pc' = "receipt" /\ UNCHANGED manifests
          /\ reports'[req.dir] = Report(req, proposal, receipts)
      BY <1>0, <2>2, <2>4 DEF WriteReport, DocumentsInv
    <3> QED
      BY <1>a, <2>1, <3>1 DEF AgreementInv
  <2>5. CASE WriteLoopReceipt
    <3>1. /\ pc = "receipt" /\ UNCHANGED <<manifests, reports>>
          /\ loopReceipts'[req.dir] = LoopReceipt(req, proposal, receipts)
      BY <1>0, <2>2, <2>5 DEF WriteLoopReceipt, DocumentsInv
    <3> QED
      BY <1>a, <2>1, <3>1 DEF AgreementInv
  <2> QED
    BY <1>2, <2>3, <2>4, <2>5
<1>3. CASE ReturnSuccess
  BY <1>0, <1>3, DocumentsOfOneCall DEF AgreementInv, ReturnSuccess, Forget
<1>4. CASE Ends
  BY <1>4, NothingToAgree DEF Ends, Forget
<1>5. CASE Submits \/ (\E d \in Dirs : Undo(d))
  <2>1. pc' \in {"idle", "context"} /\ \E status, codes : result' = Result(status, codes)
    BY <1>5 DEF Submits, RejectLoop, BeginLoop, BeginLoopFails, Raise, Forget, NoResult, Undo
  <2> QED
    BY <2>1, NothingToAgree
<1>6. CASE UNCHANGED <<documents, local, pc, result>>
  BY <1>6 DEF AgreementInv, SuccessDocumentsAgree, documents, local, Manifest, Report, LoopReceipt,
              EventHash, Hash, Intact
<1>7. ReadContextRejected \/ LoadRaises \/ RejectProposal \/ ApplyRejected \/ TestNotRun
      \/ WriteFails \/ CreateProposalFails \/ ApplyRaises \/ ApplyRolledBack => Ends
  BY FailureEnds, RaiseEnds
     DEF ReadContextRejected, LoadRaises, RejectProposal, ApplyRejected, TestNotRun, WriteFails,
         CreateProposalFails, ApplyRaises, ApplyRolledBack
<1>8. Crash => Ends
  BY DEF Crash, Ends
<1>9. Approves \/ (\E c \in Contents \cup {Missing} : Edit(c)) \/ UNCHANGED vars
      => UNCHANGED <<documents, local, pc, result>>
  BY DEF Approves, Approve, Edit, vars
<1> QED
  BY <1>1, <1>2, <1>3, <1>4, <1>5, <1>6, <1>7, <1>8, <1>9, NextCases DEF Reads, Writes

\* The receipt, report and manifest of a SUCCESS answer name each other and the ledger
\* it returns, whatever earlier calls left in the run directory and whoever edits the
\* workspace.
THEOREM SuccessDocumentsAgreeHolds == Spec => []SuccessDocumentsAgree
<1>1. Init => AgreementInv
  BY NothingClaimed DEF Init, AgreementInv, SuccessDocumentsAgree, NoResult
<1>2. AgreementInv => SuccessDocumentsAgree
  BY DEF AgreementInv
<1> QED
  BY <1>1, <1>2, AgreementStep, LoopInvHolds, RecordedHolds, PTL DEF Spec
=============================================================================
