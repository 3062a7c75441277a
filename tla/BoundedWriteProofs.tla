------------------------ MODULE BoundedWriteProofs -------------------------
(***************************************************************************)
(* What is proved of the bounded executor, for any payloads, documents,    *)
(* paths, links and callers.                                               *)
(***************************************************************************)
EXTENDS BoundedWrite, TLAPS

-----------------------------------------------------------------------------
(* The documents: what a hash binds.                                       *)

\* A packet has the hash of its body, and a transaction receipt that is as it was
\* returned has the roots of the packet it names.
DocumentsInv ==
    /\ \A packet \in packets : packet = CompletePacketHash(packet.body)
    /\ issued \subseteq transactions
    /\ \A t \in issued : \E packet \in packets :
           /\ t.body.authority_receipt_hash = packet.payload_hash
           /\ t.body.allowed_roots = Sorted(packet.body.allowed_roots)

\* The steps that concern documents and links leave calls and files alone, and the
\* steps of a call leave the documents and links alone.
EnvironmentStep ==
    /\ UNCHANGED <<files, call, receipts>>
    /\ packets \subseteq packets' /\ transactions \subseteq transactions'
    /\ artifacts \subseteq artifacts'

CallerStep(c) ==
    \/ Execute(c) \/ OpenTarget(c) \/ WriteText(c) \/ ReturnReceipt(c)
    \/ StoppedBeforeOpen(c) \/ Interrupted(c)

LEMMA StepKinds ==
    ASSUME [Next]_vars
    PROVE  EnvironmentStep \/ \E c \in Callers : CallerStep(c)
<1>1. ASSUME NEW p \in ValidPayloads, IssuePacket(p) \/ BeginTransaction(p) PROVE EnvironmentStep
  <2>1. CASE IssuePacket(p)
    BY <2>1 DEF IssuePacket, EnvironmentStep
  <2>2. CASE BeginTransaction(p)
    <3>1. \E t : transactions' = transactions \cup {t}
      BY <2>2 DEF BeginTransaction
    <3> QED
      BY <2>2, <3>1 DEF BeginTransaction, EnvironmentStep
  <2> QED
    BY <1>1, <2>1, <2>2
<1>2. CASE StoreArtifact
  <2>1. \E receipt : artifacts' = artifacts \cup {receipt}
    BY <1>2 DEF StoreArtifact
  <2> QED
    BY <1>2, <2>1 DEF StoreArtifact, EnvironmentStep
<1>3. CASE AlterTransaction
  <2>1. \E receipt : transactions' = transactions \cup {receipt}
    BY <1>3 DEF AlterTransaction
  <2> QED
    BY <1>3, <2>1 DEF AlterTransaction, EnvironmentStep
<1>4. CASE AlterArtifact
  <2>1. \E receipt : artifacts' = artifacts \cup {receipt}
    BY <1>4 DEF AlterArtifact
  <2> QED
    BY <1>4, <2>1 DEF AlterArtifact, EnvironmentStep
<1>5. CASE Relink
  BY <1>5 DEF Relink, EnvironmentStep, documents
<1>6. CASE UNCHANGED vars
  BY <1>6 DEF vars, documents, EnvironmentStep
<1> QED
  BY <1>1, <1>2, <1>3, <1>4, <1>5, <1>6 DEF Next, CallerStep

LEMMA CallerStepKeeps ==
    ASSUME NEW c \in Callers, CallerStep(c)
    PROVE  UNCHANGED <<packets, transactions, artifacts, issued, link, relinks>>
BY DEF CallerStep, Execute, OpenTarget, WriteText, ReturnReceipt, StoppedBeforeOpen, Interrupted,
       documents, links

LEMMA DocumentsStep == DocumentsInv /\ [Next]_vars => DocumentsInv'
<1> SUFFICES ASSUME DocumentsInv, [Next]_vars PROVE DocumentsInv'
  OBVIOUS
<1>1. CASE UNCHANGED <<packets, issued>> /\ transactions \subseteq transactions'
  BY <1>1 DEF DocumentsInv
<1>2. ASSUME NEW p \in ValidPayloads, IssuePacket(p) PROVE DocumentsInv'
  <2>1. PICK body : packets' = packets \cup {CompletePacketHash(body)}
    BY <1>2 DEF IssuePacket, BuildAuthorityPacket
  <2>2. UNCHANGED <<transactions, issued>>
    BY <1>2 DEF IssuePacket
  <2>3. \A packet \in packets' : packet = CompletePacketHash(packet.body)
    BY <2>1 DEF DocumentsInv, CompletePacketHash
  <2> QED
    BY <2>1, <2>2, <2>3 DEF DocumentsInv
<1>3. ASSUME NEW p \in ValidPayloads, BeginTransaction(p) PROVE DocumentsInv'
  <2>1. PICK packet \in packets, request \in WorkspaceRequests(p) :
            /\ transactions' = transactions \cup {BeginWorkspaceTransaction(request, p, packet)}
            /\ issued' = issued \cup {BeginWorkspaceTransaction(request, p, packet)}
    BY <1>3 DEF BeginTransaction
  <2>2. UNCHANGED packets
    BY <1>3 DEF BeginTransaction
  <2> DEFINE t == BeginWorkspaceTransaction(request, p, packet)
  <2>3. /\ t.body.authority_receipt_hash = packet.payload_hash
        /\ t.body.allowed_roots = Sorted(packet.body.allowed_roots)
    BY DEF BeginWorkspaceTransaction
  <2>4. transactions' = transactions \cup {t} /\ issued' = issued \cup {t}
    BY <2>1
  <2> HIDE DEF t
  <2> QED
    BY <2>2, <2>3, <2>4 DEF DocumentsInv
<1>4. StoreArtifact \/ AlterTransaction \/ AlterArtifact \/ Relink \/ UNCHANGED vars
      => UNCHANGED <<packets, issued>>
  BY DEF StoreArtifact, AlterTransaction, AlterArtifact, Relink, vars, documents
<1>5. ASSUME NEW c \in Callers, CallerStep(c) PROVE DocumentsInv'
  BY <1>1, <1>5, CallerStepKeeps
<1>6. ASSUME EnvironmentStep, UNCHANGED <<packets, issued>> PROVE DocumentsInv'
  BY <1>1, <1>6 DEF EnvironmentStep
<1>7. StoreArtifact \/ AlterTransaction \/ AlterArtifact \/ Relink \/ UNCHANGED vars => DocumentsInv'
  BY <1>4, <1>5, <1>6, StepKinds
<1> QED
  BY <1>2, <1>3, <1>5, <1>7 DEF Next, CallerStep

\* sorted() keeps the values of a list.
LEMMA SortedDomain ==
    ASSUME NEW list
    PROVE  DOMAIN Sorted(list) = {list[i] : i \in DOMAIN list}
BY DEF Sorted

\* A packet is known by its hash: a transaction receipt that is as it was returned has
\* the roots of the packet of the request, whichever packet it was made for.
LEMMA IssuedRoots ==
    ASSUME DocumentsInv, NEW t \in issued, NEW packet \in packets,
           t.body.authority_receipt_hash = packet.payload_hash
    PROVE  t.body.allowed_roots = Sorted(packet.body.allowed_roots)
<1>1. PICK other \in packets : /\ t.body.authority_receipt_hash = other.payload_hash
                               /\ t.body.allowed_roots = Sorted(other.body.allowed_roots)
  BY DEF DocumentsInv
<1>2. packet.payload_hash = Hash(packet.body) /\ other.payload_hash = Hash(other.body)
  BY DEF DocumentsInv, CompletePacketHash
<1>3. Hash(other.body) = Hash(packet.body)
  BY <1>1, <1>2
<1>4. other.body = packet.body
  BY <1>3 DEF Hash
<1> QED
  BY <1>1, <1>4

\* An accepted request has documents that authorise it.
LEMMA AcceptedAuthorised ==
    ASSUME DocumentsInv, NEW request \in Requests, RequestAccepted(request)
    PROVE  Authorised(request)
<1> DEFINE t == request.transaction
           p == request.payload
           a == request.artifact
           packet == request.packet
           path == request.output_path
<1>1. t \in transactions /\ packet \in packets
  BY DEF Requests
<1>2. /\ AuthorityVerified(packet, p) /\ VerifyTransactionReceipt(t)
      /\ t.body.authority_receipt_hash = packet.payload_hash
      /\ t.body.task_id = p.task_id /\ t.body.descriptor_hash = PayloadHash(p)
  BY DEF RequestAccepted, TransactionMatches
<1>3. /\ PathAllowed(path, DOMAIN t.body.allowed_roots, t.body.denied_paths)
      /\ NormalizePath(path) \in {NormalizePath(q) : q \in DOMAIN t.body.requested_paths}
  BY DEF RequestAccepted, OutputPathAllowed
<1>4. /\ NormalizePath(path) \notin {NormalizePath(d) : d \in t.body.denied_paths}
      /\ \E root \in DOMAIN t.body.allowed_roots : PathWithinRoot(path, root)
  BY <1>3 DEF PathAllowed
<1>5. Sorted(packet.body.allowed_roots) = Sorted(p.roots)
  BY <1>2 DEF AuthorityVerified
<1>6. ASSUME t \in issued PROVE UnderTaskRoot(path, p)
  <2>1. t.body.allowed_roots = Sorted(p.roots)
    BY <1>1, <1>2, <1>5, <1>6, IssuedRoots
  <2>2. DOMAIN t.body.allowed_roots = {p.roots[i] : i \in DOMAIN p.roots}
    BY <2>1, SortedDomain
  <2> QED
    BY <1>4, <2>2 DEF UnderTaskRoot
<1>7. /\ VerifyArtifactReceipt(a) /\ a.body.transaction_hash = t.transaction_hash
      /\ a.body.task_id = p.task_id /\ a.body.descriptor_hash = PayloadHash(p)
  BY DEF RequestAccepted, ArtifactMatches
<1>8. \A d \in {t.body, a.body} : <<d.task_id, d.descriptor_hash>> = <<p.task_id, PayloadHash(p)>>
  BY <1>2, <1>7
<1> HIDE DEF t, p, packet, path, a
<1>9. t = request.transaction /\ p = request.payload /\ a = request.artifact
      /\ packet = request.packet /\ path = request.output_path
  BY DEF t, p, packet, path, a
<1> QED
  BY <1>2, <1>3, <1>4, <1>6, <1>7, <1>8, <1>9 DEF Authorised
-----------------------------------------------------------------------------
(* The calls.                                                              *)

Positions == {"write", "stopped", "opened", "receipt", "done", "failed"}

\* A call past its checks keeps a request that was accepted.
Running(record) ==
    /\ record = [pc |-> record.pc, request |-> record.request, at |-> record.at]
    /\ record.pc \in Positions
    /\ record.request \in Requests /\ RequestAccepted(record.request)
    /\ record.at \in Locations

CallInv ==
    /\ link \in LinkTargets /\ relinks \in 0..MaxRelinks
    /\ DOMAIN call = Callers
    /\ \A c \in Callers : call[c] = Idle \/ Running(call[c])

LEMMA ResolveLocation ==
    ASSUME link \in LinkTargets, NEW path \in OutputPaths
    PROVE  Resolve(path) \in Locations
BY DEF Resolve, Locations

\* What a step of a call does to the calls: the call begins, or it moves on with its
\* request, and the others are as they were.
LEMMA CallMoves ==
    ASSUME CallInv, NEW c \in Callers, CallerStep(c)
    PROVE  /\ DOMAIN call' = Callers
           /\ \A e \in Callers : e # c => call'[e] = call[e]
           /\ call'[c] # Idle /\ Running(call'[c])
           /\ \/ Execute(c) /\ call[c] = Idle /\ call'[c].pc = "write"
              \/ ~Execute(c) /\ call[c] # Idle /\ call'[c].request = call[c].request
<1>1. CASE Execute(c)
  <2>1. PICK request \in Requests :
            /\ RequestAccepted(request)
            /\ call' = [call EXCEPT ![c] = [pc |-> "write", request |-> request,
                                            at |-> Resolve(request.output_path)]]
    BY <1>1 DEF Execute
  <2>2. /\ DOMAIN call' = Callers /\ \A e \in Callers : e # c => call'[e] = call[e]
        /\ call'[c] = [pc |-> "write", request |-> request, at |-> Resolve(request.output_path)]
    BY <2>1 DEF CallInv
  <2>3. request.output_path \in OutputPaths
    BY DEF Requests
  <2>4. Resolve(request.output_path) \in Locations
    BY <2>3, ResolveLocation DEF CallInv
  <2>5. Running(call'[c]) /\ call'[c] # Idle /\ call'[c].pc = "write"
    BY <2>1, <2>2, <2>4 DEF Running, Positions, Idle
  <2>6. call[c] = Idle
    BY <1>1 DEF Execute
  <2> QED
    BY <1>1, <2>2, <2>5, <2>6
<1>2. CASE OpenTarget(c) \/ WriteText(c) \/ ReturnReceipt(c) \/ StoppedBeforeOpen(c) \/ Interrupted(c)
  <2>0. call[c].pc \in {"write", "opened", "receipt"}
    BY <1>2 DEF OpenTarget, WriteText, ReturnReceipt, StoppedBeforeOpen, Interrupted
  <2>1. call[c] # Idle
    BY <2>0 DEF Idle
  <2>2. Running(call[c])
    BY <2>1 DEF CallInv
  <2>3. Target(c) \in Locations
    BY <2>2, ResolveLocation DEF CallInv, Target, Running, Requests
  <2>4. \E to \in Positions : \/ call' = [call EXCEPT ![c].pc = to]
                              \/ call' = [call EXCEPT ![c].pc = to, ![c].at = Target(c)]
    BY <1>2 DEF OpenTarget, WriteText, ReturnReceipt, StoppedBeforeOpen, Interrupted, Positions
  <2>5. PICK to \in Positions, where \in Locations :
            /\ DOMAIN call' = Callers /\ \A e \in Callers : e # c => call'[e] = call[e]
            /\ call'[c] = [pc |-> to, request |-> call[c].request, at |-> where]
    <3>1. PICK to \in Positions : \/ call' = [call EXCEPT ![c].pc = to]
                                  \/ call' = [call EXCEPT ![c].pc = to, ![c].at = Target(c)]
      BY <2>4
    <3>2. call[c] = [pc |-> call[c].pc, request |-> call[c].request, at |-> call[c].at]
          /\ call[c].at \in Locations
      BY <2>2 DEF Running
    <3>3. CASE call' = [call EXCEPT ![c].pc = to]
      BY <3>2, <3>3 DEF CallInv
    <3>4. CASE call' = [call EXCEPT ![c].pc = to, ![c].at = Target(c)]
      BY <2>3, <3>2, <3>4 DEF CallInv
    <3> QED
      BY <3>1, <3>3, <3>4
  <2>6. Running(call'[c]) /\ call'[c] # Idle /\ call'[c].request = call[c].request
    BY <2>2, <2>5 DEF Running, Idle
  <2>7. ~Execute(c)
    BY <2>1 DEF Execute
  <2> QED
    BY <2>1, <2>5, <2>6, <2>7
<1> QED
  BY <1>1, <1>2 DEF CallerStep

LEMMA RequestsGrow ==
    ASSUME [Next]_vars
    PROVE  Requests \subseteq Requests'
<1>1. packets \subseteq packets' /\ transactions \subseteq transactions' /\ artifacts \subseteq artifacts'
  BY StepKinds, CallerStepKeeps DEF EnvironmentStep
<1> QED
  BY <1>1 DEF Requests

LEMMA CallStep == CallInv /\ [Next]_vars => CallInv'
<1> SUFFICES ASSUME CallInv, [Next]_vars PROVE CallInv'
  OBVIOUS
<1>1. link' \in LinkTargets /\ relinks' \in 0..MaxRelinks
  <2>1. CASE Relink
    BY <2>1, BoundsAssumption DEF Relink, CallInv
  <2>2. CASE ~Relink
    <3>1. UNCHANGED <<link, relinks>>
      <4>1. ASSUME NEW p \in ValidPayloads, IssuePacket(p) \/ BeginTransaction(p)
            PROVE  UNCHANGED <<link, relinks>>
        BY <4>1 DEF IssuePacket, BeginTransaction, links
      <4>2. StoreArtifact \/ AlterTransaction \/ AlterArtifact \/ UNCHANGED vars
            => UNCHANGED <<link, relinks>>
        BY DEF StoreArtifact, AlterTransaction, AlterArtifact, vars, links
      <4> QED
        BY <2>2, <4>1, <4>2, CallerStepKeeps DEF Next, CallerStep
    <3> QED
      BY <3>1 DEF CallInv
  <2> QED
    BY <2>1, <2>2
<1>2. \A record : Running(record) => Running(record)'
  BY RequestsGrow DEF Running
<1>3. CASE EnvironmentStep
  BY <1>1, <1>2, <1>3 DEF CallInv, EnvironmentStep
<1>4. ASSUME NEW c \in Callers, CallerStep(c) PROVE CallInv'
  BY <1>1, <1>2, <1>4, CallMoves DEF CallInv
<1> QED
  BY <1>3, <1>4, StepKinds

-----------------------------------------------------------------------------
(* The files.                                                              *)

\* The calls that may have left a location short.
Short(c, l) == Wrote(c, l) /\ call[c].pc \in {"opened", "failed"}

\* Of everything at the location l a writer can be named.
FileInv(l) ==
    \/ files[l] = Absent
    \/ /\ files[l] = File(files[l].texts, files[l].whole) /\ files[l].whole \in BOOLEAN
       /\ \E c \in Callers : Wrote(c, l)
       /\ \A x \in files[l].texts : \E c \in Callers : Wrote(c, l) /\ call[c].request.content = x
       /\ files[l].whole => files[l].texts # {}
       /\ ~files[l].whole => \E c \in Callers : Short(c, l)

FilesInv ==
    /\ DOMAIN files = Locations
    /\ \A l \in Locations : FileInv(l)
    /\ \A c \in Callers, l \in Locations : Wrote(c, l) => files[l] # Absent

\* A call that has opened a location stays one that has.
LEMMA WroteStays ==
    ASSUME CallInv, NEW c \in Callers, CallerStep(c), NEW e \in Callers, NEW l, Wrote(e, l)
    PROVE  /\ Wrote(e, l)' /\ call'[e].request = call[e].request
           /\ Short(e, l) => Short(e, l)' \/ (e = c /\ WriteText(c))
<1>1. CASE e # c
  <2>1. call'[e] = call[e]
    BY <1>1, CallMoves
  <2> QED
    BY <2>1 DEF Wrote, Short
<1>2. CASE e = c
  <2>1. call[c] # Idle /\ call[c].pc \notin {"write", "stopped"} /\ call[c].at = l
    BY <1>2 DEF Wrote
  <2>2. WriteText(c) \/ ReturnReceipt(c) \/ Interrupted(c)
    BY <2>1 DEF CallerStep, Execute, OpenTarget, StoppedBeforeOpen
  <2>3. PICK to \in {"receipt", "done", "failed"} : call' = [call EXCEPT ![c].pc = to]
    BY <2>2 DEF WriteText, ReturnReceipt, Interrupted
  <2>4. call[c] = [pc |-> call[c].pc, request |-> call[c].request, at |-> call[c].at]
    BY <2>1 DEF CallInv, Running
  <2>5. call'[c] = [pc |-> to, request |-> call[c].request, at |-> call[c].at]
    BY <2>3, <2>4 DEF CallInv
  <2>6. call'[c] # Idle /\ call'[c].pc = to /\ call'[c].at = l /\ call'[c].request = call[c].request
    BY <2>1, <2>5 DEF Idle
  <2>7. Wrote(c, l)'
    BY <2>6 DEF Wrote
  <2>8. CASE ReturnReceipt(c)
    BY <1>2, <2>6, <2>7, <2>8 DEF ReturnReceipt, Short
  <2>9. CASE Interrupted(c)
    <3>1. call'[c].pc = "failed"
      BY <2>4, <2>9 DEF Interrupted, CallInv
    <3> QED
      BY <1>2, <2>6, <2>7, <3>1 DEF Short
  <2> QED
    BY <1>2, <2>2, <2>6, <2>7, <2>8, <2>9
<1> QED
  BY <1>1, <1>2

\* A location at which a step changes nothing keeps its writers.
LEMMA UntouchedFile ==
    ASSUME CallInv, NEW c \in Callers, CallerStep(c), NEW l, FileInv(l), files'[l] = files[l],
           Short(c, l) => ~WriteText(c)
    PROVE  FileInv(l)'
<1>1. \A e \in Callers : Wrote(e, l) => Wrote(e, l)' /\ call'[e].request = call[e].request
  BY WroteStays
<1>2. \A e \in Callers : Short(e, l) => Short(e, l)'
  BY WroteStays DEF Short
<1>3. CASE files[l] = Absent
  BY <1>3 DEF FileInv
<1>4. CASE files[l] # Absent
  <2>1. \E e \in Callers : Wrote(e, l)'
    BY <1>1, <1>4 DEF FileInv
  <2>2. \A x \in files'[l].texts : \E e \in Callers : Wrote(e, l)' /\ call'[e].request.content = x
    BY <1>1, <1>4 DEF FileInv
  <2>3. ~files'[l].whole => \E e \in Callers : Short(e, l)'
    BY <1>2, <1>4 DEF FileInv
  <2>4. /\ files'[l] = File(files'[l].texts, files'[l].whole) /\ files'[l].whole \in BOOLEAN
        /\ files'[l].whole => files'[l].texts # {}
    BY <1>4 DEF FileInv
  <2> QED
    BY <2>1, <2>2, <2>3, <2>4 DEF FileInv
<1> QED
  BY <1>3, <1>4

\* The location a call has opened, after a step of the call that leaves a file there.
LEMMA TouchedFile ==
    ASSUME CallInv, NEW c \in Callers, CallerStep(c), NEW l, FileInv(l),
           NEW texts, NEW whole \in BOOLEAN, files'[l] = File(texts, whole),
           Wrote(c, l)', whole => texts # {}, ~whole => \E e \in Callers : Short(e, l)',
           \A x \in texts : \/ x = call'[c].request.content
                            \/ files[l] # Absent /\ x \in files[l].texts
    PROVE  FileInv(l)'
<1>1. files'[l].texts = texts /\ files'[l].whole = whole
  BY DEF File
<1>2. ASSUME NEW x \in texts
      PROVE  \E e \in Callers : Wrote(e, l)' /\ call'[e].request.content = x
  <2>1. CASE x = call'[c].request.content
    BY <2>1
  <2>2. CASE files[l] # Absent /\ x \in files[l].texts
    <3>1. PICK e \in Callers : Wrote(e, l) /\ call[e].request.content = x
      BY <2>2 DEF FileInv
    <3> QED
      BY <3>1, WroteStays
  <2> QED
    BY <1>2, <2>1, <2>2
<1> QED
  BY <1>1, <1>2 DEF FileInv

LEMMA FilesStep == CallInv /\ FilesInv /\ [Next]_vars => FilesInv'
<1> SUFFICES ASSUME CallInv, FilesInv, [Next]_vars PROVE FilesInv'
  OBVIOUS
<1>1. CASE EnvironmentStep
  BY <1>1 DEF EnvironmentStep, FilesInv, FileInv, Wrote, Short
<1>2. ASSUME NEW c \in Callers, CallerStep(c) PROVE FilesInv'
  <2>0. PICK at \in Locations : at = call'[c].at
    BY <1>2, CallMoves DEF Running
  <2>1. /\ call'[c] # Idle /\ at = call'[c].at /\ DOMAIN call' = Callers
        /\ \A e \in Callers : e # c => call'[e] = call[e]
    BY <1>2, <2>0, CallMoves
  <2>2. ASSUME DOMAIN files' = Locations,
               \A l \in Locations : l # at => files'[l] = files[l],
               FileInv(at)', Wrote(c, at)' => files'[at] # Absent,
               WriteText(c) => call[c].at = at,
               files[at] # Absent => files'[at] # Absent
        PROVE  FilesInv'
    <3>1. ASSUME NEW l \in Locations, l # at PROVE FileInv(l)'
      <4>1. Short(c, l) => ~WriteText(c)
        BY <2>2, <3>1 DEF Short, Wrote
      <4> QED
        BY <1>2, <2>2, <3>1, <4>1, UntouchedFile DEF FilesInv
    <3>2. ASSUME NEW e \in Callers, NEW l \in Locations, Wrote(e, l)' PROVE files'[l] # Absent
      <4>1. CASE e = c
        BY <2>1, <2>2, <3>2, <4>1 DEF Wrote
      <4>2. CASE e # c
        <5>1. Wrote(e, l)
          BY <2>1, <3>2, <4>2 DEF Wrote
        <5> QED
          BY <2>2, <5>1 DEF FilesInv
      <4> QED
        BY <4>1, <4>2
    <3> QED
      BY <2>2, <3>1, <3>2 DEF FilesInv
  <2>3. CASE Execute(c)
    <3>1. files' = files /\ call[c] = Idle /\ call'[c].pc = "write"
      BY <1>2, <2>3, CallMoves DEF Execute
    <3>2. ~Wrote(c, at)' /\ ~WriteText(c) /\ ~Short(c, at)
      BY <3>1 DEF Wrote, Short, WriteText, Idle
    <3>3. FileInv(at)'
      BY <1>2, <2>1, <3>1, <3>2, UntouchedFile DEF FilesInv
    <3> QED
      BY <2>2, <3>1, <3>2, <3>3 DEF FilesInv
  <2>4. CASE ~Execute(c)
    <3>1. call[c] # Idle /\ call'[c].request = call[c].request
          /\ call[c] = [pc |-> call[c].pc, request |-> call[c].request, at |-> call[c].at]
          /\ call[c].at \in Locations
      BY <1>2, <2>4, CallMoves DEF CallInv, Running
    <3>2. CASE StoppedBeforeOpen(c) \/ ReturnReceipt(c)
      <4>1. files' = files /\ ~WriteText(c)
        BY <3>2 DEF StoppedBeforeOpen, ReturnReceipt, WriteText
      <4>2. PICK to : call' = [call EXCEPT ![c].pc = to]
        BY <3>2 DEF StoppedBeforeOpen, ReturnReceipt
      <4>3. call'[c].at = call[c].at
        BY <3>1, <4>2 DEF CallInv
      <4>4. Wrote(c, at)' => Wrote(c, at)
        <5>1. CASE StoppedBeforeOpen(c)
          <6>1. call'[c].pc = "stopped"
            BY <3>1, <5>1 DEF StoppedBeforeOpen, CallInv
          <6> QED
            BY <6>1 DEF Wrote
        <5>2. CASE ReturnReceipt(c)
          BY <3>1, <4>3, <5>2 DEF ReturnReceipt, Wrote
        <5> QED
          BY <3>2, <5>1, <5>2
      <4>5. FileInv(at)'
        BY <1>2, <2>1, <4>1, UntouchedFile DEF FilesInv
      <4> QED
        BY <2>1, <2>2, <4>1, <4>4, <4>5 DEF FilesInv
    <3>3. CASE OpenTarget(c)
      <4>1. /\ call[c].pc = "write" /\ files' = [files EXCEPT ![Target(c)] = File({}, FALSE)]
            /\ call' = [call EXCEPT ![c].pc = "opened", ![c].at = Target(c)]
        BY <3>3 DEF OpenTarget
      <4>2. call'[c].pc = "opened" /\ at = Target(c)
        BY <2>1, <3>1, <4>1 DEF CallInv
      <4>3. /\ DOMAIN files' = Locations /\ files'[at] = File({}, FALSE)
            /\ \A l \in Locations : l # at => files'[l] = files[l]
        BY <2>1, <4>1, <4>2 DEF FilesInv
      <4>4. Wrote(c, at)' /\ Short(c, at)'
        BY <2>1, <4>2 DEF Wrote, Short
      <4>5. FileInv(at)
        BY <2>1 DEF FilesInv
      <4>6. ~WriteText(c) /\ files'[at] # Absent
        BY <4>1, <4>3 DEF WriteText, File, Absent
      <4>7. FileInv(at)'
        <5>1. files'[at].texts = {} /\ files'[at].whole = FALSE
          BY <4>3 DEF File
        <5> QED
          BY <4>3, <4>4, <5>1 DEF FileInv
      <4> QED
        BY <2>2, <4>3, <4>4, <4>6, <4>7
    <3>4. CASE WriteText(c) \/ Interrupted(c)
      <4>1. /\ call[c].pc \in {"opened", "receipt"}
            /\ \E to \in {"receipt", "failed"} : call' = [call EXCEPT ![c].pc = to]
        BY <3>4 DEF WriteText, Interrupted
      <4>2. PICK to \in {"receipt", "failed"} : call' = [call EXCEPT ![c].pc = to]
        BY <4>1
      <4>3. at = call[c].at /\ call'[c].pc = to
        BY <2>1, <3>1, <4>2 DEF CallInv
      <4>4. Wrote(c, at) /\ Wrote(c, at)'
        BY <2>1, <3>1, <4>1, <4>3 DEF Wrote
      <4>5. FileInv(at) /\ files[at] # Absent
        BY <2>1, <4>4 DEF FilesInv
      <4>6. PICK texts \in SUBSET (files[at].texts \cup {call[c].request.content}),
                 whole \in BOOLEAN :
                /\ files' = [files EXCEPT ![at] = File(texts, whole)]
                /\ whole => texts # {}
                /\ ~whole => \E e \in Callers : Short(e, at)'
        <5>1. CASE WriteText(c)
          <6>1. files' = [files EXCEPT ![at] =
                              File(files[at].texts \cup {call[c].request.content}, TRUE)]
            BY <4>3, <5>1 DEF WriteText
          <6> QED
            BY <6>1
        <5>2. CASE Interrupted(c)
          <6>1. PICK part \in SUBSET {call[c].request.content} :
                    files' = [files EXCEPT ![at] = File(files[at].texts \cup part, files[at].whole)]
            BY <4>3, <5>2 DEF Interrupted
          <6>2. call'[c].pc = "failed"
            BY <3>1, <5>2 DEF Interrupted, CallInv
          <6>3. Short(c, at)'
            BY <4>4, <6>2 DEF Short
          <6>4. files[at].whole \in BOOLEAN /\ (files[at].whole => files[at].texts # {})
            BY <4>5 DEF FileInv
          <6> QED
            BY <6>1, <6>3, <6>4
        <5> QED
          BY <3>4, <5>1, <5>2
      <4>7. /\ DOMAIN files' = Locations /\ files'[at] = File(texts, whole)
            /\ \A l \in Locations : l # at => files'[l] = files[l]
        BY <2>1, <4>6 DEF FilesInv
      <4>8. files'[at] # Absent
        BY <4>7 DEF File, Absent
      <4>9. FileInv(at)'
        BY <1>2, <3>1, <4>4, <4>5, <4>6, <4>7, TouchedFile
      <4> QED
        BY <2>2, <4>3, <4>7, <4>8, <4>9
    <3> QED
      BY <1>2, <2>4, <3>2, <3>3, <3>4 DEF CallerStep
  <2> QED
    BY <2>3, <2>4
<1> QED
  BY <1>1, <1>2, StepKinds

\* The receipt of a call that has returned is among the receipts.
ReceiptsInv ==
    \A c \in Callers : call[c] # Idle /\ call[c].pc = "done"
                       => ExecutorReceipt(call[c].request) \in receipts

LEMMA ReceiptsStep == CallInv /\ ReceiptsInv /\ [Next]_vars => ReceiptsInv'
<1> SUFFICES ASSUME CallInv, ReceiptsInv, [Next]_vars PROVE ReceiptsInv'
  OBVIOUS
<1>1. CASE EnvironmentStep
  BY <1>1 DEF EnvironmentStep, ReceiptsInv
<1>2. ASSUME NEW c \in Callers, CallerStep(c), NEW e \in Callers,
             call'[e] # Idle, call'[e].pc = "done"
      PROVE  ExecutorReceipt(call'[e].request) \in receipts'
  <2>1. receipts \subseteq receipts'
    BY <1>2 DEF CallerStep, Execute, OpenTarget, WriteText, ReturnReceipt, StoppedBeforeOpen, Interrupted
  <2>2. CASE e # c
    <3>1. call'[e] = call[e]
      BY <1>2, <2>2, CallMoves
    <3> QED
      BY <1>2, <2>1, <3>1 DEF ReceiptsInv
  <2>3. CASE e = c /\ ReturnReceipt(c)
    <3>1. ~Execute(c)
      BY <2>3 DEF ReturnReceipt, Execute, Idle
    <3>2. call'[c].request = call[c].request
      BY <1>2, <3>1, CallMoves
    <3> QED
      BY <2>3, <3>2 DEF ReturnReceipt
  <2>4. CASE e = c /\ ~ReturnReceipt(c)
    <3>1. ~Execute(c)
      BY <1>2, <2>4, CallMoves
    <3>2. \E to \in {"opened", "receipt", "stopped", "failed"} :
              \/ call' = [call EXCEPT ![c].pc = to]
              \/ call' = [call EXCEPT ![c].pc = to, ![c].at = Target(c)]
      BY <1>2, <2>4, <3>1 DEF CallerStep, OpenTarget, WriteText, StoppedBeforeOpen, Interrupted
    <3>3. call[c] = [pc |-> call[c].pc, request |-> call[c].request, at |-> call[c].at]
      BY <1>2, <3>1, CallMoves DEF CallInv, Running
    <3>4. call'[c].pc # "done"
      BY <3>2, <3>3 DEF CallInv
    <3> QED
      BY <1>2, <2>4, <3>4
  <2> QED
    BY <2>2, <2>3, <2>4
<1> QED
  BY <1>1, <1>2, StepKinds DEF ReceiptsInv
-----------------------------------------------------------------------------
(* The theorems.                                                           *)

WriteInv == DocumentsInv /\ CallInv /\ FilesInv /\ ReceiptsInv

LEMMA WriteInvHolds == Spec => []WriteInv
<1>1. Init => WriteInv
  BY BoundsAssumption
     DEF Init, WriteInv, DocumentsInv, CallInv, FilesInv, FileInv, Wrote, ReceiptsInv, Idle
<1>2. WriteInv /\ [Next]_vars => WriteInv'
  BY DocumentsStep, CallStep, FilesStep, ReceiptsStep DEF WriteInv
<1> QED
  BY <1>1, <1>2, PTL DEF Spec

\* Type correctness of the bounded executor.
THEOREM TypeCorrect == Spec => []TypeOK
<1>1. WriteInv => TypeOK
  <2> SUFFICES ASSUME WriteInv PROVE TypeOK
    OBVIOUS
  <2>1. ASSUME NEW l \in Locations, files[l] # Absent
        PROVE  \E texts \in SUBSET Contents, whole \in BOOLEAN : files[l] = File(texts, whole)
    <3>1. /\ files[l] = File(files[l].texts, files[l].whole) /\ files[l].whole \in BOOLEAN
          /\ \A x \in files[l].texts : \E c \in Callers : Wrote(c, l) /\ call[c].request.content = x
      BY <2>1 DEF WriteInv, FilesInv, FileInv
    <3>2. \A c \in Callers : call[c] # Idle => call[c].request.content \in Contents
      BY DEF WriteInv, CallInv, Running, Requests
    <3>3. files[l].texts \in SUBSET Contents
      BY <3>1, <3>2 DEF Wrote
    <3> QED
      BY <3>1, <3>3
  <2>2. ASSUME NEW c \in Callers, call[c] # Idle
        PROVE  /\ call[c].pc \in {"write", "stopped", "opened", "receipt", "done", "failed"}
               /\ call[c].at \in Locations
               /\ call[c].request.payload \in ValidPayloads
    BY <2>2 DEF WriteInv, CallInv, Running, Requests, Positions
  <2> QED
    BY <2>1, <2>2 DEF TypeOK, WriteInv, CallInv, FilesInv, DocumentsInv
<1> QED
  BY <1>1, WriteInvHolds, PTL

\* Whatever documents a request combined, altered and hashed again or not: every call that
\* opened a file had documents of one task that name each other and allow the path, within
\* the task's own roots if its transaction receipt is as it was returned, and every byte of
\* a file comes from a text that the artifact receipt of such a call names.
THEOREM WrittenAsAuthorisedHolds == Spec => []WrittenAsAuthorised
<1>1. WriteInv => WrittenAsAuthorised
  <2> SUFFICES ASSUME WriteInv, NEW l \in Locations, files[l] # Absent
               PROVE  /\ \E c \in Callers : Wrote(c, l)
                      /\ \A c \in Callers : Wrote(c, l) => Authorised(call[c].request)
                      /\ \A text \in files[l].texts : \E c \in Callers :
                             /\ Wrote(c, l)
                             /\ call[c].request.artifact.body.content_hash = Hash(text)
    BY DEF WrittenAsAuthorised
  <2>1. ASSUME NEW c \in Callers, Wrote(c, l)
        PROVE  call[c].request \in Requests /\ RequestAccepted(call[c].request)
    BY <2>1 DEF WriteInv, CallInv, Running, Wrote
  <2>2. \A c \in Callers : Wrote(c, l) => Authorised(call[c].request)
    BY <2>1, AcceptedAuthorised DEF WriteInv
  <2>3. /\ \E c \in Callers : Wrote(c, l)
        /\ \A x \in files[l].texts : \E c \in Callers : Wrote(c, l) /\ call[c].request.content = x
    BY DEF WriteInv, FilesInv, FileInv
  <2>4. \A c \in Callers : Wrote(c, l) =>
            call[c].request.artifact.body.content_hash = Hash(call[c].request.content)
    BY <2>1 DEF RequestAccepted, ExpectedHash
  <2> QED
    BY <2>2, <2>3, <2>4
<1> QED
  BY <1>1, WriteInvHolds, PTL

\* The receipt of a call describes the file it wrote as long as no call with a different
\* text opened that file, and no call that opened it is unfinished.
THEOREM SoleWriterReceiptStands == Spec => []SoleWriterReceiptHolds
<1>1. WriteInv => SoleWriterReceiptHolds
  <2> SUFFICES ASSUME WriteInv, NEW c \in Callers, call[c] # Idle, call[c].pc = "done"
               PROVE  LET l == call[c].at
                          r == ExecutorReceipt(call[c].request)
                      IN  /\ r \in receipts
                          /\ (\A e \in Callers : Wrote(e, l) =>
                                  Hash(call[e].request.content) = r.body.content_hash)
                             => \/ \E x \in Contents : files[l] = Text(x) /\ Hash(x) = r.body.content_hash
                                \/ \E e \in Callers : Wrote(e, l) /\ call[e].pc \in {"opened", "failed"}
    BY DEF SoleWriterReceiptHolds
  <2> DEFINE l == call[c].at
             r == ExecutorReceipt(call[c].request)
  <2>1. r \in receipts
    BY DEF WriteInv, ReceiptsInv
  <2>2. Wrote(c, l) /\ l \in Locations
    BY DEF Wrote, WriteInv, CallInv, Running
  <2>3. files[l] # Absent
    BY <2>2 DEF WriteInv, FilesInv
  <2>4. /\ files[l] = File(files[l].texts, files[l].whole) /\ files[l].whole \in BOOLEAN
        /\ \A x \in files[l].texts : \E e \in Callers : Wrote(e, l) /\ call[e].request.content = x
        /\ files[l].whole => files[l].texts # {}
        /\ ~files[l].whole => \E e \in Callers : Short(e, l)
    BY <2>2, <2>3 DEF WriteInv, FilesInv, FileInv
  <2> HIDE DEF l, r
  <2>5. ASSUME \A e \in Callers : Wrote(e, l) => Hash(call[e].request.content) = r.body.content_hash,
               files[l].whole
        PROVE  \E x \in Contents : files[l] = Text(x) /\ Hash(x) = r.body.content_hash
    <3>1. PICK x \in files[l].texts : TRUE
      BY <2>4, <2>5
    <3>2. \A y \in files[l].texts : Hash(y) = r.body.content_hash /\ y \in Contents
      <4>1. \A e \in Callers : Wrote(e, l) => call[e].request.content \in Contents
        BY DEF Wrote, WriteInv, CallInv, Running, Requests
      <4> QED
        BY <2>4, <2>5, <4>1
    <3>3. \A y \in files[l].texts : Hash(y) = Hash(x)
      BY <3>2
    <3>4. files[l].texts = {x}
      BY <3>3 DEF Hash
    <3> QED
      BY <2>4, <2>5, <3>2, <3>4 DEF Text
  <2>6. ~files[l].whole => \E e \in Callers : Wrote(e, l) /\ call[e].pc \in {"opened", "failed"}
    BY <2>4 DEF Short
  <2> QED
    BY <2>1, <2>4, <2>5, <2>6 DEF l, r
<1> QED
  BY <1>1, WriteInvHolds, PTL
=============================================================================
