---------------------------- MODULE BoundedWrite ----------------------------
(***************************************************************************)
(* The bounded executor (executor/__init__.py) with the documents it asks  *)
(* for: an authority packet, a workspace transaction receipt and an        *)
(* artifact receipt.  The documents of all tasks lie in one place, a       *)
(* request may combine any of them, and executors that run at the same     *)
(* time share the files of the one workspace root they all name.  Receipts  *)
(* kept outside the program may come back changed, and links in the         *)
(* workspace may be changed by others at any time.                          *)
(***************************************************************************)
EXTENDS Executor

CONSTANTS
    Callers,               \* who calls the executor, once each
    Payloads,              \* the descriptor payloads of the tasks
    PacketOverrides(_),    \* the keyword arguments build_authority_packet gets
    WorkspaceRequests(_),  \* what begin_workspace_transaction is asked
    OutputPaths,           \* artifact names and output paths
    Contents,              \* texts, as sequences of bytes
    StoreLimits,           \* max_size_bytes of the store's policy
    LinkedDirectory,       \* a directory of the workspace
    LinkTargets,           \* where it may really be: itself, or where a symbolic
                           \* link leads, "/" first outside the workspace
    MaxDocuments,          \* bound on the documents of all kinds together
    MaxRelinks             \* bound on the changes of the link

ASSUME BoundsAssumption == MaxDocuments \in Nat /\ MaxRelinks \in Nat

\* The payloads for which compute_descriptor_payload_hash does not raise.
ValidPayloads == {p \in Payloads : PayloadErrors(p) = {}}

VARIABLES
    packets, transactions, artifacts,  \* the documents that callers have
    issued,      \* the transaction receipts as they were returned
    files,       \* location -> what is there
    link,        \* where LinkedDirectory really is
    relinks,     \* how often that was changed
    call,        \* caller -> where its call of the executor is, its request, and
                 \* where the output path led when it was last followed
    receipts     \* the executor receipts that were returned

documents == <<packets, transactions, artifacts, issued>>
links     == <<link, relinks>>
vars      == <<documents, files, links, call, receipts>>

\* Path.resolve: where a relative path leads.
ResolvedIn(path, target) ==
    IF PathWithinRoot(path, LinkedDirectory)
    THEN target \o SubSeq(NormalizePath(path), Len(LinkedDirectory) + 1,
                          Len(NormalizePath(path)))
    ELSE NormalizePath(path)

Resolve(path) == ResolvedIn(path, link)
Locations     == {ResolvedIn(path, target) : path \in OutputPaths, target \in LinkTargets}

\* A file, with the texts that bytes of it come from (calls that have it open at
\* the same time write over each other) and whether the last write was ended.
File(texts, whole) == [kind |-> "file", texts |-> texts, whole |-> whole]
Text(content)      == File({content}, TRUE)

Idle == [pc |-> "idle"]

Init ==
    /\ packets = {} /\ transactions = {} /\ artifacts = {} /\ issued = {}
    /\ files = [l \in Locations |-> Absent]
    /\ link \in LinkTargets /\ relinks = 0
    /\ call = [c \in Callers |-> Idle]
    /\ receipts = {}

Room == Cardinality(packets) + Cardinality(transactions) + Cardinality(artifacts) < MaxDocuments

-----------------------------------------------------------------------------
(* The documents                                                           *)

IssuePacket(p) ==
    /\ Room
    /\ \E over \in PacketOverrides(p) : packets' = packets \cup {BuildAuthorityPacket(p, over)}
    /\ UNCHANGED <<transactions, artifacts, issued, files, links, call, receipts>>

BeginTransaction(p) ==
    /\ Room
    /\ \E packet \in packets, request \in WorkspaceRequests(p) :
          LET t == BeginWorkspaceTransaction(request, p, packet)
          IN  transactions' = transactions \cup {t} /\ issued' = issued \cup {t}
    /\ UNCHANGED <<packets, artifacts, files, links, call, receipts>>

\* The store's policy.  The binding to a task and the binding to a transaction come
\* from receipts that need not be the same one, and the store cannot tell.
StorePolicy(task, t, limit) ==
    [task_id |-> task.body.task_id, descriptor_hash |-> task.body.descriptor_hash,
     authority_receipt_hash |-> t.body.authority_receipt_hash,
     transaction_hash |-> t.transaction_hash,
     allowed_artifact_types |-> {"text"}, max_size_bytes |-> limit]

\* A request that repeats the bindings of its policy.
StoreRequest(policy, name, type, content) ==
    [task_id |-> policy.task_id, descriptor_hash |-> policy.descriptor_hash,
     authority_receipt_hash |-> policy.authority_receipt_hash,
     transaction_hash |-> policy.transaction_hash,
     artifact_name |-> name, artifact_type |-> type, content |-> content,
     manifest |-> [artifact_name |-> name, artifact_type |-> type],
     expected_content_hash |-> Hash(content)]

StoreArtifact ==
    /\ Room
    /\ \E task, t \in transactions, name \in OutputPaths, type \in {"text", "binary"},
          content \in Contents, limit \in StoreLimits :
          LET policy  == StorePolicy(task, t, limit)
              request == StoreRequest(policy, name, type, content)
          IN  /\ ArtifactStored(request, policy)
              /\ artifacts' = artifacts \cup {ArtifactReceipt(request, policy)}
    /\ UNCHANGED <<packets, transactions, issued, files, links, call, receipts>>

\* A transaction receipt comes back changed: other paths, nothing denied, and
\* perhaps the roots of another task.  The hash has no key, so whoever changed
\* the receipt may have hashed it again.
AlteredBodies(t) ==
    {[t.body EXCEPT !.denied_paths = {}, !.requested_paths = Sorted(<<path>>),
                    !.allowed_roots = roots] :
         path \in OutputPaths,
         roots \in {t.body.allowed_roots} \cup {Sorted(p.roots) : p \in ValidPayloads}}

AlterTransaction ==
    /\ Room
    /\ \E t \in transactions : \E body \in AlteredBodies(t) :
       \E hash \in {t.transaction_hash, Hash(body)} :
          transactions' = transactions \cup {[body |-> body, transaction_hash |-> hash]}
    /\ UNCHANGED <<packets, artifacts, issued, files, links, call, receipts>>

\* An artifact receipt comes back with the hash of another text.
AlterArtifact ==
    /\ Room
    /\ \E a \in artifacts, content \in Contents :
          LET body == [a.body EXCEPT !.content_hash = Hash(content)] IN
          \E hash \in {a.receipt_hash, Hash(body)} :
             artifacts' = artifacts \cup {[body |-> body, receipt_hash |-> hash]}
    /\ UNCHANGED <<packets, transactions, issued, files, links, call, receipts>>

\* Somebody else replaces the directory by a link, or a link by another.
Relink ==
    /\ relinks < MaxRelinks
    /\ \E target \in LinkTargets \ {link} : link' = target
    /\ relinks' = relinks + 1
    /\ UNCHANGED <<documents, files, call, receipts>>

-----------------------------------------------------------------------------
(* execute_write_text_artifact                                             *)

Requests ==
    [payload : ValidPayloads, claimed : ValidPayloads, packet : packets,
     transaction : transactions, artifact : artifacts, output_path : OutputPaths,
     content : Contents]

InsideWorkspace(location) == ~IsAbsolute(location)

\* A call that is refused returns a rejection and leaves everything as it is.
\* The last check follows the links and compares where the path leads with the
\* root.
Execute(c) ==
    /\ call[c] = Idle
    /\ \E request \in Requests :
          LET at == Resolve(request.output_path) IN
          /\ RequestAccepted(request)
          /\ InsideWorkspace(at)
          /\ call' = [call EXCEPT ![c] = [pc |-> "write", request |-> request, at |-> at]]
    /\ UNCHANGED <<documents, files, links, receipts>>

\* mkdir and write_text take the path as it was spelled and follow the links
\* again; mkdir changes nothing that is modelled.
Target(c) == Resolve(call[c].request.output_path)

\* write_text opens the file, which empties it ...
OpenTarget(c) ==
    /\ call[c].pc = "write"
    /\ files' = [files EXCEPT ![Target(c)] = File({}, FALSE)]
    /\ call' = [call EXCEPT ![c].pc = "opened", ![c].at = Target(c)]
    /\ UNCHANGED <<documents, links, receipts>>

\* Mutant: the hash goes to the file instead of the text.
WriteTextHash(c) ==
    /\ call[c].pc = "opened"
    /\ files' = [files EXCEPT ![call[c].at] = Text(ExpectedHash(call[c].request))]
    /\ call' = [call EXCEPT ![c].pc = "receipt"]
    /\ UNCHANGED <<documents, links, receipts>>

\* ... and writes from its beginning, over what other calls that had it open
\* have written since.
WriteText(c) ==
    LET there == files[call[c].at] IN
    /\ call[c].pc = "opened"
    /\ files' = [files EXCEPT ![call[c].at] =
                     File(there.texts \cup {call[c].request.content}, TRUE)]
    /\ call' = [call EXCEPT ![c].pc = "receipt"]
    /\ UNCHANGED <<documents, links, receipts>>

\* Mutant: a write that failed is reported like one that succeeded.
ReturnReceiptAnyway(c) ==
    /\ call[c].pc \in {"receipt", "failed"}
    /\ receipts' = receipts \cup {ExecutorReceipt(call[c].request)}
    /\ call' = [call EXCEPT ![c].pc = "done"]
    /\ UNCHANGED <<documents, files, links>>

ReturnReceipt(c) ==
    /\ call[c].pc = "receipt"
    /\ receipts' = receipts \cup {ExecutorReceipt(call[c].request)}
    /\ call' = [call EXCEPT ![c].pc = "done"]
    /\ UNCHANGED <<documents, files, links>>

\* mkdir or open raises, or the process dies before the file is open.
StoppedBeforeOpen(c) ==
    /\ call[c].pc = "write"
    /\ call' = [call EXCEPT ![c].pc = "stopped"]
    /\ UNCHANGED <<documents, files, links, receipts>>

\* The write raises, or the process dies: no receipt, and what was written so far
\* stays, a part of the text or nothing of it.
Interrupted(c) ==
    LET there == files[call[c].at] IN
    /\ call[c].pc \in {"opened", "receipt"}
    /\ \E part \in SUBSET {call[c].request.content} :
          /\ call[c].pc = "receipt" => part = {}
          /\ files' = [files EXCEPT ![call[c].at] = File(there.texts \cup part, there.whole)]
    /\ call' = [call EXCEPT ![c].pc = "failed"]
    /\ UNCHANGED <<documents, links, receipts>>

Next ==
    \/ \E p \in ValidPayloads : IssuePacket(p) \/ BeginTransaction(p)
    \/ StoreArtifact \/ AlterTransaction \/ AlterArtifact \/ Relink
    \/ \E c \in Callers : \/ Execute(c) \/ OpenTarget(c) \/ WriteText(c)
                          \/ ReturnReceipt(c) \/ StoppedBeforeOpen(c) \/ Interrupted(c)

Spec == Init /\ [][Next]_vars

-----------------------------------------------------------------------------
(* Properties                                                              *)

\* Documents, calls and locations keep their types, and only requests over valid
\* payloads get past the checks of execute_write_text_artifact.
TypeOK ==
    /\ DOMAIN files = Locations
    /\ \A l \in Locations :
          files[l] = Absent \/ \E texts \in SUBSET Contents, whole \in BOOLEAN :
                                  files[l] = File(texts, whole)
    /\ link \in LinkTargets /\ relinks \in 0..MaxRelinks
    /\ issued \subseteq transactions
    /\ \A c \in Callers : call[c] = Idle \/
          /\ call[c].pc \in {"write", "stopped", "opened", "receipt", "done", "failed"}
          /\ call[c].at \in Locations
          /\ call[c].request.payload \in ValidPayloads

\* The calls that have opened a location.
Wrote(c, l) ==
    call[c] # Idle /\ call[c].pc \notin {"write", "stopped"} /\ call[c].at = l

\* A path lies under a root of the task's own descriptor.
UnderTaskRoot(path, p) == \E i \in DOMAIN p.roots : PathWithinRoot(path, p.roots[i])

\* The documents of a request are of one task, each has the hash of what it says,
\* and they name each other; the path is one the transaction was asked for and
\* does not deny.  A transaction receipt that is as it was returned holds the
\* path within the roots of the task.
Authorised(request) ==
    LET p == request.payload
        t == request.transaction
        a == request.artifact
        path == NormalizePath(request.output_path)
    IN  /\ AuthorityVerified(request.packet, p)
        /\ VerifyTransactionReceipt(t) /\ VerifyArtifactReceipt(a)
        /\ \A d \in {t.body, a.body} :
               <<d.task_id, d.descriptor_hash>> = <<p.task_id, PayloadHash(p)>>
        /\ t.body.authority_receipt_hash = request.packet.payload_hash
        /\ a.body.transaction_hash = t.transaction_hash
        /\ path \in {NormalizePath(q) : q \in DOMAIN t.body.requested_paths}
        /\ path \notin {NormalizePath(q) : q \in t.body.denied_paths}
        /\ t \in issued => UnderTaskRoot(request.output_path, p)

\* Whatever documents a request combined, altered and hashed again or not, and
\* whatever happened to the calls afterwards (execute_write_text_artifact): every
\* call that opened a file was authorised to, and every byte of the file comes
\* from a text that the artifact receipt of such a call names.
WrittenAsAuthorised ==
    \A l \in Locations : files[l] # Absent =>
        /\ \E c \in Callers : Wrote(c, l)
        /\ \A c \in Callers : Wrote(c, l) => Authorised(call[c].request)
        /\ \A text \in files[l].texts : \E c \in Callers :
               Wrote(c, l) /\ call[c].request.artifact.body.content_hash = Hash(text)

\* An executor receipt is made from the request, after the file was written: it
\* describes the file the call wrote, wherever links led by then, as long as no
\* call with a different text has opened that file (under any spelling of its
\* path, before, after or at the same time); a call that opened it again and has
\* not ended its write, or failed in it, is the one thing that may leave it short.
SoleWriterReceiptHolds ==
    \A c \in Callers : call[c] # Idle /\ call[c].pc = "done" =>
        LET l == call[c].at
            r == ExecutorReceipt(call[c].request)
        IN  /\ r \in receipts
            /\ (\A e \in Callers : Wrote(e, l) => Hash(call[e].request.content) = r.body.content_hash)
               => \/ \E x \in Contents : files[l] = Text(x) /\ Hash(x) = r.body.content_hash
                  \/ \E e \in Callers : Wrote(e, l) /\ call[e].pc \in {"opened", "failed"}

\* "It requires R114 authority, R115 workspace transaction, and R116 artifact
\* receipt bindings before writing": a file is written for a transaction that
\* begin_workspace_transaction prepared, and did not reject.
WrittenOnlyWhenPrepared ==
    \A c \in Callers, l \in Locations :
        Wrote(c, l) => call[c].request.transaction.body.accepted

\* The same sentence, of the roots: a file is written under the roots that the
\* descriptor of the task names and its packet carries.
WrittenUnderTaskRoots ==
    \A c \in Callers, l \in Locations :
        Wrote(c, l) => UnderTaskRoot(call[c].request.output_path, call[c].request.payload)

\* "... before writing one text artifact into an isolated workspace root": no
\* file outside the workspace root is opened.
WrittenInsideWorkspace == \A l \in Locations : files[l] # Absent => ~IsAbsolute(l)
=============================================================================
