------------------------------ MODULE MCSpine -------------------------------
(***************************************************************************)
(* Two runs of one task under one packet, the second after an admission     *)
(* that was refused, and a run of another task.  The receipts are those     *)
(* that the components make.  Of most of them callers make the nodes that   *)
(* ledger and replay can take: the descriptor hash gets the prefix it       *)
(* lacks, or is left out, and the hash of the packet becomes a              *)
(* "receipt_hash".  Two nodes are receipts as they were returned.  Nothing  *)
(* hashes a receipt again after that, so a short name of its own stands for *)
(* each hash.                                                               *)
(***************************************************************************)
EXTENDS Spine, TLC

X == INSTANCE Executor

Payload(run) ==
    [fields |-> X!REQUIRED_FIELDS \cup {"executor_eligibility", "kernel_binding",
                                        "minimal_spine_binding"},
     untyped |-> {}, empty |-> {}, lacks |-> {}, says |-> {},
     task_id |-> IF run = "r3" THEN "t2" ELSE "t1", roots |-> << <<"out">> >>,
     artifacts |-> <<[artifact_class |-> "text", logical_path |-> <<"out", "a">>]>>,
     coverage |-> {"shared", "Replay"}]

Packet(run) == X!BuildAuthorityPacket(Payload(run), X!PacketDefaults(Payload(run)))

\* The runs of a task differ in the path they write.
Path(run) == IF run = "r2" THEN <<"out", "b">> ELSE <<"out", "a">>

Transaction(run) ==
    LET p == Payload(run) IN
    X!BeginWorkspaceTransaction(
      [task_id |-> p.task_id, descriptor_hash |-> X!PayloadHash(p), allowed_roots |-> p.roots,
       requested_paths |-> <<Path(run)>>, denied_paths |-> {}, symlink_policy |-> "reject"],
      p, Packet(run))

Artifact(run) ==
    LET t       == Transaction(run)
        binding == [task_id |-> t.body.task_id, descriptor_hash |-> t.body.descriptor_hash,
                    authority_receipt_hash |-> t.body.authority_receipt_hash,
                    transaction_hash |-> t.transaction_hash]
    IN  X!ArtifactReceipt([artifact_name |-> Path(run), artifact_type |-> "text",
                           content |-> <<"x">>] @@ binding,
                          [allowed_artifact_types |-> {"text"}, max_size_bytes |-> 1] @@ binding)

WriteRequest(run) ==
    [payload |-> Payload(run), claimed |-> Payload(run), packet |-> Packet(run),
     transaction |-> Transaction(run), artifact |-> Artifact(run),
     output_path |-> Path(run), content |-> <<"x">>]

ASSUME \A run \in Runs : X!RequestAccepted(WriteRequest(run))

Executor(run) == X!ExecutorReceipt(WriteRequest(run))

\* The second run's packet is damaged when it is admitted.
Admission(run) ==
    X!AuthorizedAdmission(
      IF run = "r2" THEN [Packet(run) EXCEPT !.packet_id = <<>>] ELSE Packet(run), Payload(run))

ASSUME \A run \in Runs : Admission(run).body.accepted <=> run # "r2"

\* The hashes that the receipts of a run have.
ReceiptHashes(run) ==
    [descriptor |-> X!PayloadHash(Payload(run)), authority |-> Packet(run).payload_hash,
     workspace |-> Transaction(run).transaction_hash, artifact |-> Artifact(run).receipt_hash,
     content |-> Artifact(run).body.content_hash, executor |-> Executor(run).receipt_hash]

\* Short names that tell those of a kind apart.
Owner(run, kind) ==
    CASE kind \in {"descriptor", "authority"} -> Payload(run).task_id
      [] kind = "content"                     -> "any"
      [] OTHER                                -> run

ASSUME \A run, other \in Runs : \A kind \in DOMAIN ReceiptHashes(run) :
    ReceiptHashes(run)[kind] = ReceiptHashes(other)[kind] <=> Owner(run, kind) = Owner(other, kind)

\* The receipts name the hashes that they were made from.
ASSUME \A run \in Runs :
    LET hashes == ReceiptHashes(run)
        names(body, fields) == \A f \in DOMAIN fields : body[f] = fields[f]
        task   == [task_id |-> Payload(run).task_id, descriptor_hash |-> hashes.descriptor,
                   authority_receipt_hash |-> hashes.authority]
        text   == [transaction_hash |-> hashes.workspace, content_hash |-> hashes.content] @@ task
    IN  /\ names(Transaction(run).body, task)
        /\ names(Artifact(run).body, text)
        /\ names(Executor(run).body, [artifact_receipt_hash |-> hashes.artifact] @@ text)

\* What a caller makes of the receipts of a run.
MCNodes(run) ==
    LET hash(kind) == Hash(<<kind, Owner(run, kind)>>)
        task == [task_id |-> Payload(run).task_id] @@
                IF run = "r2" THEN <<>> ELSE [descriptor_hash |-> hash("descriptor")]
        made == [authority_receipt_hash |-> hash("authority")] @@ task
        text == [workspace_transaction_receipt_hash |-> hash("workspace"),
                 content_hash |-> hash("content")] @@ made
        executor == [artifact_receipt_hash |-> hash("artifact"),
                     receipt_hash |-> hash("executor")] @@ text
        only(r, nodes) == IF run = r THEN nodes ELSE {}
    IN  [admission |-> {[receipt_hash |-> hash("admission"), accepted |-> run # "r2"]},
         authority |->
            {[receipt_hash |-> hash("authority")] @@ task}
            \cup only("r1", {[payload_hash |-> hash("authority")]}),
         workspace_transaction |-> {[transaction_hash |-> hash("workspace")] @@ made},
         artifact |-> {[receipt_hash |-> hash("artifact")] @@ text},
         executor |->
            {executor} \cup
            only("r1", {[executor EXCEPT !.descriptor_hash = <<"hex", @[2]>>]}),
         validation |->
            {[receipt_hash |-> hash("validation")] @@
             IF run = "r2" THEN <<>> ELSE [executor_receipt_hash |-> hash("executor")]}]

MCHashes(run) ==
    LET hash(kind) == Hash(<<kind, Owner(run, kind)>>) IN
    [authority_receipt_hash |-> hash("authority"),
     workspace_transaction_receipt_hash |-> hash("workspace"),
     artifact_receipt_hash |-> hash("artifact"), executor_receipt_hash |-> hash("executor"),
     validation_receipt_hash |-> hash("validation")]

MCTask(run) ==
    [task_id |-> Payload(run).task_id,
     descriptor_hash |-> Hash(<<"descriptor", Owner(run, "descriptor")>>)]

MCNodesOf  == [r1 |-> MCNodes("r1"), r2 |-> MCNodes("r2"), r3 |-> MCNodes("r3")]
MCTaskOf   == [r1 |-> MCTask("r1"), r2 |-> MCTask("r2"), r3 |-> MCTask("r3")]
MCHashesOf == [r1 |-> MCHashes("r1"), r2 |-> MCHashes("r2"), r3 |-> MCHashes("r3")]

Demand(run, path, claims, required) ==
    [task |-> MCTask(run), output_path |-> path, allowed_roots |-> {<<"out">>},
     denied_paths |-> {<<"out", "hidden">>}, capability_claims |-> claims,
     required_event_types |-> required]

MCDemands ==
    {Demand("r1", <<"out", "a">>, {}, {}), Demand("r3", <<"out", "a">>, {}, {"executor_completed"}),
     Demand("r1", <<"out", ".", "hidden">>, {}, {}),
     Demand("r1", <<"out", "a">>, {"PRODUCTION_READY"}, {})}
=============================================================================
