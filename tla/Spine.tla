------------------------------- MODULE Spine --------------------------------
(***************************************************************************)
(* seal_unified_local_spine (spine/__init__.py) with the ledger and the     *)
(* replay it rests on: a ledger that grows while it is replayed and sealed, *)
(* and callers who put requests together from the receipts of several runs  *)
(* and from replays made at different times.  Callers also make the nodes   *)
(* of the receipt graph, from receipts that say more, less or the same in   *)
(* another form; nothing is assumed of a node but of the executor's.        *)
(***************************************************************************)
EXTENDS Replay, Paths

CONSTANTS
    Runs,            \* runs of write_text_artifact tasks
    TaskOf,          \* run -> task_id and descriptor_hash
    HashesOf,        \* run -> the receipt hashes its events name
    NodesOf,         \* run -> kind -> what callers make of that receipt of the run
    EventTypes,      \* the event types in use
    Demands,         \* the rest of a request to seal: task, output path with its
                     \* roots and denied paths, claims, required event types
    MaxEvents        \* bound on the length of the ledger

\* An executor receipt names the receipts it was made from (_executor_receipt), and
\* callers hand it on with these names.
ASSUME RunsAssumption ==
    /\ MaxEvents \in Nat /\ EventTypes \subseteq ALLOWED_EVENT_TYPES
    /\ \A run \in Runs : \A node \in NodesOf[run]["executor"] :
          /\ {"task_id", "receipt_hash"} \subseteq DOMAIN node
          /\ node.task_id = TaskOf[run].task_id
          /\ node.receipt_hash = HashesOf[run].executor_receipt_hash
          /\ \A f \in {"authority_receipt_hash", "workspace_transaction_receipt_hash",
                       "artifact_receipt_hash"} :
                 f \in DOMAIN node /\ node[f] = HashesOf[run][f]

VARIABLES
    ledger,    \* the ledger as it is kept
    replay,    \* the last replay receipt, with what it was asked for
    seal       \* the seal receipt, with what it was given for

vars == <<ledger, replay, seal>>

Init == ledger = <<>> /\ replay = Absent /\ seal = Absent

\* The model follows the evidence up to its first seal.
Unsealed == seal = Absent

\* f, and what g has more.
With(f, g) == [x \in DOMAIN f \cup DOMAIN g |-> IF x \in DOMAIN f THEN f[x] ELSE g[x]]

Nodes(kind) == UNION {NodesOf[run][kind] : run \in Runs}

Tasks == {TaskOf[run] : run \in Runs}

\* The receipts a caller puts together: any of each kind, of any runs, and a
\* validation receipt or none.
Graphs ==
    {[authority |-> authority, workspace_transaction |-> workspace, artifact |-> artifact,
      executor |-> executor, validation |-> validation] :
        authority \in Nodes("authority"), workspace \in Nodes("workspace_transaction"),
        artifact \in Nodes("artifact"), executor \in Nodes("executor"),
        validation \in Nodes("validation") \cup {NoReceipt}}

\* node.get(f)
Field(node, f) == IF f \in DOMAIN node THEN node[f] ELSE None

\* The hashes that the receipts of a graph say they have.
GraphHashes(graph) ==
    [authority_receipt_hash |-> Field(graph.authority, "receipt_hash"),
     workspace_transaction_receipt_hash |-> Field(graph.workspace_transaction, "transaction_hash"),
     artifact_receipt_hash |-> Field(graph.artifact, "receipt_hash"),
     executor_receipt_hash |-> Field(graph.executor, "receipt_hash"),
     validation_receipt_hash |-> Field(graph.validation, "receipt_hash"),
     artifact_content_hash |-> Field(graph.artifact, "content_hash"),
     executor_output_hash |-> Field(graph.executor, "content_hash")]

\* What a caller expects: the task of a run, and such hashes as there are.
Expectation(task, hashes) ==
    With([task_id |-> task.task_id, descriptor_hash |-> task.descriptor_hash],
         [f \in {f \in DOMAIN hashes : hashes[f] # None} |-> hashes[f]])

\* The receipts a caller may give, with the hashes it may expect of them.  What a
\* replay refuses, and with it the seal, whatever the ledger is left out; it takes
\* no other hash than the receipt's own but of a validation receipt.
Combinations ==
    LET hashes(graph) == {[GraphHashes(graph) EXCEPT !.validation_receipt_hash = hash] :
                             hash \in {GraphHashes(other).validation_receipt_hash : other \in Graphs}}
    IN  UNION {{c \in [task : Tasks, hashes : hashes(graph), graph : {graph}] :
                  GraphBound(graph, Expectation(c.task, c.hashes))} : graph \in Graphs}

-----------------------------------------------------------------------------
(* The ledger and its replay                                               *)

\* An event of a run names the receipts its type calls for.
EventOf(run, type, id) ==
    [event_id |-> id, previous_event_hash |-> TerminalHash(ledger), event_type |-> type,
     task_id |-> TaskOf[run].task_id, descriptor_hash |-> TaskOf[run].descriptor_hash,
     receipts |-> [f \in {RECEIPT_HASHES[i] : i \in 1..EVENT_REQUIRED_RECEIPT_HASHES[type]}
                      |-> HashesOf[run][f]],
     others |-> {}, event_hash |-> None]

RecordEvent(run, type) ==
    LET event == EventOf(run, type, <<run, type>>) IN
    /\ Unsealed /\ Len(ledger) < MaxEvents
    /\ AppendAccepted(ledger, event)
    /\ ledger' = Appended(ledger, event)
    /\ UNCHANGED <<replay, seal>>

\* The ledger is kept as a list: an older copy comes back.
RestoreLedger ==
    /\ Unsealed
    /\ \E n \in 0..(Len(ledger) - 1) : ledger' = SubSeq(ledger, 1, n)
    /\ UNCHANGED <<replay, seal>>

\* What a replay is asked to find, of a ledger that is or is not expected to be
\* the kept one.
ReplayAsked(c, anchored) ==
    With(IF anchored THEN [count |-> Len(ledger), terminal |-> TerminalHash(ledger),
                           required_event_types |-> {}]
                     ELSE [required_event_types |-> {}], Expectation(c.task, c.hashes))

\* validate_replay_against_expected_state and replay_ledger_chain.
ReplayLedger ==
    /\ Unsealed
    /\ \E c \in Combinations, anchored \in BOOLEAN :
          /\ ReplayAccepted(ledger, ReplayAsked(c, anchored), c.graph)
          /\ replay' = [kind |-> "made", ledger |-> ledger, asked |-> c,
                        receipt |-> ReplayReceipt(ledger, ReplayAsked(c, anchored))]
    /\ UNCHANGED <<ledger, seal>>

\* A replay receipt kept outside the program comes back as it was, or made to say
\* some of what is so of the ledger as it is now, with the old hash or, for the
\* hash has no key, a new one.
Presented ==
    LET now    == [ledger_event_count |-> Len(ledger),
                   ledger_chain_hash |-> LedgerChainHash(ledger),
                   terminal_event_hash |-> TerminalHash(ledger)]
        bodies == {With([f \in changed |-> now[f]], replay.receipt.body) :
                      changed \in SUBSET DOMAIN now}
    IN  UNION {{[body |-> body, receipt_hash |-> hash] :
                   hash \in {Hash(body), replay.receipt.receipt_hash}} : body \in bodies}

-----------------------------------------------------------------------------
(* seal_unified_local_spine                                                *)

ALLOWED_LOCAL_CAPABILITY_CLAIMS ==
    {"R120_UNIFIED_LOCAL_SPINE_SEAL_WORKTREE_LOCAL_VALIDATION_PASS",
     "BOUNDED_LOCAL_RUNTIME_CAPABILITY_FOR_WRITE_TEXT_ARTIFACT_ONLY_LOCAL_VALIDATION_PASS"}

\* _state_is_well_formed.
StateWellFormed(state) ==
    /\ state.task_id # "" /\ state.ledger_event_count >= 0
    /\ \A f \in {"admission_receipt_hash", "ledger_head_hash", "replay_receipt_hash"}
                \cup (HASH_FIELDS \ {"chain_hash", "terminal"}) : IsHash(Field(state, f))

\* The task of the request is the one of its state.
TaskExpected(request) ==
    request.demand.task = [task_id |-> request.state.task_id,
                           descriptor_hash |-> request.state.descriptor_hash]

\* _path_error.
OutputPathAllowed(request) ==
    PathAllowed(request.demand.output_path, request.demand.allowed_roots,
                request.demand.denied_paths)

\* _claim_error: no allowed claim contains a forbidden token.
ClaimsAllowed(request) == request.demand.capability_claims \subseteq ALLOWED_LOCAL_CAPABILITY_CLAIMS

\* The checks of _graph_error that the replay does not make: admission and
\* validation receipt are there, with their hashes.
AdmissionAndValidationExpected(request) ==
    LET admission == request.admission
        state     == request.state
    IN  /\ NoReceipt \notin {admission, request.graph.validation}
        /\ SameValue(admission, "receipt_hash", state, "admission_receipt_hash")
        /\ \A f \in {"task_id", "descriptor_hash"} : NoOtherValue(admission, f, state, f)
        /\ SameValue(request.graph.validation, "receipt_hash", state, "validation_receipt_hash")

\* _graph_error.
NodesExpected(request) ==
    LET graph == request.graph
        state == request.state
    IN  /\ AdmissionAndValidationExpected(request)
        /\ \A kind \in DOMAIN NODE_HASHES :
               SameValue(graph[kind], NODE_HASHES[kind][1], state, NODE_HASHES[kind][2])
        /\ SameValue(graph.artifact, "content_hash", state, "artifact_content_hash")
        /\ SameValue(graph.executor, "content_hash", state, "executor_output_hash")

\* Mutant: the replay expects one event less than the state says.
ReplayExpectationShort(request) ==
    With([count |-> request.state.ledger_event_count - 1,
          chain_hash |-> request.state.ledger_head_hash], request.state)

\* _replay_request.
ReplayExpectation(request) ==
    With([count |-> request.state.ledger_event_count,
          chain_hash |-> request.state.ledger_head_hash], request.state)

\* Mutant: a receipt whose hash is right and expected is a receipt of this replay.
ReplayReceiptExpectedOnly(request) ==
    /\ request.replay.receipt_hash = Hash(request.replay.body)
    /\ request.replay.receipt_hash = request.state.replay_receipt_hash

\* _replay_receipt_error: the receipt is the one the replay just made.
ReplayReceiptCurrent(request) ==
    LET generated == ReplayReceipt(request.ledger, ReplayExpectation(request)) IN
    /\ request.replay.receipt_hash = Hash(request.replay.body)
    /\ request.replay.receipt_hash = request.state.replay_receipt_hash
    /\ generated.receipt_hash = request.replay.receipt_hash

\* seal_unified_local_spine, for its one action "write_text_artifact"; which check
\* comes first decides only the code of a refusal, which is left out.
SealAccepted(request) ==
    /\ TaskExpected(request)
    /\ OutputPathAllowed(request)
    /\ ClaimsAllowed(request)
    /\ StateWellFormed(request.state)
    /\ ReplayReceiptCurrent(request)
    /\ NodesExpected(request)
    /\ ReplayAccepted(request.ledger, ReplayExpectation(request), request.graph)

\* _accepted_receipt.
SealReceipt(request) ==
    LET body == [state |-> request.state, output_path |-> request.demand.output_path]
    IN  [body |-> body, final_spine_seal_hash |-> Hash(body)]

\* A request to seal the kept ledger with the receipts of a combination, an
\* admission receipt that is the expected one, and a replay receipt.
Request(c, admission, receipt, demand) ==
    [demand |-> demand, admission |-> admission, graph |-> c.graph,
     ledger |-> ledger, replay |-> receipt,
     state |-> With([admission_receipt_hash |-> Field(admission, "receipt_hash"),
                     ledger_head_hash |-> LedgerChainHash(ledger),
                     ledger_event_count |-> Len(ledger),
                     replay_receipt_hash |-> receipt.receipt_hash,
                     required_event_types |-> demand.required_event_types],
                    Expectation(c.task, c.hashes))]

Seal ==
    /\ Unsealed /\ Intact(replay)
    /\ \E c \in Combinations, admission \in Nodes("admission"), receipt \in Presented,
          demand \in Demands :
          LET request == Request(c, admission, receipt, demand) IN
          /\ SealAccepted(request)
          /\ seal' = [kind |-> "seal", receipt |-> SealReceipt(request), ledger |-> ledger,
                      graph |-> c.graph, admission |-> admission, presented |-> receipt,
                      made |-> replay.receipt, replayed |-> replay.ledger]
    /\ UNCHANGED <<ledger, replay>>

Next ==
    \/ \E run \in Runs, type \in EventTypes : RecordEvent(run, type)
    \/ RestoreLedger \/ ReplayLedger \/ Seal

Spec == Init /\ [][Next]_vars

-----------------------------------------------------------------------------
(* Properties                                                              *)

\* The kept ledger is always one append_event could have built, and what is sealed
\* is a receipt graph.
TypeOK ==
    /\ \A i \in DOMAIN ledger : ledger[i].event_type \in EventTypes
    /\ ChainCodes(ledger) = {}
    /\ Intact(seal) => seal.graph \in Graphs

\* A sealed chain is the evidence of one run (_graph_error, _graph_hash_errors,
\* _event_binding_errors): authority, workspace transaction, artifact and executor
\* receipt have the hashes of that run, and so has every event of the sealed
\* ledger, however callers made the nodes and put them together.  A validation
\* receipt that names an executor receipt names this one; one that names none, and
\* the admission receipt, may be of another run.
SealedEvidenceOfOneRun ==
    Intact(seal) => \E run \in Runs :
        LET hashes     == HashesOf[run]
            validation == seal.graph.validation
            bound      == {NODE_HASHES[kind][2] : kind \in DOMAIN NODE_HASHES}
        IN  /\ \A f \in bound : GraphHashes(seal.graph)[f] = hashes[f]
            /\ seal.receipt.body.state.task_id = TaskOf[run].task_id
            /\ \A i \in DOMAIN seal.ledger : \A f \in bound \cap DOMAIN seal.ledger[i].receipts :
                   seal.ledger[i].receipts[f] = hashes[f]
            /\ "executor_receipt_hash" \in DOMAIN validation =>
                   validation.executor_receipt_hash = hashes.executor_receipt_hash

\* A replay receipt as replay_ledger_chain returned it is good for the ledger it
\* was made for and no other: it does not seal one that grew or was cut back since.
\* One that was changed and hashed again seals a ledger only if it says of that
\* ledger, and of the sealed receipts, what a replay of it says: whether such a
\* replay was ever made, the seal cannot tell (_replay_receipt_error).
SealedOnReplayOfThisLedger ==
    Intact(seal) =>
        LET state == seal.receipt.body.state
            body  == seal.presented.body
        IN  /\ seal.presented = seal.made => seal.replayed = seal.ledger
            /\ body = ReplayReceipt(seal.ledger, state).body

\* Replay and seal agree (_replay_request): what the last replay accepted, with or
\* without knowing the ledger's length and last event, is sealed on its receipt as
\* long as, or once again, the ledger is the one replayed, if the request passes the
\* checks that the seal makes and the replay does not.
AcceptedReplayIsSealed ==
    Intact(replay) /\ replay.ledger = ledger =>
        \A admission \in Nodes("admission"), demand \in Demands :
            LET request == Request(replay.asked, admission, replay.receipt, demand) IN
            /\ TaskExpected(request) /\ StateWellFormed(request.state)
            /\ OutputPathAllowed(request) /\ ClaimsAllowed(request)
            /\ AdmissionAndValidationExpected(request)
            /\ demand.required_event_types \subseteq {ledger[i].event_type : i \in DOMAIN ledger}
            => SealAccepted(request)

\* "It validates receipts": the task of a sealed chain was admitted.
SealedTaskWasAdmitted ==
    Intact(seal) => seal.admission.accepted
=============================================================================
