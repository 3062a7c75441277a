---------------------------- MODULE SpineProofs -----------------------------
(***************************************************************************)
(* Theorems about Spine, for any runs, nodes, demands and event types, and  *)
(* ledgers of any length.                                                   *)
(***************************************************************************)
EXTENDS Spine, SharedLemmas

-----------------------------------------------------------------------------
(* Expected states that say the same of task and receipts.                 *)

BoundHashes ==
    {"authority_receipt_hash", "workspace_transaction_receipt_hash", "artifact_receipt_hash",
     "executor_receipt_hash"}

\* The fields of an expected state that receipts and events are held against.
ExpectedFields ==
    {"task_id", "descriptor_hash", "artifact_content_hash", "executor_output_hash",
     "validation_receipt_hash"} \cup BoundHashes

Agree(a, b) ==
    \A f \in ExpectedFields : /\ f \in DOMAIN a <=> f \in DOMAIN b
                              /\ f \in DOMAIN a => a[f] = b[f]

\* The constants of the replay in terms of them.
LEMMA FieldSets ==
    /\ EventFields = {"task_id", "descriptor_hash", "validation_receipt_hash"} \cup BoundHashes
    /\ HASH_FIELDS = {"chain_hash", "terminal"} \cup (ExpectedFields \ {"task_id"})
    /\ DOMAIN NODE_HASHES = {"authority", "workspace_transaction", "artifact", "executor"}
    /\ NODE_HASHES["authority"] = <<"receipt_hash", "authority_receipt_hash">>
    /\ NODE_HASHES["workspace_transaction"] =
         <<"transaction_hash", "workspace_transaction_receipt_hash">>
    /\ NODE_HASHES["artifact"] = <<"receipt_hash", "artifact_receipt_hash">>
    /\ NODE_HASHES["executor"] = <<"receipt_hash", "executor_receipt_hash">>
    /\ \A kind \in DOMAIN NODE_BINDINGS : NODE_BINDINGS[kind] \subseteq ExpectedFields
<1>1. {RECEIPT_HASHES[i] : i \in DOMAIN RECEIPT_HASHES} =
        {"validation_receipt_hash"} \cup BoundHashes
  <2>1. /\ DOMAIN RECEIPT_HASHES = {1, 2, 3, 4, 5}
        /\ RECEIPT_HASHES[1] = "authority_receipt_hash"
        /\ RECEIPT_HASHES[2] = "workspace_transaction_receipt_hash"
        /\ RECEIPT_HASHES[3] = "artifact_receipt_hash"
        /\ RECEIPT_HASHES[4] = "executor_receipt_hash"
        /\ RECEIPT_HASHES[5] = "validation_receipt_hash"
    BY DEF RECEIPT_HASHES
  <2> QED
    BY <2>1 DEF BoundHashes
<1>2. EventFields = {"task_id", "descriptor_hash", "validation_receipt_hash"} \cup BoundHashes
  BY <1>1 DEF EventFields
<1>3. HASH_FIELDS = {"chain_hash", "terminal"} \cup (ExpectedFields \ {"task_id"})
  BY <1>1 DEF HASH_FIELDS, ExpectedFields, BoundHashes
<1>4. \A kind \in DOMAIN NODE_BINDINGS : NODE_BINDINGS[kind] \subseteq ExpectedFields
  BY DEF NODE_BINDINGS, ExpectedFields, BoundHashes
<1> QED
  BY <1>2, <1>3, <1>4 DEF NODE_HASHES

\* An expected state with further fields agrees with it.
LEMMA WithAgrees ==
    ASSUME NEW own, NEW expected, DOMAIN own \cap ExpectedFields = {}
    PROVE  /\ Agree(With(own, expected), expected)
           /\ \A f \in DOMAIN own : With(own, expected)[f] = own[f]
           /\ DOMAIN With(own, expected) = DOMAIN own \cup DOMAIN expected
BY DEF With, Agree

\* What one of two agreeing states accepts, the other accepts.
LEMMA AgreeingStates ==
    ASSUME NEW a, NEW b, Agree(a, b)
    PROVE  /\ \A node, f : \A g \in ExpectedFields :
                 SameValue(node, f, a, g) => SameValue(node, f, b, g)
           /\ \A graph : GraphBound(graph, a) => GraphBound(graph, b)
           /\ \A chain : EventsBound(chain, a) => EventsBound(chain, b)
           /\ GraphSummary(a) = GraphSummary(b)
<1>1. \A node, f : \A g \in ExpectedFields :
         SameValue(node, f, a, g) => SameValue(node, f, b, g)
  BY DEF Agree, SameValue
<1>2. \A node, f : \A g \in ExpectedFields :
         NoOtherValue(node, f, a, g) => NoOtherValue(node, f, b, g)
  BY <1>1 DEF NoOtherValue
<1>3. ASSUME NEW graph, GraphBound(graph, a) PROVE GraphBound(graph, b)
  <2>1. \A kind \in DOMAIN NODE_HASHES : NODE_HASHES[kind][2] \in ExpectedFields
    BY FieldSets DEF ExpectedFields, BoundHashes
  <2>2. \A kind \in DOMAIN NODE_HASHES :
           SameValue(graph[kind], NODE_HASHES[kind][1], b, NODE_HASHES[kind][2])
    BY <1>1, <1>3, <2>1 DEF GraphBound
  <2>3. \A kind \in DOMAIN NODE_BINDINGS : \A f \in NODE_BINDINGS[kind] :
           NoOtherValue(graph[kind], f, b, f)
    BY <1>2, <1>3, FieldSets DEF GraphBound
  <2>4. {"validation_receipt_hash", "artifact_content_hash", "executor_output_hash"}
           \subseteq ExpectedFields
    BY DEF ExpectedFields
  <2>5. /\ NoOtherValue(graph.validation, "receipt_hash", b, "validation_receipt_hash")
        /\ SameValue(graph.artifact, "content_hash", b, "artifact_content_hash")
        /\ SameValue(graph.executor, "content_hash", b, "executor_output_hash")
    BY <1>1, <1>2, <1>3, <2>4 DEF GraphBound
  <2> QED
    BY <2>2, <2>3, <2>5 DEF GraphBound
<1>4. ASSUME NEW chain, EventsBound(chain, a) PROVE EventsBound(chain, b)
  <2>1. EventFields \subseteq ExpectedFields
    BY FieldSets DEF ExpectedFields
  <2> QED
    BY <1>4, <2>1 DEF EventsBound, Agree
<1>5. GraphSummary(a) = GraphSummary(b)
  <2> DEFINE fields == EventFields \cup {"artifact_content_hash", "executor_output_hash"}
  <2>1. fields \subseteq ExpectedFields
    BY FieldSets DEF ExpectedFields
  <2> HIDE DEF fields
  <2>2. fields \cap DOMAIN a = fields \cap DOMAIN b
    BY <2>1 DEF Agree
  <2>3. [f \in fields \cap DOMAIN a |-> a[f]] = [f \in fields \cap DOMAIN b |-> b[f]]
    BY <2>1, <2>2 DEF Agree
  <2> QED
    BY <2>3 DEF GraphSummary, fields
<1> QED
  BY <1>1, <1>3, <1>4, <1>5

\* Agreement is symmetric and transitive.
LEMMA Agreement ==
    /\ \A a, b : Agree(a, b) => Agree(b, a)
    /\ \A a, b, c : Agree(a, b) /\ Agree(b, c) => Agree(a, c)
BY DEF Agree

-----------------------------------------------------------------------------
(* What replay and seal are asked for.                                     *)

\* A caller expects nothing of the ledger beside task and receipts.
LEMMA ExpectationFields ==
    ASSUME NEW c \in Combinations
    PROVE  /\ c.graph \in Graphs
           /\ GraphBound(c.graph, Expectation(c.task, c.hashes))
           /\ DOMAIN Expectation(c.task, c.hashes) \subseteq ExpectedFields
<1> DEFINE offered(graph) ==
              {[GraphHashes(graph) EXCEPT !.validation_receipt_hash = hash] :
                   hash \in {GraphHashes(other).validation_receipt_hash : other \in Graphs}}
<1>1. PICK graph \in Graphs :
         /\ c \in [task : Tasks, hashes : offered(graph), graph : {graph}]
         /\ GraphBound(graph, Expectation(c.task, c.hashes))
  BY DEF Combinations
<1>2. c.graph = graph /\ c.hashes \in offered(graph)
  BY <1>1
<1>3. DOMAIN c.hashes = DOMAIN GraphHashes(graph)
  BY <1>2
<1>4. DOMAIN GraphHashes(graph) \subseteq ExpectedFields
  BY DEF GraphHashes, ExpectedFields, BoundHashes
<1>5. DOMAIN Expectation(c.task, c.hashes) \subseteq
        {"task_id", "descriptor_hash"} \cup DOMAIN c.hashes
  BY DEF Expectation, With
<1> QED
  BY <1>1, <1>2, <1>3, <1>4, <1>5 DEF ExpectedFields

\* What a replay is asked to find.
LEMMA ReplayAskedAgrees ==
    ASSUME NEW c, NEW anchored
    PROVE  Agree(ReplayAsked(c, anchored), Expectation(c.task, c.hashes))
<1> DEFINE own == IF anchored THEN [count |-> Len(ledger), terminal |-> TerminalHash(ledger),
                                    required_event_types |-> {}]
                              ELSE [required_event_types |-> {}]
<1>1. DOMAIN own \subseteq {"count", "terminal", "required_event_types"}
  OBVIOUS
<1>2. DOMAIN own \cap ExpectedFields = {}
  BY <1>1 DEF ExpectedFields, BoundHashes
<1>3. ReplayAsked(c, anchored) = With(own, Expectation(c.task, c.hashes))
  BY DEF ReplayAsked
<1> HIDE DEF own
<1> QED
  BY <1>2, <1>3, WithAgrees

\* The state of a request, and what the seal has the replay expect: the same of
\* task and receipts, with the length and the chain hash of the ledger.
RequestSays(request, expected, receipt, demand) ==
    LET replayed == ReplayExpectation(request) IN
    /\ Agree(request.state, expected) /\ Agree(replayed, expected)
    /\ Agree(replayed, request.state)
    /\ DOMAIN replayed = DOMAIN expected \cup
          {"admission_receipt_hash", "ledger_head_hash", "ledger_event_count",
           "replay_receipt_hash", "required_event_types", "count", "chain_hash"}
    /\ request.state.replay_receipt_hash = receipt.receipt_hash
    /\ replayed.count = Len(ledger)
    /\ replayed.chain_hash = LedgerChainHash(ledger)
    /\ replayed.required_event_types = demand.required_event_types

\* So it is of every request.
LEMMA RequestExpects ==
    ASSUME NEW c, NEW admission, NEW receipt, NEW demand
    PROVE  RequestSays(Request(c, admission, receipt, demand), Expectation(c.task, c.hashes),
                       receipt, demand)
<1> DEFINE own == [admission_receipt_hash |-> Field(admission, "receipt_hash"),
                   ledger_head_hash |-> LedgerChainHash(ledger),
                   ledger_event_count |-> Len(ledger),
                   replay_receipt_hash |-> receipt.receipt_hash,
                   required_event_types |-> demand.required_event_types]
           expected == Expectation(c.task, c.hashes)
           request  == Request(c, admission, receipt, demand)
           state    == request.state
           more     == [count |-> state.ledger_event_count, chain_hash |-> state.ledger_head_hash]
           replayed == ReplayExpectation(request)
<1>1. /\ DOMAIN own = {"admission_receipt_hash", "ledger_head_hash", "ledger_event_count",
                       "replay_receipt_hash", "required_event_types"}
      /\ own.ledger_head_hash = LedgerChainHash(ledger)
      /\ own.ledger_event_count = Len(ledger)
      /\ own.replay_receipt_hash = receipt.receipt_hash
      /\ own.required_event_types = demand.required_event_types
  OBVIOUS
<1>2. state = With(own, expected)
  BY DEF Request
<1>3. DOMAIN own \cap ExpectedFields = {}
  BY <1>1 DEF ExpectedFields, BoundHashes
<1>4. /\ DOMAIN more = {"count", "chain_hash"}
      /\ more.count = state.ledger_event_count /\ more.chain_hash = state.ledger_head_hash
  OBVIOUS
<1>5. replayed = With(more, state)
  BY DEF ReplayExpectation
<1>6. DOMAIN more \cap ExpectedFields = {}
  BY <1>4 DEF ExpectedFields, BoundHashes
<1> HIDE DEF own, expected, more, replayed, state, request
<1>7. /\ Agree(state, expected)
      /\ \A f \in DOMAIN own : state[f] = own[f]
      /\ DOMAIN state = DOMAIN own \cup DOMAIN expected
  BY <1>2, <1>3, WithAgrees
<1>8. /\ Agree(replayed, state)
      /\ \A f \in DOMAIN more : replayed[f] = more[f]
      /\ DOMAIN replayed = DOMAIN more \cup DOMAIN state
  BY <1>5, <1>6, WithAgrees
<1>9. Agree(replayed, expected)
  BY <1>7, <1>8, Agreement
<1>10. replayed.required_event_types = state.required_event_types
  BY <1>1, <1>4, <1>5, <1>7 DEF With
<1>11. /\ DOMAIN replayed = DOMAIN expected \cup
                     {"admission_receipt_hash", "ledger_head_hash", "ledger_event_count",
                      "replay_receipt_hash", "required_event_types", "count", "chain_hash"}
       /\ state.replay_receipt_hash = receipt.receipt_hash
       /\ replayed.count = Len(ledger)
       /\ replayed.chain_hash = LedgerChainHash(ledger)
       /\ replayed.required_event_types = demand.required_event_types
  BY <1>1, <1>4, <1>7, <1>8, <1>10
<1> QED
  BY <1>7, <1>8, <1>9, <1>11 DEF RequestSays, request, state, expected, replayed

-----------------------------------------------------------------------------
(* What a seal says of its request.                                        *)

\* The executor receipt of a sealed graph is of some run, and names the receipts
\* of that run; the replay holds them, the events and the validation receipt
\* against the same expected hashes.
LEMMA SealedGraphOfOneRun ==
    ASSUME NEW c \in Combinations, NEW admission, NEW receipt, NEW demand,
           SealAccepted(Request(c, admission, receipt, demand))
    PROVE  \E run \in Runs :
              /\ \A f \in BoundHashes : GraphHashes(c.graph)[f] = HashesOf[run][f]
              /\ Request(c, admission, receipt, demand).state.task_id = TaskOf[run].task_id
              /\ \A i \in DOMAIN ledger : \A f \in BoundHashes \cap DOMAIN ledger[i].receipts :
                    ledger[i].receipts[f] = HashesOf[run][f]
              /\ "executor_receipt_hash" \in DOMAIN c.graph.validation =>
                    c.graph.validation.executor_receipt_hash = HashesOf[run].executor_receipt_hash
<1> DEFINE request  == Request(c, admission, receipt, demand)
           state    == request.state
           graph    == c.graph
           replayed == ReplayExpectation(request)
<1>1. /\ StateWellFormed(state) /\ GraphBound(graph, replayed) /\ EventsBound(ledger, replayed)
  BY DEF SealAccepted, ReplayAccepted, Request
<1>2. Agree(replayed, state)
  BY RequestExpects DEF RequestSays
<1>3. PICK run \in Runs : graph.executor \in NodesOf[run]["executor"]
  <2>1. graph \in Graphs
    BY ExpectationFields
  <2>2. graph.executor \in Nodes("executor")
    BY <2>1 DEF Graphs
  <2> QED
    BY <2>2 DEF Nodes
<1> DEFINE node == graph.executor
           hashes == HashesOf[run]
<1>4. /\ "task_id" \in DOMAIN node /\ node.task_id = TaskOf[run].task_id
      /\ "receipt_hash" \in DOMAIN node /\ node.receipt_hash = hashes.executor_receipt_hash
      /\ \A f \in {"authority_receipt_hash", "workspace_transaction_receipt_hash",
                   "artifact_receipt_hash"} : f \in DOMAIN node /\ node[f] = hashes[f]
  BY <1>3, RunsAssumption
<1> HIDE DEF request, state, replayed, graph, hashes
<1>5. \A f \in ExpectedFields \ {"task_id"} : f \in DOMAIN replayed /\ replayed[f] = state[f]
  <2> SUFFICES ASSUME NEW f \in ExpectedFields \ {"task_id"}
               PROVE  f \in DOMAIN replayed /\ replayed[f] = state[f]
    OBVIOUS
  <2>1. f \in HASH_FIELDS \ {"chain_hash", "terminal"}
    BY FieldSets DEF ExpectedFields, BoundHashes
  <2>2. IsHash(Field(state, f))
    BY <1>1, <2>1 DEF StateWellFormed
  <2>3. f \in DOMAIN state
    BY <2>2 DEF IsHash, Field
  <2> QED
    BY <1>2, <2>3 DEF Agree
<1>6. /\ \A f \in NODE_BINDINGS["executor"] : NoOtherValue(node, f, replayed, f)
      /\ NoOtherValue(graph.validation, "executor_receipt_hash", replayed, "executor_receipt_hash")
      /\ SameValue(graph.authority, "receipt_hash", replayed, "authority_receipt_hash")
      /\ SameValue(graph.workspace_transaction, "transaction_hash", replayed,
                   "workspace_transaction_receipt_hash")
      /\ SameValue(graph.artifact, "receipt_hash", replayed, "artifact_receipt_hash")
      /\ SameValue(node, "receipt_hash", replayed, "executor_receipt_hash")
  <2>1. /\ {"executor", "validation"} \subseteq DOMAIN NODE_BINDINGS
        /\ NODE_BINDINGS["validation"] = {"executor_receipt_hash"}
    BY DEF NODE_BINDINGS
  <2>2. \A kind \in {"authority", "workspace_transaction", "artifact", "executor"} :
           SameValue(graph[kind], NODE_HASHES[kind][1], replayed, NODE_HASHES[kind][2])
    BY <1>1, FieldSets DEF GraphBound
  <2>3. \A kind \in {"executor", "validation"} : \A f \in NODE_BINDINGS[kind] :
           NoOtherValue(graph[kind], f, replayed, f)
    BY <1>1, <2>1 DEF GraphBound
  <2> QED
    BY <2>1, <2>2, <2>3, FieldSets
<1>7. \A f \in BoundHashes : f \in DOMAIN replayed /\ replayed[f] = hashes[f]
  <2>1. \A f \in BoundHashes : f \in DOMAIN replayed
    BY <1>5 DEF ExpectedFields, BoundHashes
  <2>2. BoundHashes \ {"executor_receipt_hash"} \subseteq NODE_BINDINGS["executor"]
    BY DEF NODE_BINDINGS, BoundHashes
  <2>3. \A f \in BoundHashes \ {"executor_receipt_hash"} : replayed[f] = hashes[f]
    BY <1>4, <1>6, <2>1, <2>2 DEF NoOtherValue, SameValue, BoundHashes
  <2>4. replayed.executor_receipt_hash = hashes.executor_receipt_hash
    BY <1>4, <1>6 DEF SameValue
  <2> QED
    BY <2>1, <2>3, <2>4
<1>8. \A f \in BoundHashes : GraphHashes(graph)[f] = hashes[f]
  <2>1. /\ Field(graph.authority, "receipt_hash") = hashes.authority_receipt_hash
        /\ Field(graph.workspace_transaction, "transaction_hash") =
             hashes.workspace_transaction_receipt_hash
        /\ Field(graph.artifact, "receipt_hash") = hashes.artifact_receipt_hash
        /\ Field(graph.executor, "receipt_hash") = hashes.executor_receipt_hash
    BY <1>6, <1>7 DEF SameValue, Field, BoundHashes
  <2> QED
    BY <2>1 DEF GraphHashes, BoundHashes
<1>9. state.task_id = TaskOf[run].task_id
  <2>1. NoOtherValue(node, "task_id", replayed, "task_id")
    BY <1>6 DEF NODE_BINDINGS
  <2>2. "task_id" \in DOMAIN replayed /\ replayed.task_id = TaskOf[run].task_id
    BY <1>4, <2>1 DEF NoOtherValue, SameValue
  <2> QED
    BY <1>2, <2>2 DEF Agree, ExpectedFields
<1>10. \A i \in DOMAIN ledger : \A f \in BoundHashes \cap DOMAIN ledger[i].receipts :
          ledger[i].receipts[f] = hashes[f]
  <2> SUFFICES ASSUME NEW i \in DOMAIN ledger, NEW f \in BoundHashes \cap DOMAIN ledger[i].receipts
               PROVE  ledger[i].receipts[f] = hashes[f]
    OBVIOUS
  <2>1. f \in EventFields /\ f \notin {"task_id", "descriptor_hash"}
    BY FieldSets DEF BoundHashes
  <2>2. Holds(ledger[i], f) /\ Value(ledger[i], f) = ledger[i].receipts[f]
    BY <2>1 DEF Holds, Value
  <2> QED
    BY <1>1, <1>7, <2>1, <2>2 DEF EventsBound
<1>11. "executor_receipt_hash" \in DOMAIN graph.validation =>
          graph.validation.executor_receipt_hash = hashes.executor_receipt_hash
  BY <1>6, <1>7 DEF NoOtherValue, SameValue, BoundHashes
<1> QED
  BY <1>8, <1>9, <1>10, <1>11 DEF graph, hashes, state, request

\* A replay receipt that passes says what a replay of the sealed ledger says.
LEMMA SealedReplayIsCurrent ==
    ASSUME NEW c, NEW admission, NEW receipt, NEW demand,
           SealAccepted(Request(c, admission, receipt, demand))
    PROVE  receipt.body =
              ReplayReceipt(ledger, Request(c, admission, receipt, demand).state).body
<1> DEFINE request   == Request(c, admission, receipt, demand)
           generated == ReplayReceipt(ledger, ReplayExpectation(request))
<1>1. /\ receipt.receipt_hash = Hash(receipt.body)
      /\ generated.receipt_hash = receipt.receipt_hash
  BY DEF SealAccepted, ReplayReceiptCurrent, Request
<1>2. generated.receipt_hash = Hash(generated.body)
  BY DEF ReplayReceipt
<1>3. Hash(receipt.body) = Hash(generated.body)
  BY <1>1, <1>2
<1>4. receipt.body = generated.body
  <2> HIDE DEF generated
  <2> QED
    BY <1>3 DEF Hash
<1>5. GraphSummary(ReplayExpectation(request)) = GraphSummary(request.state)
  <2>1. Agree(ReplayExpectation(request), request.state)
    BY RequestExpects DEF RequestSays
  <2> HIDE DEF request
  <2> QED
    BY <2>1, AgreeingStates
<1>6. generated.body = ReplayReceipt(ledger, request.state).body
  <2> HIDE DEF request
  <2> QED
    BY <1>5 DEF ReplayReceipt
<1> QED
  BY <1>4, <1>6

-----------------------------------------------------------------------------
(* The inductive invariant.                                                *)

\* The kept ledger is sound.
LedgerInv ==
    /\ IsLedger(ledger) /\ ChainCodes(ledger) = {}
    /\ \A i \in DOMAIN ledger : ledger[i].event_type \in EventTypes

\* A replay was accepted for the ledger it was made for, and its receipt is the one
\* that a replay of that ledger makes.
ReplayInv ==
    Intact(replay) =>
        LET expected == Expectation(replay.asked.task, replay.asked.hashes) IN
        /\ IsLedger(replay.ledger) /\ ChainCodes(replay.ledger) = {}
        /\ replay.asked \in Combinations
        /\ \A f \in HASH_FIELDS \cap DOMAIN expected : IsHash(expected[f])
        /\ EventsBound(replay.ledger, expected)
        /\ replay.receipt = ReplayReceipt(replay.ledger, expected)

SealInv ==
    /\ SealedEvidenceOfOneRun /\ SealedOnReplayOfThisLedger
    /\ Intact(seal) => seal.graph \in Graphs

SpineInv == LedgerInv /\ ReplayInv /\ SealInv

\* Appending an event of a run.
LEMMA RecordEventStep ==
    ASSUME SpineInv, NEW run \in Runs, NEW type \in EventTypes, RecordEvent(run, type)
    PROVE  LedgerInv'
<1> DEFINE event == EventOf(run, type, <<run, type>>)
           made  == [event EXCEPT !.event_hash = EventHash(event)]
<1>1. IsEvent(event)
  BY DEF EventOf, IsEvent
<1>2. IsLedger(ledger) /\ AppendAccepted(ledger, event) /\ ledger' = Appended(ledger, event)
  BY DEF SpineInv, LedgerInv, RecordEvent
<1>3. IsLedger(ledger') /\ ChainCodes(ledger') = {}
  <2> HIDE DEF event
  <2> QED
    BY <1>1, <1>2, AppendKeepsSound
<1>4. made.event_type = type
  BY DEF EventOf
<1>5. ledger' = Append(ledger, made)
  BY <1>2 DEF Appended
<1>6. /\ DOMAIN ledger' = 1..(Len(ledger) + 1) /\ DOMAIN ledger = 1..Len(ledger)
      /\ \A i \in 1..(Len(ledger) + 1) : ledger'[i] = IF i <= Len(ledger) THEN ledger[i] ELSE made
      /\ Len(ledger) \in Nat
  <2> HIDE DEF made
  <2> QED
    BY <1>2, <1>5 DEF IsLedger
<1>7. \A i \in DOMAIN ledger' : ledger'[i].event_type \in EventTypes
  <2> HIDE DEF made
  <2> QED
    BY <1>4, <1>6 DEF SpineInv, LedgerInv
<1> QED
  BY <1>3, <1>7 DEF LedgerInv

\* Going back to an older copy.
LEMMA RestoreLedgerStep == ASSUME SpineInv, RestoreLedger PROVE LedgerInv'
<1>1. PICK n \in 0..(Len(ledger) - 1) : ledger' = SubSeq(ledger, 1, n)
  BY DEF RestoreLedger
<1>2. IsLedger(ledger) /\ ChainCodes(ledger) = {}
  BY DEF SpineInv, LedgerInv
<1>3. IsLedger(ledger') /\ ChainCodes(ledger') = {}
  BY <1>1, <1>2, AlteredLedgers, CutKeepsSound
<1>4. DOMAIN ledger' = 1..n /\ \A i \in 1..n : i \in DOMAIN ledger /\ ledger'[i] = ledger[i]
  BY <1>1, <1>2 DEF IsLedger
<1> QED
  BY <1>3, <1>4 DEF SpineInv, LedgerInv

\* A replay is of the kept ledger.
LEMMA ReplayLedgerStep == ASSUME SpineInv, ReplayLedger PROVE ReplayInv'
<1>1. PICK c \in Combinations, anchored \in BOOLEAN :
         /\ ReplayAccepted(ledger, ReplayAsked(c, anchored), c.graph)
         /\ replay' = [kind |-> "made", ledger |-> ledger, asked |-> c,
                       receipt |-> ReplayReceipt(ledger, ReplayAsked(c, anchored))]
  BY DEF ReplayLedger
<1> DEFINE asked    == ReplayAsked(c, anchored)
           expected == Expectation(c.task, c.hashes)
<1>2. /\ replay'.ledger = ledger /\ replay'.asked = c
      /\ replay'.receipt = ReplayReceipt(ledger, asked)
  BY <1>1
<1>3. Agree(asked, expected) /\ DOMAIN expected \subseteq ExpectedFields
  BY ReplayAskedAgrees, ExpectationFields
<1>4. ExpectedStateWellFormed(asked) /\ EventsBound(ledger, asked)
  BY <1>1 DEF ReplayAccepted
<1> HIDE DEF asked, expected
<1>5. \A f \in HASH_FIELDS \cap DOMAIN expected : IsHash(expected[f])
  BY <1>3, <1>4 DEF ExpectedStateWellFormed, Agree
<1>6. EventsBound(ledger, expected) /\ GraphSummary(asked) = GraphSummary(expected)
  BY <1>3, <1>4, AgreeingStates
<1>7. ReplayReceipt(ledger, asked) = ReplayReceipt(ledger, expected)
  BY <1>6 DEF ReplayReceipt
<1>8. IsLedger(ledger) /\ ChainCodes(ledger) = {}
  BY DEF SpineInv, LedgerInv
<1>9. c \in Combinations'
  BY DEF Combinations, Graphs, Tasks
<1> QED
  BY <1>2, <1>5, <1>6, <1>7, <1>8, <1>9 DEF ReplayInv, expected

\* A seal is given on evidence of one run, and on what a replay of the kept ledger
\* says.
LEMMA SealStep == ASSUME SpineInv, Seal PROVE SealInv'
<1>1. PICK c \in Combinations, admission \in Nodes("admission"), receipt \in Presented,
           demand \in Demands :
         LET request == Request(c, admission, receipt, demand) IN
         /\ SealAccepted(request)
         /\ seal' = [kind |-> "seal", receipt |-> SealReceipt(request), ledger |-> ledger,
                     graph |-> c.graph, admission |-> admission, presented |-> receipt,
                     made |-> replay.receipt, replayed |-> replay.ledger]
  BY DEF Seal
<1> DEFINE request == Request(c, admission, receipt, demand)
<1>2. /\ seal'.ledger = ledger /\ seal'.graph = c.graph /\ seal'.replayed = replay.ledger
      /\ seal'.presented = receipt /\ seal'.made = replay.receipt
      /\ seal'.receipt.body.state = request.state
  BY <1>1 DEF SealReceipt
<1>3. SealAccepted(request)
  BY <1>1
<1>4. receipt.body = ReplayReceipt(ledger, request.state).body
  BY <1>3, SealedReplayIsCurrent
<1>5. receipt = replay.receipt => replay.ledger = ledger
  <2> SUFFICES ASSUME receipt = replay.receipt PROVE replay.ledger = ledger
    OBVIOUS
  <2>1. PICK expected : replay.receipt = ReplayReceipt(replay.ledger, expected)
    BY DEF SpineInv, ReplayInv, Seal
  <2>2. replay.receipt.body.terminal_event_hash = TerminalHash(replay.ledger)
    BY <2>1 DEF ReplayReceipt
  <2>3. receipt.body.terminal_event_hash = TerminalHash(ledger)
    BY <1>4 DEF ReplayReceipt
  <2> QED
    BY <2>2, <2>3, TerminalHashDecides DEF SpineInv, LedgerInv, ReplayInv, Seal
<1>6. SealedOnReplayOfThisLedger'
  <2> HIDE DEF request
  <2> QED
    BY <1>2, <1>4, <1>5 DEF SealedOnReplayOfThisLedger
<1>7. PICK run \in Runs :
         /\ \A f \in BoundHashes : GraphHashes(c.graph)[f] = HashesOf[run][f]
         /\ request.state.task_id = TaskOf[run].task_id
         /\ \A i \in DOMAIN ledger : \A f \in BoundHashes \cap DOMAIN ledger[i].receipts :
               ledger[i].receipts[f] = HashesOf[run][f]
         /\ "executor_receipt_hash" \in DOMAIN c.graph.validation =>
               c.graph.validation.executor_receipt_hash = HashesOf[run].executor_receipt_hash
  BY <1>3, SealedGraphOfOneRun
<1>8. {NODE_HASHES[kind][2] : kind \in DOMAIN NODE_HASHES} = BoundHashes
  BY FieldSets DEF BoundHashes
<1>9. SealedEvidenceOfOneRun'
  <2> HIDE DEF request
  <2> QED
    BY <1>2, <1>7, <1>8 DEF SealedEvidenceOfOneRun
<1>10. seal'.graph \in Graphs'
  BY <1>2, ExpectationFields DEF Graphs
<1> QED
  BY <1>6, <1>9, <1>10 DEF SealInv

\* SpineInv holds at first, and every step keeps it.
THEOREM SpineInvHolds == Spec => []SpineInv
<1>1. Init => SpineInv
  <2> SUFFICES ASSUME Init PROVE SpineInv
    OBVIOUS
  <2>1. ~Intact(replay) /\ ~Intact(seal)
    BY DEF Init, Absent, Intact
  <2>2. LedgerInv
    BY EmptyLedger DEF Init, LedgerInv
  <2> QED
    BY <2>1, <2>2 DEF SpineInv, ReplayInv, SealInv, SealedEvidenceOfOneRun,
                      SealedOnReplayOfThisLedger
<1>2. SpineInv /\ [Next]_vars => SpineInv'
  <2> SUFFICES ASSUME SpineInv, [Next]_vars PROVE SpineInv'
    OBVIOUS
  <2>1. UNCHANGED ledger => LedgerInv'
    BY DEF SpineInv, LedgerInv
  <2>2. UNCHANGED replay => ReplayInv'
    BY DEF SpineInv, ReplayInv, Combinations, Graphs, Tasks
  <2>3. UNCHANGED seal => SealInv'
    BY DEF SpineInv, SealInv, SealedEvidenceOfOneRun, SealedOnReplayOfThisLedger, Graphs
  <2>4. ASSUME NEW run \in Runs, NEW type \in EventTypes, RecordEvent(run, type) PROVE SpineInv'
    BY <2>2, <2>3, <2>4, RecordEventStep DEF RecordEvent, SpineInv
  <2>5. ASSUME RestoreLedger PROVE SpineInv'
    BY <2>2, <2>3, <2>5, RestoreLedgerStep DEF RestoreLedger, SpineInv
  <2>6. ASSUME ReplayLedger PROVE SpineInv'
    BY <2>1, <2>3, <2>6, ReplayLedgerStep DEF ReplayLedger, SpineInv
  <2>7. ASSUME Seal PROVE SpineInv'
    BY <2>1, <2>2, <2>7, SealStep DEF Seal, SpineInv
  <2>8. CASE UNCHANGED vars
    BY <2>1, <2>2, <2>3, <2>8 DEF vars, SpineInv
  <2> QED
    BY <2>4, <2>5, <2>6, <2>7, <2>8 DEF Next
<1> QED
  BY <1>1, <1>2, PTL DEF Spec

-----------------------------------------------------------------------------
(* The theorems.                                                           *)

\* The kept ledger is always one that append_event could have built, also after
\* an older copy came back, and what is sealed is a receipt graph.
THEOREM TypeCorrect == Spec => []TypeOK
<1>1. SpineInv => TypeOK
  BY DEF SpineInv, LedgerInv, SealInv, TypeOK
<1> QED
  BY <1>1, SpineInvHolds, PTL

\* However callers make nodes of receipts and put them together, the authority,
\* workspace, artifact and executor receipt that are sealed are those of one run,
\* and the events name no other: the executor receipt names the three before it.
THEOREM SealedEvidenceOfOneRunHolds == Spec => []SealedEvidenceOfOneRun
<1>1. SpineInv => SealedEvidenceOfOneRun
  BY DEF SpineInv, SealInv
<1> QED
  BY <1>1, SpineInvHolds, PTL

\* A replay receipt as it was returned seals the ledger it was made for and no
\* other, for its hash binds the hash of the last event, which decides all the
\* events before it; a receipt that was changed and hashed again seals a ledger
\* only when it says what a replay of that ledger says.
THEOREM SealedOnReplayOfThisLedgerHolds == Spec => []SealedOnReplayOfThisLedger
<1>1. SpineInv => SealedOnReplayOfThisLedger
  BY DEF SpineInv, SealInv
<1> QED
  BY <1>1, SpineInvHolds, PTL

\* What a replay accepted is sealed on its receipt while the ledger is the one
\* replayed: the seal's own replay has nothing to refuse, and makes the same receipt.
THEOREM AcceptedReplayIsSealedHolds == Spec => []AcceptedReplayIsSealed
<1>1. SpineInv => AcceptedReplayIsSealed
  <2> DEFINE req(c, receipt, admission, demand) == Request(c, admission, receipt, demand)
  <2> SUFFICES ASSUME SpineInv, Intact(replay), replay.ledger = ledger,
                      NEW c, c = replay.asked, NEW receipt, receipt = replay.receipt,
                      NEW admission \in Nodes("admission"), NEW demand \in Demands,
                      TaskExpected(req(c, receipt, admission, demand)),
                      StateWellFormed(req(c, receipt, admission, demand).state),
                      OutputPathAllowed(req(c, receipt, admission, demand)),
                      ClaimsAllowed(req(c, receipt, admission, demand)),
                      AdmissionAndValidationExpected(req(c, receipt, admission, demand)),
                      demand.required_event_types \subseteq
                          {ledger[i].event_type : i \in DOMAIN ledger}
               PROVE  SealAccepted(req(c, receipt, admission, demand))
    BY DEF AcceptedReplayIsSealed
  <2> DEFINE request  == req(c, receipt, admission, demand)
             state    == request.state
             graph    == c.graph
             expected == Expectation(c.task, c.hashes)
             replayed == ReplayExpectation(request)
  <2>1. request.graph = graph /\ request.ledger = ledger /\ request.replay = receipt
    BY DEF Request
  <2>2. RequestSays(request, expected, receipt, demand)
    BY RequestExpects
  <2>3. /\ ChainCodes(ledger) = {} /\ c \in Combinations
        /\ \A f \in HASH_FIELDS \cap DOMAIN expected : IsHash(expected[f])
        /\ EventsBound(ledger, expected)
        /\ receipt = ReplayReceipt(ledger, expected)
    BY DEF SpineInv, ReplayInv
  <2>4. GraphBound(graph, expected) /\ DOMAIN expected \subseteq ExpectedFields
    BY <2>3, ExpectationFields
  <2>5. state.task_id # "" /\ AdmissionAndValidationExpected(request)
    BY DEF StateWellFormed
  <2> HIDE DEF request, req, state, graph, expected, replayed
  <2>6. /\ Agree(state, expected) /\ Agree(replayed, expected)
        /\ DOMAIN replayed = DOMAIN expected \cup
                     {"admission_receipt_hash", "ledger_head_hash", "ledger_event_count",
                      "replay_receipt_hash", "required_event_types", "count", "chain_hash"}
        /\ state.replay_receipt_hash = receipt.receipt_hash
        /\ replayed.count = Len(ledger)
        /\ replayed.chain_hash = LedgerChainHash(ledger)
        /\ replayed.required_event_types = demand.required_event_types
    BY <2>2 DEF RequestSays, state, replayed
  <2>7. Agree(expected, state) /\ Agree(expected, replayed)
    BY <2>6, Agreement
  <2>8. NodesExpected(request)
    <3>1. \A kind \in DOMAIN NODE_HASHES : NODE_HASHES[kind][2] \in ExpectedFields
      BY FieldSets DEF ExpectedFields, BoundHashes
    <3>2. {"artifact_content_hash", "executor_output_hash"} \subseteq ExpectedFields
      BY DEF ExpectedFields
    <3>3. \A node, f : \A g \in ExpectedFields :
             SameValue(node, f, expected, g) => SameValue(node, f, state, g)
      BY <2>7, AgreeingStates
    <3>4. /\ \A kind \in DOMAIN NODE_HASHES :
                SameValue(graph[kind], NODE_HASHES[kind][1], state, NODE_HASHES[kind][2])
          /\ SameValue(graph.artifact, "content_hash", state, "artifact_content_hash")
          /\ SameValue(graph.executor, "content_hash", state, "executor_output_hash")
      BY <2>4, <3>1, <3>2, <3>3 DEF GraphBound
    <3> QED
      BY <2>1, <2>5, <3>4 DEF NodesExpected, state
  <2>9. /\ GraphBound(graph, replayed) /\ EventsBound(ledger, replayed)
        /\ GraphSummary(expected) = GraphSummary(replayed)
    BY <2>3, <2>4, <2>7, AgreeingStates
  <2>10. ReplayReceiptCurrent(request)
    <3>1. receipt.receipt_hash = Hash(receipt.body)
      BY <2>3 DEF ReplayReceipt
    <3>2. ReplayReceipt(ledger, replayed) = receipt
      BY <2>3, <2>9 DEF ReplayReceipt
    <3> QED
      BY <2>1, <2>6, <3>1, <3>2 DEF ReplayReceiptCurrent, state, replayed
  <2>11. ExpectedStateWellFormed(replayed)
    <3>1. \A f \in HASH_FIELDS \cap DOMAIN replayed :
             f = "chain_hash" \/ f \in HASH_FIELDS \cap DOMAIN expected
      BY <2>6, FieldSets DEF ExpectedFields, BoundHashes
    <3>2. IsHash(replayed.chain_hash)
      BY <2>6 DEF IsHash, None, Hash, LedgerChainHash
    <3>3. \A f \in HASH_FIELDS \cap DOMAIN expected : IsHash(replayed[f])
      BY <2>3, <2>4, <2>7 DEF Agree
    <3>4. "task_id" \in DOMAIN replayed => replayed.task_id # ""
      BY <2>5, <2>6, <2>7 DEF Agree, ExpectedFields
    <3> QED
      BY <3>1, <3>2, <3>3, <3>4 DEF ExpectedStateWellFormed
  <2>12. ValidateLedgerChain(ledger, replayed) = {}
    <3>1. "terminal" \notin DOMAIN replayed
      BY <2>4, <2>6 DEF ExpectedFields, BoundHashes
    <3> QED
      BY <2>3, <2>6, <3>1 DEF ValidateLedgerChain, Unexpected, Code
  <2>13. ReplayAccepted(ledger, replayed, graph)
    BY <2>6, <2>9, <2>11, <2>12 DEF ReplayAccepted
  <2> QED
    BY <2>1, <2>8, <2>10, <2>13 DEF SealAccepted, replayed, request
<1> QED
  BY <1>1, SpineInvHolds, PTL
=============================================================================
