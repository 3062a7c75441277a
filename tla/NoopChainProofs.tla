-------------------------- MODULE NoopChainProofs ---------------------------
(***************************************************************************)
(* Theorems about NoopChain, for any payloads and any number of            *)
(* alterations.                                                            *)
(***************************************************************************)
EXTENDS NoopChain, TLAPS

Shared == INSTANCE SharedLemmas

-----------------------------------------------------------------------------
(* The gates of a payload.                                                 *)

\* A chain of early returns gives no code only if no check fails.
LEMMA NoFirstCode ==
    ASSUME NEW N \in Nat, NEW checks, DOMAIN checks = 1..N, FirstCode(checks) = {}
    PROVE  \A n \in DOMAIN checks : ~checks[n][1]
<1> DEFINE T == {n \in DOMAIN checks : checks[n][1]}
<1> SUFFICES ASSUME T # {} PROVE FALSE
  OBVIOUS
<1>1. PICK n \in T : \A m \in T : n <= m
  <2>1. T \subseteq Nat
    OBVIOUS
  <2> HIDE DEF T
  <2> QED
    BY <2>1, Shared!LeastNumber
<1>2. n \in Nat /\ n \in DOMAIN checks /\ checks[n][1]
  BY <1>1
<1>3. \A m \in 1..(n - 1) : ~checks[m][1]
  BY <1>1, <1>2
<1>4. checks[n][2] \in FirstCode(checks)
  BY <1>2, <1>3 DEF FirstCode
<1> QED
  BY <1>4

\* A payload without descriptor errors has the fields of a descriptor and no
\* others, and its authority binding grants what it must.
LEMMA ValidDescriptor ==
    ASSUME NEW p, DescriptorErrors(p) = {}
    PROVE  /\ p.fields \subseteq ALLOWED_FIELDS
           /\ Has(p, "authority_binding", "grants")
<1>1. SchemaErrors(p) = {}
  BY DEF DescriptorErrors
<1>2. p.fields \ ALLOWED_FIELDS = {}
  <2> DEFINE checks == <<
          <<p.fields \cap FORBIDDEN_FIELDS # {}, "B1_DESCRIPTOR_FORBIDDEN_FIELD">>,
          <<p.fields \ ALLOWED_FIELDS # {}, "B1_DESCRIPTOR_UNKNOWN_FIELD">>,
          <<~(REQUIRED_FIELDS \subseteq p.fields), "B1_DESCRIPTOR_MISSING_REQUIRED_FIELD">>,
          <<REQUIRED_STRING_FIELDS \cap (p.untyped \cup p.empty) # {},
            "B1_DESCRIPTOR_MISSING_REQUIRED_FIELD">>,
          <<"non_claims" \in p.untyped \cup p.empty, "B1_DESCRIPTOR_MISSING_REQUIRED_FIELD">>,
          <<Texts \cap (p.untyped \cup p.empty) # {}, "B1_DESCRIPTOR_INVALID_FIELD_TYPE">> >>
  <2>1. FirstCode(checks) = {}
    BY <1>1 DEF SchemaErrors
  <2>2. DOMAIN checks = 1..6
    OBVIOUS
  <2>3. checks[2][1] <=> p.fields \ ALLOWED_FIELDS # {}
    OBVIOUS
  <2> HIDE DEF checks
  <2>4. \A n \in DOMAIN checks : ~checks[n][1]
    <3>1. 6 \in Nat
      OBVIOUS
    <3> QED
      BY <2>1, <2>2, <3>1, NoFirstCode, Zenon
  <2>5. ~checks[2][1]
    BY <2>2, <2>4
  <2> QED
    BY <2>3, <2>5
<1>3. Has(p, "authority_binding", "grants")
  <2> DEFINE checks == <<
          <<~Has(p, "determinism_level", "STRICT"), "B1_DESCRIPTOR_INVALID_FIELD_TYPE">>,
          <<~Has(p, "governance_requirements", "required_predicates"),
            "B1_DESCRIPTOR_MISSING_GOVERNANCE_REQUIREMENT">>,
          <<~Has(p, "validation_requirements", "required_validators")
            \/ ~Has(p, "validation_requirements", "fail_closed"),
            "B1_DESCRIPTOR_MISSING_REQUIRED_FIELD">>,
          <<~NonEmpty(p, "replay_binding"), "B1_DESCRIPTOR_MISSING_REPLAY_BINDING">>,
          <<WorkspaceInvalid(p), "B1_DESCRIPTOR_AMBIGUOUS_WORKSPACE_BOUNDARY">>,
          <<Has(p, "action_type", "allowed") /\ p.artifacts = <<>>,
            "B1_DESCRIPTOR_UNDECLARED_ARTIFACT_OUTPUT">>,
          <<\/ ~Has(p, "authority_binding", "grants")
            \/ ~Has(p, "authority_binding", "stage grants")
            \/ ~Has(p, "capability_boundary", "actions")
            \/ ~Has(p, "action_type", "allowed")
            \/ Says(p, "authority_binding", "denied") \/ Says(p, "capability_boundary", "denied"),
            "B1_DESCRIPTOR_AUTHORITY_CAPABILITY_MISMATCH">>,
          <<\E f \in Texts \cup {"non_claims"} : Says(p, f, "forbidden claim"),
            "B1_DESCRIPTOR_FORBIDDEN_CLAIM">> >>
  <2>1. FirstCode(checks) = {}
    BY <1>1 DEF DescriptorErrors
  <2>2. DOMAIN checks = 1..8
    OBVIOUS
  <2>3. ~checks[7][1] => Has(p, "authority_binding", "grants")
    OBVIOUS
  <2> HIDE DEF checks
  <2>4. \A n \in DOMAIN checks : ~checks[n][1]
    <3>1. 8 \in Nat
      OBVIOUS
    <3> QED
      BY <2>1, <2>2, <3>1, NoFirstCode, Zenon
  <2>5. ~checks[7][1]
    BY <2>2, <2>4
  <2> QED
    BY <2>3, <2>5
<1> QED
  BY <1>2, <1>3

\* What a restricted payload holds.
LEMMA RestrictedFields ==
    ASSUME NEW p \in Payloads, NEW names
    PROVE  /\ Restricted(p, names).fields = p.fields \cap names
           /\ Restricted(p, names).untyped = p.untyped \cap names
           /\ Restricted(p, names).empty = p.empty \cap names
           /\ Restricted(p, names).lacks = {l \in p.lacks : l[1] \in names}
           /\ Restricted(p, names).says = {s \in p.says : s[1] \in names}
           /\ Restricted(p, names).coverage = IF "kernel_binding" \in names THEN p.coverage ELSE {}
<1>1. DOMAIN p = {"fields", "untyped", "empty", "lacks", "says", "task_id", "roots",
                  "artifacts", "coverage"}
  BY NoopAssumption
<1> QED
  BY <1>1 DEF Restricted

\* The fields of no payload say or lack anything that is not there.
LEMMA PayloadFields ==
    ASSUME NEW p \in Payloads
    PROVE  /\ p.untyped \subseteq p.fields /\ p.empty \subseteq p.fields
           /\ \A l \in p.lacks : l[1] \in p.fields
           /\ \A s \in p.says : s[1] \in p.fields
<1>1. p = Restricted(p, p.fields)
  BY NoopAssumption
<1>2. /\ p.untyped = p.untyped \cap p.fields
      /\ p.empty = p.empty \cap p.fields
      /\ p.lacks = {l \in p.lacks : l[1] \in p.fields}
      /\ p.says = {s \in p.says : s[1] \in p.fields}
  <2> DEFINE q == Restricted(p, p.fields)
  <2>1. /\ q.untyped = p.untyped \cap p.fields
        /\ q.empty = p.empty \cap p.fields
        /\ q.lacks = {l \in p.lacks : l[1] \in p.fields}
        /\ q.says = {s \in p.says : s[1] \in p.fields}
    BY RestrictedFields
  <2>2. q = p
    BY <1>1
  <2> HIDE DEF q
  <2> QED
    BY <2>1, <2>2
<1> QED
  BY <1>2

\* The two ways to cut a payload down to its descriptor, that of the dry run and
\* that of the admission, give the same if the first leaves a descriptor.
LEMMA SameDescriptor ==
    ASSUME NEW p \in Payloads, ValidationPayload(p).fields \subseteq ALLOWED_FIELDS
    PROVE  Restricted(p, ALLOWED_FIELDS) = ValidationPayload(p)
<1> DEFINE names == p.fields \ {"kernel_binding", "minimal_spine_binding"}
<1>1. "kernel_binding" \notin ALLOWED_FIELDS /\ "minimal_spine_binding" \notin ALLOWED_FIELDS
  BY DEF ALLOWED_FIELDS, REQUIRED_FIELDS, REQUIRED_STRING_FIELDS, NESTED_FIELDS, Texts,
         DERIVED_FIELDS, FORBIDDEN_FIELDS
<1>2. names \subseteq ALLOWED_FIELDS
  <2>1. ValidationPayload(p).fields = p.fields \cap names
    BY RestrictedFields DEF ValidationPayload
  <2> QED
    BY <2>1
<1>3. \A f \in p.fields : f \in ALLOWED_FIELDS <=> f \in names
  BY <1>1, <1>2
<1> HIDE DEF names
<1>4. /\ p.fields \cap ALLOWED_FIELDS = p.fields \cap names
      /\ p.untyped \cap ALLOWED_FIELDS = p.untyped \cap names
      /\ p.empty \cap ALLOWED_FIELDS = p.empty \cap names
  BY <1>3, PayloadFields
<1>5. {l \in p.lacks : l[1] \in ALLOWED_FIELDS} = {l \in p.lacks : l[1] \in names}
  BY <1>3, PayloadFields
<1>6. {s \in p.says : s[1] \in ALLOWED_FIELDS} = {s \in p.says : s[1] \in names}
  BY <1>3, PayloadFields
<1>7. "kernel_binding" \notin names
  BY DEF names
<1>8. Restricted(p, ALLOWED_FIELDS) = Restricted(p, names)
  BY <1>1, <1>4, <1>5, <1>6, <1>7 DEF Restricted
<1> QED
  BY <1>8 DEF ValidationPayload, names

\* The admission accepts what the dry run accepts, but for a claim of full
\* Kernel 20 coverage that is not covered.
LEMMA DryRunImpliesAdmission ==
    ASSUME NEW p \in Payloads, DryRunErrors(p) = {}
    PROVE  /\ PayloadErrors(p) = {}
           /\ PayloadHash(p) = DescriptorHash(ValidationPayload(p))
           /\ EvaluateAdmission(p) \subseteq KERNEL20_CODES
           /\ EvaluateAdmission(p) = {} \/ ClaimsFullKernel20(p)
<1> DEFINE q == ValidationPayload(p)
           names == p.fields \ {"kernel_binding", "minimal_spine_binding"}
<1>1. PreflightErrors(p) = {} /\ ContractErrors(p) = {} /\ DescriptorErrors(q) = {}
  BY DEF DryRunErrors
<1>2. q.fields \subseteq ALLOWED_FIELDS /\ Has(q, "authority_binding", "grants")
  BY <1>1, ValidDescriptor
<1>3. Restricted(p, ALLOWED_FIELDS) = q
  BY <1>2, SameDescriptor
<1>4. PayloadErrors(p) = {} /\ PayloadHash(p) = DescriptorHash(q)
  BY <1>1, <1>3 DEF PayloadErrors, PayloadHash
<1>5. /\ q.fields = p.fields \cap names /\ q.untyped = p.untyped \cap names
      /\ q.lacks = {l \in p.lacks : l[1] \in names}
  BY RestrictedFields DEF ValidationPayload
<1> HIDE DEF q
<1>6. p.fields \subseteq ALLOWED_FIELDS \cup {"kernel_binding", "minimal_spine_binding"}
  BY <1>2, <1>5
<1>7. Has(p, "authority_binding", "grants")
  BY <1>2, <1>5 DEF Has, IsMapping
<1>8. /\ Has(p, "governance_requirements", "approved")
      /\ Has(p, "governance_requirements", "decision_ref")
  BY <1>1 DEF PreflightErrors, Code
<1>9. /\ "tool_invocation" \notin p.fields /\ "llm_invocation" \notin p.fields
      /\ "workspace_mutation" \notin p.fields
  BY <1>6 DEF ALLOWED_FIELDS, REQUIRED_FIELDS, REQUIRED_STRING_FIELDS, NESTED_FIELDS, Texts,
              DERIVED_FIELDS, FORBIDDEN_FIELDS
<1>10. PolicyErrors(p) = {}
  <2>1. IsMapping(p, "authority_binding")
    BY <1>7 DEF Has
  <2> QED
    BY <1>7, <1>8, <1>9, <2>1 DEF PolicyErrors, Code
<1>11. p.fields \ (ALLOWED_FIELDS \cup ADMISSION_EXTENSIONS) = {}
  BY <1>6 DEF ADMISSION_EXTENSIONS
<1>12. Kernel20Report(p).minimal_coverage
  <2>1. KernelBound(p)
    BY <1>1 DEF ContractErrors, Code
  <2> QED
    BY <2>1 DEF KernelBound
<1>13. EvaluateAdmission(p) =
         Code(ClaimsFullKernel20(p) /\ ~Kernel20Report(p).full_coverage,
              "KERNEL20_FULL_COVERAGE_CLAIM_BOUNDARY_VIOLATION")
  BY <1>1, <1>4, <1>10, <1>11, <1>12 DEF EvaluateAdmission, Code
<1> QED
  BY <1>4, <1>13 DEF Code, KERNEL20_CODES, q

-----------------------------------------------------------------------------
(* The receipts that are kept.                                             *)

BridgeFields == {"task", "artifacts", "governance", "replay", "mutated", "tool", "llm",
                 "descriptor_hash"}
LedgerFields == BridgeFields \cup {"previous_event_hash", "event", "hashes"}
HashFields   == {"receipt_hash", "governance_hash", "replay_hash", "ledger_event_hash",
                 "ledger_chain_hash"}

\* A bridge receipt as it was built, or as it is after alterations: no
\* reference in it is the one the tamper cases put there.
BridgeShape(r) ==
    /\ DOMAIN r = BridgeFields
    /\ {"decision", "decision_ref"} \subseteq DOMAIN r.governance
    /\ r.governance.decision_ref # <<"tampered">>
    /\ {"receipt_ref", "ledger_ref", "proof_status"} \subseteq DOMAIN r.replay
    /\ r.replay.receipt_ref # <<"tampered">> /\ r.replay.ledger_ref # <<"tampered">>

LedgerShape(l) ==
    /\ DOMAIN l = LedgerFields
    /\ l.hashes = [h \in HashFields |-> l.hashes[h]]

\* What the dry run's plan becomes.
LEMMA BridgeReceiptShape ==
    ASSUME NEW p
    PROVE  BridgeShape(BridgeReceipt(p))
<1>1. /\ DryRunPlan(p).governance = [decision |-> "approved", decision_ref |-> <<"ref", p.task_id>>]
      /\ DryRunPlan(p).replay = [receipt_ref |-> <<"receipt">>, ledger_ref |-> <<"ledger">>,
                                 proof_status |-> "not_proven"]
  BY DEF DryRunPlan
<1>2. <<"ref", p.task_id>> # <<"tampered">>
  OBVIOUS
<1>3. /\ DOMAIN BridgeReceipt(p) = BridgeFields
      /\ BridgeReceipt(p).governance = DryRunPlan(p).governance
      /\ BridgeReceipt(p).replay = DryRunPlan(p).replay
  BY DEF BridgeReceipt, BridgeFields
<1> QED
  BY <1>1, <1>2, <1>3 DEF BridgeShape

\* Alterations keep the shape of a bridge receipt.
LEMMA AlteredBridgeShape ==
    ASSUME NEW r, BridgeShape(r), NEW s \in AlteredBridges(r)
    PROVE  BridgeShape(s)
<1>1. CASE s = [r EXCEPT !.task.task_id = "another"]
  BY <1>1 DEF BridgeShape, BridgeFields
<1>2. CASE s = [r EXCEPT !.artifacts = <<>>]
  BY <1>2 DEF BridgeShape, BridgeFields
<1>3. CASE s = [r EXCEPT !.governance.decision_ref = <<>>]
  BY <1>3 DEF BridgeShape, BridgeFields
<1>4. CASE s = [r EXCEPT !.governance.decision = "denied"]
  BY <1>4 DEF BridgeShape, BridgeFields
<1>5. CASE s = [r EXCEPT !.replay.ledger_ref = <<>>]
  BY <1>5 DEF BridgeShape, BridgeFields
<1>6. CASE s = [r EXCEPT !.replay.proof_status = "proven"]
  BY <1>6 DEF BridgeShape, BridgeFields
<1>7. CASE s = [r EXCEPT !.mutated = TRUE]
  BY <1>7 DEF BridgeShape, BridgeFields
<1>8. CASE s = [r EXCEPT !.descriptor_hash = <<"another">>]
  BY <1>8 DEF BridgeShape, BridgeFields
<1> QED
  BY <1>1, <1>2, <1>3, <1>4, <1>5, <1>6, <1>7, <1>8 DEF AlteredBridges

\* The parts of the ledger receipt of a bridge receipt.
LEMMA LedgerReceiptFields ==
    ASSUME NEW r
    PROVE  LET l == LedgerReceipt(r) IN
           /\ LedgerShape(l)
           /\ l.governance = r.governance
           /\ l.replay = [r.replay EXCEPT !.proof_status = "not_proven"]
           /\ l.previous_event_hash = "GENESIS"
           /\ l.hashes.receipt_hash = Hash(r)
           /\ \A h \in HashFields : \E x : l.hashes[h] = Hash(x)
<1> DEFINE l == LedgerReceipt(r)
<1>1. /\ DOMAIN l = LedgerFields
      /\ l.governance = r.governance
      /\ l.replay = [r.replay EXCEPT !.proof_status = "not_proven"]
      /\ l.previous_event_hash = "GENESIS"
  BY DEF LedgerReceipt, LedgerFields, BridgeFields
<1>2. \E a, b : l.hashes = [receipt_hash |-> Hash(r), governance_hash |-> Hash(r.governance),
                            replay_hash |-> Hash(r.replay), ledger_event_hash |-> Hash(a),
                            ledger_chain_hash |-> Hash(b)]
  BY DEF LedgerReceipt
<1>3. PICK a, b : l.hashes = [receipt_hash |-> Hash(r), governance_hash |-> Hash(r.governance),
                              replay_hash |-> Hash(r.replay), ledger_event_hash |-> Hash(a),
                              ledger_chain_hash |-> Hash(b)]
  BY <1>2
<1>4. /\ l.hashes = [h \in HashFields |-> l.hashes[h]]
      /\ l.hashes.receipt_hash = Hash(r)
      /\ \A h \in HashFields : \E x : l.hashes[h] = Hash(x)
  <2> HIDE DEF l
  <2> QED
    BY <1>3 DEF HashFields
<1> QED
  BY <1>1, <1>4 DEF LedgerShape

\* Putting a hash into a ledger receipt keeps its shape.
LEMMA RehashedLedgerShape ==
    ASSUME NEW l, LedgerShape(l), NEW h \in HashFields
    PROVE  LET m == [l EXCEPT !.hashes[h] = <<"tampered">>] IN
           /\ LedgerShape(m)
           /\ m.hashes.receipt_hash \in {l.hashes.receipt_hash, <<"tampered">>}
<1>1. DOMAIN l = LedgerFields /\ l.hashes = [k \in HashFields |-> l.hashes[k]]
  BY DEF LedgerShape
<1> DEFINE m == [l EXCEPT !.hashes[h] = <<"tampered">>]
<1>2. /\ DOMAIN m = LedgerFields
      /\ m.hashes = [l.hashes EXCEPT ![h] = <<"tampered">>]
  BY <1>1 DEF LedgerFields
<1> HIDE DEF m
<1>3. m.hashes = [k \in HashFields |-> IF k = h THEN <<"tampered">> ELSE l.hashes[k]]
  BY <1>1, <1>2
<1>4. LedgerShape(m) /\ m.hashes.receipt_hash \in {l.hashes.receipt_hash, <<"tampered">>}
  BY <1>2, <1>3 DEF LedgerShape, HashFields
<1> QED
  BY <1>4 DEF m

\* The alterations of a ledger receipt that leave its hashes alone.
OtherAlterations(l) ==
    {[l EXCEPT !.governance.decision_ref = <<"tampered">>],
     [l EXCEPT !.replay.receipt_ref = <<"tampered">>],
     [l EXCEPT !.replay.ledger_ref = <<"tampered">>],
     [l EXCEPT !.replay.proof_status = "proven"],
     [l EXCEPT !.previous_event_hash = "tampered"],
     [l EXCEPT !.mutated = TRUE], [l EXCEPT !.tool = TRUE], [l EXCEPT !.llm = TRUE],
     [l EXCEPT !.task.task_id = "another"], [l EXCEPT !.artifacts = <<>>],
     [l EXCEPT !.descriptor_hash = <<"another">>],
     [l EXCEPT !.event.receipt_hash = <<"tampered">>]}

\* They keep its shape too.
LEMMA AlteredLedgerShape ==
    ASSUME NEW l, LedgerShape(l), NEW m \in OtherAlterations(l)
    PROVE  LedgerShape(m) /\ m.hashes = l.hashes
<1>1. PICK f \in {"governance", "replay", "previous_event_hash", "mutated", "tool", "llm", "task",
                  "artifacts", "descriptor_hash", "event"} : \E v : m = [l EXCEPT ![f] = v]
  BY DEF OtherAlterations
<1>2. PICK v : m = [l EXCEPT ![f] = v]
  BY <1>1
<1>3. DOMAIN m = DOMAIN l /\ m.hashes = l.hashes
  BY <1>2 DEF LedgerShape, LedgerFields
<1> QED
  BY <1>3 DEF LedgerShape

\* Every alteration is one of the two kinds.
LEMMA AlteredLedgers ==
    ASSUME NEW l, LedgerShape(l),
           NEW m \in {case[1] : case \in TamperCases(l)} \cup
                     {[l EXCEPT !.task.task_id = "another"], [l EXCEPT !.artifacts = <<>>],
                      [l EXCEPT !.descriptor_hash = <<"another">>],
                      [l EXCEPT !.event.receipt_hash = <<"tampered">>]}
    PROVE  /\ LedgerShape(m)
           /\ m.hashes.receipt_hash \in {l.hashes.receipt_hash, <<"tampered">>}
<1> DEFINE rehashed(h) == [l EXCEPT !.hashes[h] = <<"tampered">>]
<1>1. {case[1] : case \in TamperCases(l)} \subseteq
        {rehashed(h) : h \in HashFields} \cup OtherAlterations(l)
  BY DEF TamperCases, OtherAlterations, HashFields
<1>2. m \in OtherAlterations(l) \/ \E h \in HashFields : m = rehashed(h)
  BY <1>1 DEF OtherAlterations
<1>3. CASE m \in OtherAlterations(l)
  BY <1>3, AlteredLedgerShape
<1>4. CASE \E h \in HashFields : m = rehashed(h)
  BY <1>4, RehashedLedgerShape
<1> QED
  BY <1>2, <1>3, <1>4

-----------------------------------------------------------------------------
(* The inductive invariant of what is kept.                                *)

\* While the chain is not rejected: the bridge receipt has its shape, the ledger
\* receipt has its own, and its hash of a bridge receipt is that of the one it
\* was bound to, or none; and what the audit accepted it still would.
ChainInv ==
    /\ stage = "proposed" => bridge = Nothing /\ codes = {}
    /\ stage # "proposed" /\ codes = {} => BridgeShape(bridge)
    /\ stage \in {"ledger", "audit", "matrix"} /\ codes = {} =>
          /\ LedgerShape(ledger)
          /\ bound[2] = LedgerReceipt(bound[1])
          /\ ledger.hashes.receipt_hash \in {Hash(bound[1]), <<"tampered">>}
    /\ stage \in {"audit", "matrix"} /\ codes = {} => ReplayAuditCodes(bridge, ledger) = {}

\* Renaming codes rejects no less.
LEMMA RenamedNotEmpty == \A names, rejected : rejected # {} => Renamed(names, rejected) # {}
BY DEF Renamed

\* Nothing is neither of the two receipts.
LEMMA ShapesAreSomething ==
    ASSUME NEW r PROVE (BridgeShape(r) => r # Nothing) /\ (LedgerShape(r) => r # Nothing)
<1>1. DOMAIN Nothing = {"kind"}
  BY DEF Nothing
<1>2. "task" \in BridgeFields /\ "task" \in LedgerFields
  BY DEF BridgeFields, LedgerFields
<1> QED
  BY <1>1, <1>2 DEF BridgeShape, LedgerShape

\* Every step keeps ChainInv.
LEMMA ChainStep == ChainInv /\ [Next]_vars => ChainInv'
<1> SUFFICES ASSUME ChainInv, [Next]_vars PROVE ChainInv'
  OBVIOUS
<1>1. CASE Admit
  BY <1>1 DEF Admit, ChainInv
<1>2. CASE BuildBridge
  <2>1. stage' = "bridge" /\ (codes' = {} => DryRunErrors(payload) = {})
    BY <1>2, RenamedNotEmpty DEF BuildBridge
  <2>2. codes' = {} => BridgeShape(bridge')
    BY <1>2, <2>1, BridgeReceiptShape DEF BuildBridge
  <2> QED
    BY <2>1, <2>2 DEF ChainInv
<1>3. CASE BindLedger
  <2>1. /\ stage' = "ledger" /\ (codes' = {} => codes = {}) /\ bridge' = bridge
        /\ (codes' = {} => ledger' = LedgerReceipt(bridge)) /\ bound' = <<bridge, ledger'>>
    BY <1>3, RenamedNotEmpty DEF BindLedger
  <2>2. /\ LedgerShape(LedgerReceipt(bridge))
        /\ LedgerReceipt(bridge).hashes.receipt_hash = Hash(bridge)
    BY LedgerReceiptFields
  <2>3. codes' = {} => BridgeShape(bridge')
    BY <1>3, <2>1 DEF ChainInv, BindLedger
  <2>4. bound'[1] = bridge /\ bound'[2] = ledger'
    BY <2>1
  <2> QED
    BY <2>1, <2>2, <2>3, <2>4 DEF ChainInv
<1>4. CASE Audit
  <2>1. /\ stage = "ledger" /\ stage' = "audit" /\ (codes' = {} => codes = {})
        /\ (codes' = {} => ReplayAuditCodes(bridge, ledger) = {})
        /\ bridge' = bridge /\ ledger' = ledger /\ bound' = bound
    BY <1>4, RenamedNotEmpty DEF Audit
  <2> QED
    BY <2>1 DEF ChainInv
<1>5. CASE RunMatrix
  <2>1. /\ stage = "audit" /\ stage' = "matrix" /\ (codes' = {} => codes = {})
        /\ bridge' = bridge /\ ledger' = ledger /\ bound' = bound
    BY <1>5 DEF RunMatrix
  <2> QED
    BY <2>1 DEF ChainInv
<1>6. CASE AlterBridge
  <2>1. BridgeShape(bridge')
    BY <1>6, AlteredBridgeShape DEF AlterBridge, ChainInv
  <2> QED
    BY <1>6, <2>1 DEF AlterBridge, ChainInv
<1>7. CASE AlterLedger
  <2>1. /\ LedgerShape(ledger')
        /\ ledger'.hashes.receipt_hash \in {ledger.hashes.receipt_hash, <<"tampered">>}
    <3>1. LedgerShape(ledger)
      BY <1>7 DEF AlterLedger, ChainInv
    <3> QED
      BY <1>7, <3>1, AlteredLedgers DEF AlterLedger
  <2> QED
    BY <1>7, <2>1 DEF AlterLedger, ChainInv
<1>8. CASE UNCHANGED vars
  BY <1>8 DEF vars, ChainInv
<1> QED
  BY <1>1, <1>2, <1>3, <1>4, <1>5, <1>6, <1>7, <1>8 DEF Next

\* ChainInv holds in every state.
THEOREM ChainInvHolds == Spec => []ChainInv
<1>1. Init => ChainInv
  BY DEF Init, ChainInv
<1> QED
  BY <1>1, ChainStep, PTL DEF Spec

-----------------------------------------------------------------------------
(* The theorems.                                                           *)

\* A stage that ends without codes leaves the receipt that the next one reads.
THEOREM TypeCorrect == Spec => []TypeOK
<1> DEFINE Counted == /\ stage \in {"proposed", "bridge", "ledger", "audit", "matrix"}
                      /\ alterations \in 0..MaxAlterations
<1>1. Init => Counted
  BY NoopAssumption DEF Init
<1>2. Counted /\ [Next]_vars => Counted'
  BY NoopAssumption DEF Next, Admit, BuildBridge, BindLedger, Audit, RunMatrix, AlterBridge,
                        AlterLedger, vars
<1>3. Counted /\ ChainInv => TypeOK
  <2> SUFFICES ASSUME Counted, ChainInv PROVE TypeOK
    OBVIOUS
  <2>1. stage # "proposed" /\ codes = {} => bridge # Nothing
    BY ShapesAreSomething DEF ChainInv
  <2>2. stage \notin {"proposed", "bridge"} /\ codes = {} => ledger # Nothing
    BY ShapesAreSomething DEF ChainInv
  <2> QED
    BY <2>1, <2>2 DEF ChainInv, TypeOK
<1> QED
  BY <1>1, <1>2, <1>3, ChainInvHolds, PTL DEF Spec

\* What an audit that accepts has compared.
LEMMA AcceptedAudit ==
    ASSUME NEW b, NEW l, ReplayAuditCodes(b, l) = {}
    PROVE  LET e == LedgerReceipt(b) IN
           /\ BridgeBoundaryCodes(b) = {}
           /\ ~l.mutated /\ ~l.tool /\ ~l.llm /\ l.replay.proof_status # "proven"
           /\ \A h \in HashFields : l.hashes[h] = e.hashes[h]
           /\ l.governance = e.governance /\ l.replay = e.replay
           /\ l.event = e.event /\ l.previous_event_hash = e.previous_event_hash
<1> DEFINE e == LedgerReceipt(b)
<1>1. BridgeBoundaryCodes(b) = {} /\ LedgerBoundaryCodes(l) = {} /\ MismatchCodes(l, e) = {}
  BY DEF ReplayAuditCodes
<1>2. ~l.mutated /\ ~l.tool /\ ~l.llm /\ l.replay.proof_status # "proven"
  BY <1>1 DEF LedgerBoundaryCodes, Code
<1> HIDE DEF e
<1>3. /\ l.hashes["receipt_hash"] = e.hashes["receipt_hash"]
      /\ l.hashes["governance_hash"] = e.hashes["governance_hash"]
      /\ l.hashes["replay_hash"] = e.hashes["replay_hash"]
      /\ l.hashes["ledger_event_hash"] = e.hashes["ledger_event_hash"]
      /\ l.hashes["ledger_chain_hash"] = e.hashes["ledger_chain_hash"]
      /\ l.governance = e.governance /\ l.replay = e.replay
      /\ l.event = e.event /\ l.previous_event_hash = e.previous_event_hash
  BY <1>1 DEF MismatchCodes, Code
<1>4. \A h \in HashFields : l.hashes[h] = e.hashes[h]
  BY <1>3 DEF HashFields
<1> QED
  BY <1>1, <1>2, <1>3, <1>4 DEF e

\* What the audit rederives is what was bound: the ledger receipt keeps the hash
\* of the bridge receipt it was bound to, and that hash has one preimage.
THEOREM AuditSeesWhatWasBoundHolds == Spec => []AuditSeesWhatWasBound
<1>1. ChainInv => AuditSeesWhatWasBound
  <2> SUFFICES ASSUME ChainInv, stage \in {"audit", "matrix"}, codes = {}
               PROVE  /\ bridge = bound[1]
                      /\ ledger.hashes = bound[2].hashes
                      /\ ledger.governance = bound[2].governance
                      /\ ledger.replay = bound[2].replay
                      /\ ledger.event = bound[2].event
                      /\ ledger.previous_event_hash = bound[2].previous_event_hash
                      /\ ~ledger.mutated /\ ~ledger.tool /\ ~ledger.llm
    BY DEF AuditSeesWhatWasBound
  <2> DEFINE e == LedgerReceipt(bridge)
  <2>1. /\ ReplayAuditCodes(bridge, ledger) = {} /\ LedgerShape(ledger)
        /\ bound[2] = LedgerReceipt(bound[1])
        /\ ledger.hashes.receipt_hash \in {Hash(bound[1]), <<"tampered">>}
    BY DEF ChainInv
  <2>2. /\ ~ledger.mutated /\ ~ledger.tool /\ ~ledger.llm
        /\ \A h \in HashFields : ledger.hashes[h] = e.hashes[h]
        /\ ledger.governance = e.governance /\ ledger.replay = e.replay
        /\ ledger.event = e.event /\ ledger.previous_event_hash = e.previous_event_hash
    BY <2>1, AcceptedAudit
  <2>3. LedgerShape(e) /\ e.hashes.receipt_hash = Hash(bridge)
    BY LedgerReceiptFields
  <2> HIDE DEF e
  <2>4. bridge = bound[1]
    <3>1. Hash(bridge) \in {Hash(bound[1]), <<"tampered">>}
      BY <2>1, <2>2, <2>3 DEF HashFields
    <3>2. Hash(bridge) # <<"tampered">>
      BY DEF Hash
    <3>3. Hash(bridge) = Hash(bound[1])
      BY <3>1, <3>2
    <3> QED
      BY <3>3 DEF Hash
  <2>5. ledger.hashes = e.hashes
    <3>1. /\ ledger.hashes = [h \in HashFields |-> ledger.hashes[h]]
          /\ e.hashes = [h \in HashFields |-> e.hashes[h]]
      BY <2>1, <2>3 DEF LedgerShape
    <3> QED
      BY <3>1, <2>2
  <2>6. e = bound[2]
    BY <2>1, <2>4 DEF e
  <2> QED
    BY <2>2, <2>4, <2>5, <2>6
<1> QED
  BY <1>1, ChainInvHolds, PTL

\* Each tamper case of a receipt that the audit accepts gets its own code.
LEMMA TamperCasesRejected ==
    ASSUME NEW b, NEW l, BridgeShape(b), LedgerShape(l), ReplayAuditCodes(b, l) = {},
           NEW case \in TamperCases(l)
    PROVE  case[2] \in ReplayAuditCodes(b, case[1])
<1> DEFINE e == LedgerReceipt(b)
           m == case[1]
<1>1. /\ BridgeBoundaryCodes(b) = {}
      /\ ~l.mutated /\ ~l.tool /\ ~l.llm /\ l.replay.proof_status # "proven"
      /\ \A h \in HashFields : l.hashes[h] = e.hashes[h]
      /\ l.governance = e.governance /\ l.replay = e.replay
      /\ l.event = e.event /\ l.previous_event_hash = e.previous_event_hash
  BY AcceptedAudit
<1>2. /\ e.governance = b.governance
      /\ e.replay = [b.replay EXCEPT !.proof_status = "not_proven"]
      /\ e.previous_event_hash = "GENESIS"
      /\ \A h \in HashFields : \E x : e.hashes[h] = Hash(x)
  BY LedgerReceiptFields
<1>3. \A h \in HashFields : e.hashes[h] # <<"tampered">>
  <2>1. \A x : Hash(x) # <<"tampered">>
    BY DEF Hash
  <2> QED
    BY <1>2, <2>1
<1>4. DOMAIN l = LedgerFields /\ DOMAIN l.hashes = HashFields
  BY DEF LedgerShape
<1>5. /\ "decision_ref" \in DOMAIN l.governance /\ l.governance.decision_ref # <<"tampered">>
      /\ {"receipt_ref", "ledger_ref", "proof_status"} \subseteq DOMAIN l.replay
      /\ l.replay.receipt_ref # <<"tampered">> /\ l.replay.ledger_ref # <<"tampered">>
  BY <1>1, <1>2 DEF BridgeShape
<1>6. SUFFICES \/ LedgerBoundaryCodes(m) # {} /\ case[2] \in LedgerBoundaryCodes(m)
               \/ LedgerBoundaryCodes(m) = {} /\ case[2] \in MismatchCodes(m, e)
  BY <1>1, <1>6 DEF ReplayAuditCodes
<1> HIDE DEF e
<1> DEFINE rehashed(h) == [l EXCEPT !.hashes[h] = <<"tampered">>]
<1>7. ASSUME NEW h \in HashFields
      PROVE  /\ LedgerBoundaryCodes(rehashed(h)) = {}
             /\ rehashed(h).hashes[h] # e.hashes[h]
  <2>1. /\ rehashed(h).mutated = l.mutated /\ rehashed(h).tool = l.tool
        /\ rehashed(h).llm = l.llm /\ rehashed(h).replay = l.replay
        /\ rehashed(h).hashes[h] = <<"tampered">>
    BY <1>4 DEF LedgerFields, BridgeFields
  <2> HIDE DEF rehashed
  <2> QED
    BY <2>1, <1>1, <1>3 DEF LedgerBoundaryCodes, Code
<1> DEFINE named(h, code) == m = rehashed(h) /\ case[2] = code
<1>8. CASE \/ named("receipt_hash", "NOOP_REPLAY_AUDIT_RECEIPT_HASH_MISMATCH")
           \/ named("governance_hash", "NOOP_REPLAY_AUDIT_GOVERNANCE_HASH_MISMATCH")
           \/ named("replay_hash", "NOOP_REPLAY_AUDIT_REPLAY_HASH_MISMATCH")
           \/ named("ledger_event_hash", "NOOP_REPLAY_AUDIT_LEDGER_EVENT_HASH_MISMATCH")
           \/ named("ledger_chain_hash", "NOOP_REPLAY_AUDIT_LEDGER_CHAIN_HASH_MISMATCH")
  <2>1. ASSUME NEW h \in HashFields, NEW code, named(h, code)
        PROVE  LedgerBoundaryCodes(m) = {} /\ m.hashes[h] # e.hashes[h] /\ case[2] = code
    BY <1>7, <2>1
  <2> HIDE DEF m, named
  <2>2. case[2] \in MismatchCodes(m, e)
    BY <2>1, <1>8 DEF MismatchCodes, Code, HashFields
  <2> QED
    BY <2>1, <2>2, <1>8 DEF HashFields
<1>9. CASE m = [l EXCEPT !.governance.decision_ref = <<"tampered">>]
           /\ case[2] = "NOOP_REPLAY_AUDIT_GOVERNANCE_HASH_MISMATCH"
  <2>1. /\ m.mutated = l.mutated /\ m.tool = l.tool /\ m.llm = l.llm /\ m.replay = l.replay
        /\ m.governance.decision_ref = <<"tampered">>
    BY <1>9, <1>4, <1>5 DEF LedgerFields, BridgeFields
  <2> HIDE DEF m
  <2> QED
    BY <2>1, <1>1, <1>5, <1>9 DEF LedgerBoundaryCodes, MismatchCodes, Code
<1>10. CASE /\ \/ m = [l EXCEPT !.replay.receipt_ref = <<"tampered">>]
               \/ m = [l EXCEPT !.replay.ledger_ref = <<"tampered">>]
            /\ case[2] = "NOOP_REPLAY_AUDIT_REPLAY_HASH_MISMATCH"
  <2>1. /\ m.mutated = l.mutated /\ m.tool = l.tool /\ m.llm = l.llm
        /\ m.replay.proof_status = l.replay.proof_status
        /\ m.replay.receipt_ref = <<"tampered">> \/ m.replay.ledger_ref = <<"tampered">>
    BY <1>10, <1>4, <1>5 DEF LedgerFields, BridgeFields
  <2> HIDE DEF m
  <2> QED
    BY <2>1, <1>1, <1>5, <1>10 DEF LedgerBoundaryCodes, MismatchCodes, Code
<1>11. CASE m = [l EXCEPT !.previous_event_hash = "tampered"]
            /\ case[2] = "NOOP_REPLAY_AUDIT_LEDGER_EVENT_HASH_MISMATCH"
  <2>1. /\ m.mutated = l.mutated /\ m.tool = l.tool /\ m.llm = l.llm /\ m.replay = l.replay
        /\ m.previous_event_hash = "tampered"
    BY <1>11, <1>4 DEF LedgerFields, BridgeFields
  <2> HIDE DEF m
  <2> QED
    BY <2>1, <1>1, <1>2, <1>11 DEF LedgerBoundaryCodes, MismatchCodes, Code
<1>12. CASE \/ m = [l EXCEPT !.mutated = TRUE]
               /\ case[2] = "NOOP_REPLAY_AUDIT_WORKSPACE_MUTATION_FORBIDDEN"
            \/ m = [l EXCEPT !.tool = TRUE]
               /\ case[2] = "NOOP_REPLAY_AUDIT_TOOL_INVOCATION_FORBIDDEN"
            \/ m = [l EXCEPT !.llm = TRUE]
               /\ case[2] = "NOOP_REPLAY_AUDIT_LLM_INVOCATION_FORBIDDEN"
            \/ m = [l EXCEPT !.replay.proof_status = "proven"]
               /\ case[2] = "NOOP_REPLAY_AUDIT_REPLAY_PROOF_FORBIDDEN"
  <2>1. \/ m.mutated /\ case[2] = "NOOP_REPLAY_AUDIT_WORKSPACE_MUTATION_FORBIDDEN"
        \/ m.tool /\ case[2] = "NOOP_REPLAY_AUDIT_TOOL_INVOCATION_FORBIDDEN"
        \/ m.llm /\ case[2] = "NOOP_REPLAY_AUDIT_LLM_INVOCATION_FORBIDDEN"
        \/ m.replay.proof_status = "proven"
           /\ case[2] = "NOOP_REPLAY_AUDIT_REPLAY_PROOF_FORBIDDEN"
    BY <1>12, <1>4, <1>5 DEF LedgerFields, BridgeFields
  <2> HIDE DEF m
  <2> QED
    BY <2>1 DEF LedgerBoundaryCodes, Code
<1>13. \A x, y : case = <<x, y>> => m = x /\ case[2] = y
  OBVIOUS
<1> DEFINE is(x, y) == m = x /\ case[2] = y
<1>14. \/ is(rehashed("receipt_hash"), "NOOP_REPLAY_AUDIT_RECEIPT_HASH_MISMATCH")
       \/ is(rehashed("governance_hash"), "NOOP_REPLAY_AUDIT_GOVERNANCE_HASH_MISMATCH")
       \/ is([l EXCEPT !.governance.decision_ref = <<"tampered">>],
             "NOOP_REPLAY_AUDIT_GOVERNANCE_HASH_MISMATCH")
       \/ is(rehashed("replay_hash"), "NOOP_REPLAY_AUDIT_REPLAY_HASH_MISMATCH")
       \/ is([l EXCEPT !.replay.receipt_ref = <<"tampered">>],
             "NOOP_REPLAY_AUDIT_REPLAY_HASH_MISMATCH")
       \/ is([l EXCEPT !.replay.ledger_ref = <<"tampered">>],
             "NOOP_REPLAY_AUDIT_REPLAY_HASH_MISMATCH")
       \/ is(rehashed("ledger_event_hash"), "NOOP_REPLAY_AUDIT_LEDGER_EVENT_HASH_MISMATCH")
       \/ is(rehashed("ledger_chain_hash"), "NOOP_REPLAY_AUDIT_LEDGER_CHAIN_HASH_MISMATCH")
       \/ is([l EXCEPT !.previous_event_hash = "tampered"],
             "NOOP_REPLAY_AUDIT_LEDGER_EVENT_HASH_MISMATCH")
       \/ is([l EXCEPT !.mutated = TRUE], "NOOP_REPLAY_AUDIT_WORKSPACE_MUTATION_FORBIDDEN")
       \/ is([l EXCEPT !.tool = TRUE], "NOOP_REPLAY_AUDIT_TOOL_INVOCATION_FORBIDDEN")
       \/ is([l EXCEPT !.llm = TRUE], "NOOP_REPLAY_AUDIT_LLM_INVOCATION_FORBIDDEN")
       \/ is([l EXCEPT !.replay.proof_status = "proven"],
             "NOOP_REPLAY_AUDIT_REPLAY_PROOF_FORBIDDEN")
  <2> HIDE DEF m
  <2> QED
    BY <1>13, ZenonT(60) DEF TamperCases
<1> QED
  <2> HIDE DEF m, rehashed
  <2> QED
    BY <1>8, <1>9, <1>10, <1>11, <1>12, <1>14, ZenonT(60)

\* The tamper matrix passes whenever the audit passed.
THEOREM AuditedLedgersPassMatrixHolds == Spec => AuditedLedgersPassMatrix
<1>1. ChainInv /\ [Next]_vars =>
        [stage' = "matrix" /\ codes = {} => codes' = {}]_vars
  <2> SUFFICES ASSUME ChainInv, Next, stage' = "matrix", codes = {}
               PROVE  codes' = {}
    BY Zenon
  <2>1. CASE RunMatrix
    <3>1. /\ BridgeShape(bridge) /\ LedgerShape(ledger)
          /\ ReplayAuditCodes(bridge, ledger) = {}
      BY <2>1 DEF RunMatrix, ChainInv
    <3>2. ASSUME NEW case \in TamperCases(ledger)
          PROVE  case[2] \in ReplayAuditCodes(bridge, case[1])
      BY <3>1, TamperCasesRejected
    <3>3. TamperMatrixCodes(bridge, ledger) = {}
      BY <3>2 DEF TamperMatrixCodes, Code
    <3> QED
      BY <2>1, <3>3 DEF RunMatrix
  <2>2. CASE Admit
    BY <2>2 DEF Admit
  <2>3. CASE BuildBridge \/ BindLedger \/ Audit
    BY <2>3 DEF BuildBridge, BindLedger, Audit
  <2>4. CASE AlterBridge \/ AlterLedger
    BY <2>4 DEF AlterBridge, AlterLedger
  <2> QED
    BY <2>1, <2>2, <2>3, <2>4 DEF Next
<1> QED
  BY <1>1, ChainInvHolds, PTL DEF Spec, AuditedLedgersPassMatrix

-----------------------------------------------------------------------------
(* The forbidden effects, through the code maps.                           *)

\* Each effect that the payload asks for has its code.
Named(p, mutation, tool, llm, proof, rejected) ==
    /\ Says(p, "workspace_mutation", "mutates") => mutation \in rejected
    /\ IsMapping(p, "tool_invocation") => tool \in rejected
    /\ IsMapping(p, "llm_invocation") => llm \in rejected
    /\ Says(p, "replay_binding", "proven") => proof \in rejected

\* At each stage the effects have that stage's codes.
EffectsInv ==
    /\ stage = "bridge" =>
          Named(payload, "NOOP_BRIDGE_WORKSPACE_MUTATION_FORBIDDEN",
                "NOOP_BRIDGE_TOOL_INVOCATION_FORBIDDEN", "NOOP_BRIDGE_LLM_INVOCATION_FORBIDDEN",
                "NOOP_BRIDGE_REPLAY_PROOF_FORBIDDEN", codes)
    /\ stage = "ledger" =>
          Named(payload, "NOOP_LEDGER_WORKSPACE_MUTATION_FORBIDDEN",
                "NOOP_LEDGER_TOOL_INVOCATION_FORBIDDEN", "NOOP_LEDGER_LLM_INVOCATION_FORBIDDEN",
                "NOOP_LEDGER_REPLAY_PROOF_FORBIDDEN", codes)
    /\ stage = "audit" =>
          Named(payload, "NOOP_REPLAY_AUDIT_WORKSPACE_MUTATION_FORBIDDEN",
                "NOOP_REPLAY_AUDIT_TOOL_INVOCATION_FORBIDDEN",
                "NOOP_REPLAY_AUDIT_LLM_INVOCATION_FORBIDDEN",
                "NOOP_REPLAY_AUDIT_REPLAY_PROOF_FORBIDDEN", codes)

\* A code in the map is renamed.
LEMMA RenamedCode ==
    ASSUME NEW names, NEW rejected, NEW code \in rejected, code \in DOMAIN names
    PROVE  names[code] \in Renamed(names, rejected)
BY DEF Renamed

\* If each of four codes is renamed, the effects they name keep their names.
LEMMA RenamedEffects ==
    ASSUME NEW p, NEW names, NEW rejected, NEW a, NEW b, NEW c, NEW d,
           {a, b, c, d} \subseteq DOMAIN names, Named(p, a, b, c, d, rejected)
    PROVE  Named(p, names[a], names[b], names[c], names[d], Renamed(names, rejected))
BY RenamedCode DEF Named

\* The three maps, where they concern the effects.
LEMMA CodeMaps ==
    /\ LET m == BRIDGE_CODE_MAP IN
       /\ {"DRY_RUN_WORKSPACE_MUTATION_FORBIDDEN", "DRY_RUN_TOOL_INVOCATION_FORBIDDEN",
           "DRY_RUN_LLM_INVOCATION_FORBIDDEN", "DRY_RUN_REPLAY_PROOF_FORBIDDEN"} \subseteq DOMAIN m
       /\ m["DRY_RUN_WORKSPACE_MUTATION_FORBIDDEN"] = "NOOP_BRIDGE_WORKSPACE_MUTATION_FORBIDDEN"
       /\ m["DRY_RUN_TOOL_INVOCATION_FORBIDDEN"] = "NOOP_BRIDGE_TOOL_INVOCATION_FORBIDDEN"
       /\ m["DRY_RUN_LLM_INVOCATION_FORBIDDEN"] = "NOOP_BRIDGE_LLM_INVOCATION_FORBIDDEN"
       /\ m["DRY_RUN_REPLAY_PROOF_FORBIDDEN"] = "NOOP_BRIDGE_REPLAY_PROOF_FORBIDDEN"
    /\ LET m == LEDGER_CODE_MAP IN
       /\ {"NOOP_BRIDGE_WORKSPACE_MUTATION_FORBIDDEN", "NOOP_BRIDGE_TOOL_INVOCATION_FORBIDDEN",
           "NOOP_BRIDGE_LLM_INVOCATION_FORBIDDEN", "NOOP_BRIDGE_REPLAY_PROOF_FORBIDDEN"}
             \subseteq DOMAIN m
       /\ m["NOOP_BRIDGE_WORKSPACE_MUTATION_FORBIDDEN"] =
             "NOOP_LEDGER_WORKSPACE_MUTATION_FORBIDDEN"
       /\ m["NOOP_BRIDGE_TOOL_INVOCATION_FORBIDDEN"] = "NOOP_LEDGER_TOOL_INVOCATION_FORBIDDEN"
       /\ m["NOOP_BRIDGE_LLM_INVOCATION_FORBIDDEN"] = "NOOP_LEDGER_LLM_INVOCATION_FORBIDDEN"
       /\ m["NOOP_BRIDGE_REPLAY_PROOF_FORBIDDEN"] = "NOOP_LEDGER_REPLAY_PROOF_FORBIDDEN"
    /\ LET m == REPLAY_AUDIT_CODE_MAP IN
       /\ {"NOOP_LEDGER_WORKSPACE_MUTATION_FORBIDDEN", "NOOP_LEDGER_TOOL_INVOCATION_FORBIDDEN",
           "NOOP_LEDGER_LLM_INVOCATION_FORBIDDEN", "NOOP_LEDGER_REPLAY_PROOF_FORBIDDEN"}
             \subseteq DOMAIN m
       /\ m["NOOP_LEDGER_WORKSPACE_MUTATION_FORBIDDEN"] =
             "NOOP_REPLAY_AUDIT_WORKSPACE_MUTATION_FORBIDDEN"
       /\ m["NOOP_LEDGER_TOOL_INVOCATION_FORBIDDEN"] =
             "NOOP_REPLAY_AUDIT_TOOL_INVOCATION_FORBIDDEN"
       /\ m["NOOP_LEDGER_LLM_INVOCATION_FORBIDDEN"] =
             "NOOP_REPLAY_AUDIT_LLM_INVOCATION_FORBIDDEN"
       /\ m["NOOP_LEDGER_REPLAY_PROOF_FORBIDDEN"] =
             "NOOP_REPLAY_AUDIT_REPLAY_PROOF_FORBIDDEN"
BY DEF BRIDGE_CODE_MAP, LEDGER_CODE_MAP, REPLAY_AUDIT_CODE_MAP

\* The dry run names every effect.
LEMMA DryRunNames ==
    ASSUME NEW p
    PROVE  Named(p, "DRY_RUN_WORKSPACE_MUTATION_FORBIDDEN", "DRY_RUN_TOOL_INVOCATION_FORBIDDEN",
                 "DRY_RUN_LLM_INVOCATION_FORBIDDEN", "DRY_RUN_REPLAY_PROOF_FORBIDDEN",
                 DryRunErrors(p))
<1>1. Named(p, "DRY_RUN_WORKSPACE_MUTATION_FORBIDDEN", "DRY_RUN_TOOL_INVOCATION_FORBIDDEN",
            "DRY_RUN_LLM_INVOCATION_FORBIDDEN", "DRY_RUN_REPLAY_PROOF_FORBIDDEN",
            PreflightErrors(p))
  BY DEF Named, PreflightErrors, Code
<1>2. CASE PreflightErrors(p) # {}
  BY <1>1, <1>2 DEF DryRunErrors
<1>3. CASE PreflightErrors(p) = {}
  BY <1>1, <1>3 DEF Named
<1> QED
  BY <1>2, <1>3

\* With no code at all no effect was asked for, and any codes will do.
LEMMA NoEffects ==
    ASSUME NEW p, NEW a, NEW b, NEW c, NEW d, Named(p, a, b, c, d, {}),
           NEW e, NEW f, NEW g, NEW h, NEW rejected
    PROVE  Named(p, e, f, g, h, rejected)
BY DEF Named

\* Every step keeps EffectsInv.
LEMMA EffectsStep == EffectsInv /\ [Next]_vars => EffectsInv'
<1> SUFFICES ASSUME EffectsInv, [Next]_vars PROVE EffectsInv'
  OBVIOUS
<1>1. CASE Admit \/ AlterBridge \/ AlterLedger \/ UNCHANGED vars
  <2>1. UNCHANGED <<stage, codes, payload>>
    BY <1>1 DEF Admit, AlterBridge, AlterLedger, vars
  <2> QED
    BY <2>1 DEF EffectsInv
<1>2. CASE BuildBridge
  <2>1. stage' = "bridge" /\ codes' = Renamed(BRIDGE_CODE_MAP, DryRunErrors(payload))
        /\ payload' = payload
    BY <1>2 DEF BuildBridge
  <2>2. Named(payload, BRIDGE_CODE_MAP["DRY_RUN_WORKSPACE_MUTATION_FORBIDDEN"],
              BRIDGE_CODE_MAP["DRY_RUN_TOOL_INVOCATION_FORBIDDEN"],
              BRIDGE_CODE_MAP["DRY_RUN_LLM_INVOCATION_FORBIDDEN"],
              BRIDGE_CODE_MAP["DRY_RUN_REPLAY_PROOF_FORBIDDEN"],
              Renamed(BRIDGE_CODE_MAP, DryRunErrors(payload)))
    BY DryRunNames, CodeMaps, RenamedEffects
  <2> QED
    BY <2>1, <2>2, CodeMaps DEF EffectsInv
<1>3. CASE BindLedger
  <2>1. /\ stage = "bridge" /\ stage' = "ledger" /\ payload' = payload
        /\ codes # {} => codes' = Renamed(LEDGER_CODE_MAP, codes)
    BY <1>3 DEF BindLedger
  <2>2. Named(payload, "NOOP_BRIDGE_WORKSPACE_MUTATION_FORBIDDEN",
              "NOOP_BRIDGE_TOOL_INVOCATION_FORBIDDEN", "NOOP_BRIDGE_LLM_INVOCATION_FORBIDDEN",
              "NOOP_BRIDGE_REPLAY_PROOF_FORBIDDEN", codes)
    BY <2>1 DEF EffectsInv
  <2>3. Named(payload, LEDGER_CODE_MAP["NOOP_BRIDGE_WORKSPACE_MUTATION_FORBIDDEN"],
              LEDGER_CODE_MAP["NOOP_BRIDGE_TOOL_INVOCATION_FORBIDDEN"],
              LEDGER_CODE_MAP["NOOP_BRIDGE_LLM_INVOCATION_FORBIDDEN"],
              LEDGER_CODE_MAP["NOOP_BRIDGE_REPLAY_PROOF_FORBIDDEN"],
              Renamed(LEDGER_CODE_MAP, codes))
    BY <2>2, CodeMaps, RenamedEffects
  <2>4. CASE codes = {}
    <3>1. Named(payload, "NOOP_LEDGER_WORKSPACE_MUTATION_FORBIDDEN",
                "NOOP_LEDGER_TOOL_INVOCATION_FORBIDDEN", "NOOP_LEDGER_LLM_INVOCATION_FORBIDDEN",
                "NOOP_LEDGER_REPLAY_PROOF_FORBIDDEN", codes')
      BY <2>2, <2>4, NoEffects
    <3> QED
      BY <3>1, <2>1 DEF EffectsInv
  <2>5. CASE codes # {}
    BY <2>1, <2>3, <2>5, CodeMaps DEF EffectsInv
  <2> QED
    BY <2>4, <2>5
<1>4. CASE Audit
  <2>1. /\ stage = "ledger" /\ stage' = "audit" /\ payload' = payload
        /\ codes # {} => codes' = Renamed(REPLAY_AUDIT_CODE_MAP, codes)
    BY <1>4 DEF Audit
  <2>2. Named(payload, "NOOP_LEDGER_WORKSPACE_MUTATION_FORBIDDEN",
              "NOOP_LEDGER_TOOL_INVOCATION_FORBIDDEN", "NOOP_LEDGER_LLM_INVOCATION_FORBIDDEN",
              "NOOP_LEDGER_REPLAY_PROOF_FORBIDDEN", codes)
    BY <2>1 DEF EffectsInv
  <2>3. Named(payload, REPLAY_AUDIT_CODE_MAP["NOOP_LEDGER_WORKSPACE_MUTATION_FORBIDDEN"],
              REPLAY_AUDIT_CODE_MAP["NOOP_LEDGER_TOOL_INVOCATION_FORBIDDEN"],
              REPLAY_AUDIT_CODE_MAP["NOOP_LEDGER_LLM_INVOCATION_FORBIDDEN"],
              REPLAY_AUDIT_CODE_MAP["NOOP_LEDGER_REPLAY_PROOF_FORBIDDEN"],
              Renamed(REPLAY_AUDIT_CODE_MAP, codes))
    BY <2>2, CodeMaps, RenamedEffects
  <2>4. CASE codes = {}
    <3>1. Named(payload, "NOOP_REPLAY_AUDIT_WORKSPACE_MUTATION_FORBIDDEN",
                "NOOP_REPLAY_AUDIT_TOOL_INVOCATION_FORBIDDEN",
                "NOOP_REPLAY_AUDIT_LLM_INVOCATION_FORBIDDEN",
                "NOOP_REPLAY_AUDIT_REPLAY_PROOF_FORBIDDEN", codes')
      BY <2>2, <2>4, NoEffects
    <3> QED
      BY <3>1, <2>1 DEF EffectsInv
  <2>5. CASE codes # {}
    BY <2>1, <2>3, <2>5, CodeMaps DEF EffectsInv
  <2> QED
    BY <2>4, <2>5
<1>5. CASE RunMatrix
  BY <1>5 DEF RunMatrix, EffectsInv
<1> QED
  BY <1>1, <1>2, <1>3, <1>4, <1>5 DEF Next

\* A payload that asks for a forbidden effect gets the audit's own code for it.
THEOREM ForbiddenEffectsNamedHolds == Spec => []ForbiddenEffectsNamed
<1>1. Init => EffectsInv
  BY DEF Init, EffectsInv
<1>2. EffectsInv => ForbiddenEffectsNamed
  <2> SUFFICES ASSUME EffectsInv, stage = "audit", NEW code \in ForbiddenEffects(payload)
               PROVE  code \in codes
    BY DEF ForbiddenEffectsNamed
  <2>1. Named(payload, "NOOP_REPLAY_AUDIT_WORKSPACE_MUTATION_FORBIDDEN",
              "NOOP_REPLAY_AUDIT_TOOL_INVOCATION_FORBIDDEN",
              "NOOP_REPLAY_AUDIT_LLM_INVOCATION_FORBIDDEN",
              "NOOP_REPLAY_AUDIT_REPLAY_PROOF_FORBIDDEN", codes)
    BY DEF EffectsInv
  <2> QED
    BY <2>1 DEF Named, ForbiddenEffects, Code
<1> QED
  BY <1>1, <1>2, EffectsStep, PTL DEF Spec

-----------------------------------------------------------------------------
(* The dry run and the admission.                                          *)

\* The receipt of the admission of p with the packet built for p.
OwnAdmission(p) == AuthorizedAdmission(BuildAuthorityPacket(p, PacketDefaults(p)), p)

\* Until something is altered, the bridge receipt is the one of this payload,
\* which the dry run has accepted.
DryRunInv ==
    /\ payload \in Payloads
    /\ alterations \in Nat
    /\ stage \in {"proposed", "bridge"} => bound[1] = Nothing
    /\ alterations = 0 /\ bridge # Nothing =>
          bridge = BridgeReceipt(payload) /\ DryRunErrors(payload) = {}
    /\ alterations = 0 /\ bound[1] # Nothing =>
          bound[1] = BridgeReceipt(payload) /\ DryRunErrors(payload) = {}
    /\ admission # Nothing => admission = OwnAdmission(payload)

\* The packet that is built for a payload verifies for it.
LEMMA OwnPacketVerifies ==
    ASSUME NEW p
    PROVE  AuthorityVerified(BuildAuthorityPacket(p, PacketDefaults(p)), p)
<1> DEFINE body == [issuer |-> "governance:runtime_lab", subject |-> "actor:local_runtime",
                    task_binding |-> [task_id |-> p.task_id, descriptor_hash |-> PayloadHash(p)],
                    allowed_roots |-> p.roots, expected_artifacts |-> p.artifacts,
                    capability_grants |-> {ALLOWED_CAPABILITY},
                    not_before |-> R114_CURRENT_EPOCH, expires_at |-> "none"]
<1>1. BuildAuthorityPacket(p, PacketDefaults(p)) = CompletePacketHash(body)
  BY DEF BuildAuthorityPacket, PacketDefaults
<1>2. /\ body.issuer = "governance:runtime_lab" /\ body.subject = "actor:local_runtime"
      /\ {body.not_before, body.expires_at} \subseteq {"none", R114_CURRENT_EPOCH}
      /\ body.task_binding.descriptor_hash = PayloadHash(p)
      /\ body.task_binding.task_id = p.task_id
      /\ body.capability_grants = {ALLOWED_CAPABILITY}
      /\ body.allowed_roots = p.roots /\ body.expected_artifacts = p.artifacts
  OBVIOUS
<1> HIDE DEF body
<1>3. CompletePacketHash(body).body = body
  BY DEF CompletePacketHash
<1> QED
  BY <1>1, <1>2, <1>3 DEF AuthorityVerified

\* What the admission says of a payload that the dry run accepts.
LEMMA AdmissionOfDryRun ==
    ASSUME NEW p \in Payloads, DryRunErrors(p) = {}
    PROVE  /\ OwnAdmission(p).body.descriptor_hash = BridgeReceipt(p).descriptor_hash
           /\ OwnAdmission(p).body.accepted \/ ClaimsFullKernel20(p)
<1>1. /\ PayloadHash(p) = DescriptorHash(ValidationPayload(p))
      /\ EvaluateAdmission(p) \subseteq KERNEL20_CODES
      /\ EvaluateAdmission(p) = {} \/ ClaimsFullKernel20(p)
  BY DryRunImpliesAdmission
<1>2. AuthorityVerified(BuildAuthorityPacket(p, PacketDefaults(p)), p)
  BY OwnPacketVerifies
<1>3. BridgeReceipt(p).descriptor_hash = DescriptorHash(ValidationPayload(p))
  BY DEF BridgeReceipt, DryRunPlan
<1>4. /\ OwnAdmission(p).body.descriptor_hash = PayloadHash(p)
      /\ OwnAdmission(p).body.accepted <=> EvaluateAdmission(p) = {}
  BY <1>1, <1>2 DEF OwnAdmission, AuthorizedAdmission, AdmissionReceipt
<1> QED
  BY <1>1, <1>3, <1>4

\* Every step keeps DryRunInv.
LEMMA DryRunStep == DryRunInv /\ [Next]_vars => DryRunInv'
<1> SUFFICES ASSUME DryRunInv, [Next]_vars PROVE DryRunInv'
  OBVIOUS
<1>1. CASE Admit
  BY <1>1 DEF Admit, DryRunInv, OwnAdmission
<1>2. CASE BuildBridge
  BY <1>2 DEF BuildBridge, DryRunInv
<1>3. CASE BindLedger
  <2>1. /\ stage' = "ledger" /\ bound'[1] = bridge
        /\ UNCHANGED <<payload, admission, bridge, alterations>>
    BY <1>3 DEF BindLedger
  <2> QED
    BY <2>1 DEF DryRunInv
<1>4. CASE Audit
  BY <1>4 DEF Audit, DryRunInv
<1>5. CASE RunMatrix
  BY <1>5 DEF RunMatrix, DryRunInv
<1>6. CASE AlterBridge
  BY <1>6 DEF AlterBridge, DryRunInv
<1>7. CASE AlterLedger
  BY <1>7 DEF AlterLedger, DryRunInv
<1>8. CASE UNCHANGED vars
  BY <1>8 DEF vars, DryRunInv
<1> QED
  BY <1>1, <1>2, <1>3, <1>4, <1>5, <1>6, <1>7, <1>8 DEF Next

\* The admission controller, with its own order of checks, admits what gets a
\* bridge receipt, and both bind the same descriptor hash.
THEOREM DryRunAgreesWithAdmissionHolds == Spec => []DryRunAgreesWithAdmission
<1>1. Init => DryRunInv
  BY DEF Init, DryRunInv
<1>2. DryRunInv => DryRunAgreesWithAdmission
  <2> SUFFICES ASSUME DryRunInv, bound[1] # Nothing, alterations = 0
               PROVE  /\ PayloadErrors(payload) = {}
                      /\ admission # Nothing =>
                            /\ admission.body.descriptor_hash = bound[1].descriptor_hash
                            /\ admission.body.accepted \/ ClaimsFullKernel20(payload)
    BY DEF DryRunAgreesWithAdmission
  <2>1. /\ payload \in Payloads /\ DryRunErrors(payload) = {}
        /\ bound[1] = BridgeReceipt(payload)
        /\ admission # Nothing => admission = OwnAdmission(payload)
    BY DEF DryRunInv
  <2>2. PayloadErrors(payload) = {}
    BY <2>1, DryRunImpliesAdmission
  <2> QED
    BY <2>1, <2>2, AdmissionOfDryRun
<1> QED
  BY <1>1, <1>2, DryRunStep, PTL DEF Spec
=============================================================================
