-------------------------- MODULE AgentLoopPolicy --------------------------
(***************************************************************************)
(* The checks of one agent-loop request before the supervisor does         *)
(* anything: validate_agent_loop_request (agent_loop/policy.py) and the    *)
(* evaluate_authority it calls (agent_loop/authority.py).  The first       *)
(* collects every rejection code, the second stops at the first one.       *)
(*                                                                         *)
(* The flags of a request that reject it by themselves (a raw command, a   *)
(* planner's tool call, secret-like or unbounded task text, the force_*    *)
(* switches...) are abstracted to the set of codes they raise, `flagged'.  *)
(***************************************************************************)
EXTENDS Naturals, Sequences, Documents

CONSTANTS
    LoopPolicy,   \* the AgentLoopPolicy in force
    Allowlist     \* the command identifiers of DEFAULT_ALLOWLIST

ASSUME LoopPolicyAssumption ==
    /\ LoopPolicy.max_iterations \in Nat
    /\ LoopPolicy.max_context_reads \in Nat
    /\ LoopPolicy.allow_patch_apply \in BOOLEAN
    /\ LoopPolicy.allow_test_runner \in BOOLEAN
    /\ LoopPolicy.require_human_approval_for_apply \in BOOLEAN

\* The transitions of the loop's states: TRANSITIONS[state][transition].
TRANSITIONS ==
    LET to(transition, state) == [t \in {transition} |-> state]
    IN  [TASK_RECEIVED |-> to("check_authority", "AUTHORITY_CHECKED"),
         AUTHORITY_CHECKED |-> to("create_plan", "PLAN_CREATED"),
         PLAN_CREATED |-> to("read_context", "CONTEXT_READ"),
         CONTEXT_READ |-> to("create_patch_proposal", "PATCH_PROPOSAL_CREATED"),
         PATCH_PROPOSAL_CREATED |->
             [require_human_approval |-> "HUMAN_APPROVAL_REQUIRED",
              write_final_artifact |-> "FINAL_ARTIFACT_WRITTEN"],
         HUMAN_APPROVAL_REQUIRED |-> to("verify_human_approval", "HUMAN_APPROVAL_VERIFIED"),
         HUMAN_APPROVAL_VERIFIED |-> to("start_patch_apply", "PATCH_APPLY_TRANSACTION_STARTED"),
         PATCH_APPLY_TRANSACTION_STARTED |->
             to("complete_patch_apply", "PATCH_APPLY_TRANSACTION_COMPLETED"),
         PATCH_APPLY_TRANSACTION_COMPLETED |-> to("request_tests", "ALLOWLISTED_TESTS_REQUESTED"),
         ALLOWLISTED_TESTS_REQUESTED |-> to("complete_tests", "ALLOWLISTED_TESTS_COMPLETED"),
         ALLOWLISTED_TESTS_COMPLETED |-> to("write_final_artifact", "FINAL_ARTIFACT_WRITTEN"),
         FINAL_ARTIFACT_WRITTEN |-> to("verify_receipts", "RECEIPTS_VERIFIED"),
         RECEIPTS_VERIFIED |-> to("seal_ledger", "LEDGER_SEALED_LOCALLY"),
         LEDGER_SEALED_LOCALLY |-> to("done", "DONE"),
         DONE |-> [t \in {} |-> "DONE"]]

\* _transition_pairs: the transitions of a run, in order.  Those of a supervised
\* run are the same whether a test was asked for or not.
TransitionPairs(mode) ==
    <<"check_authority", "create_plan", "read_context", "create_patch_proposal">>
        \o (IF mode = "DRY_RUN" THEN <<>>
            ELSE <<"require_human_approval", "verify_human_approval", "start_patch_apply",
                   "complete_patch_apply", "request_tests", "complete_tests">>)
        \o <<"write_final_artifact", "verify_receipts", "seal_ledger", "done">>

\* build_transition_log: the states those transitions lead to from TASK_RECEIVED.
TransitionLog(mode) ==
    LET pairs == TransitionPairs(mode)
        target[i \in 0..Len(pairs)] ==
            IF i = 0 THEN "TASK_RECEIVED" ELSE TRANSITIONS[target[i - 1]][pairs[i]]
    IN  [i \in DOMAIN pairs |-> target[i]]

\* evaluate_authority.
AuthorityErrors(r, authority) ==
    FirstCode(<<
      <<~authority.present, "REJECTED_MISSING_AUTHORITY">>,
      <<authority.task_id # r.task_id, "REJECTED_MISSING_AUTHORITY">>,
      <<authority.allow_autonomous_mode, "REJECTED_AUTONOMOUS_MODE">>,
      <<r.mode \notin authority.allowed_modes, "REJECTED_SCOPE_ESCALATION">>,
      <<r.mode = "SUPERVISED_APPLY" /\ ~authority.allow_patch_apply,
        "REJECTED_UNAPPROVED_MUTATION">>,
      <<r.test_command_id # "none" /\ ~authority.allow_test_runner,
        "REJECTED_TEST_RUNNER_BYPASS">>,
      <<r.dispatch_requested \/ authority.allow_model_driven_executor_dispatch,
        "REJECTED_MODEL_TOOL_CALL">>,
      <<r.allow_live_llm_provider /\ ~LoopPolicy.allow_live_llm_provider,
        "REJECTED_LIVE_LLM_PROVIDER_BY_DEFAULT">> >>)

\* The state a request asks to start from, and the transition it asks for.
StateErrors(r) ==
    LET from == IF r.requested_initial_state = "none" THEN "TASK_RECEIVED"
                ELSE r.requested_initial_state
    IN  IF from \notin DOMAIN TRANSITIONS THEN {"REJECTED_UNKNOWN_STATE"}
        ELSE Code(/\ r.requested_transition # "none"
                  /\ r.requested_transition \notin DOMAIN TRANSITIONS[from],
                  "REJECTED_UNKNOWN_TRANSITION")

\* validate_agent_loop_request; `approved' tells whether there is a packet.
LoopErrors(r, approved, authority) ==
    UNION {
      AuthorityErrors(r, authority),
      LoopPolicy.unmet_requirements,
      r.flagged,
      Code(LoopPolicy.max_iterations = 0 \/ r.requested_iterations > LoopPolicy.max_iterations,
           "REJECTED_ITERATION_LIMIT"),
      Code(r.context_requests > LoopPolicy.max_context_reads, "REJECTED_CONTEXT_READ_LIMIT"),
      Code(r.patch_proposal_count > LoopPolicy.max_patch_proposals,
           "REJECTED_PATCH_PROPOSAL_LIMIT"),
      Code(r.patch_apply_transaction_count > LoopPolicy.max_patch_apply_transactions,
           "REJECTED_UNAPPROVED_MUTATION"),
      Code(r.test_run_count > LoopPolicy.max_test_runs, "REJECTED_TEST_RUNNER_BYPASS"),
      Code(r.allow_live_llm_provider /\ ~LoopPolicy.allow_live_llm_provider,
           "REJECTED_LIVE_LLM_PROVIDER_BY_DEFAULT"),
      Code(r.dispatch_requested, "REJECTED_MODEL_TOOL_CALL"),
      StateErrors(r),
      Code(r.mode = "SUPERVISED_APPLY" /\ ~LoopPolicy.allow_patch_apply,
           "REJECTED_UNAPPROVED_MUTATION"),
      Code(/\ r.mode = "SUPERVISED_APPLY"
           /\ LoopPolicy.require_human_approval_for_apply
           /\ ~approved, "REJECTED_MISSING_HUMAN_APPROVAL"),
      Code(r.test_command_id # "none" /\ ~LoopPolicy.allow_test_runner,
           "REJECTED_TEST_RUNNER_BYPASS"),
      Code(/\ r.test_command_id # "none"
           /\ LoopPolicy.allow_test_runner
           /\ r.test_command_id \notin Allowlist, "REJECTED_DISALLOWED_TEST_COMMAND") }
=============================================================================
