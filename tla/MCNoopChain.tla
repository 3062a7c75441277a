---------------------------- MODULE MCNoopChain ----------------------------
(***************************************************************************)
(* A payload every gate accepts, and the payloads with one or two defects. *)
(***************************************************************************)
EXTENDS NoopChain

Accepted ==
    [fields |-> REQUIRED_FIELDS \cup {"executor_eligibility", "kernel_binding",
                                      "minimal_spine_binding", "notes"},
     untyped |-> {}, empty |-> {}, lacks |-> {}, says |-> {},
     task_id |-> "t1", roots |-> <<<<"out">>>>,
     artifacts |-> <<[artifact_class |-> "text", logical_path |-> <<"out", "a">>]>>,
     coverage |-> {"shared", "Replay"}]

Missing == {"authority_binding", "replay_binding", "non_claims", "executor_eligibility",
            "minimal_spine_binding", "kernel_binding", "task_ref", "notes"}
Added   == {"tool_invocation", "llm_invocation", "workspace_mutation", "actor_transfer",
            "handoff_record", "state_mutation", "execution_request", "shell_command",
            "canonical_hash", "unheard_of"}
Untyped == {"task_ref", "transition_intent", "artifact_expectation", "notes"}
Empty   == {"logical_clock", "identity_binding", "executor_eligibility", "non_claims"}
Lacks   == {<<"governance_requirements", "approved">>, <<"governance_requirements", "decision_ref">>,
            <<"governance_requirements", "required_predicates">>, <<"determinism_level", "STRICT">>,
            <<"validation_requirements", "artifact_validation_bindings">>,
            <<"replay_binding", "receipt refs">>, <<"authority_binding", "stage grants">>,
            <<"action_type", "allowed">>, <<"kernel_binding", "Kernel 20">>,
            <<"workspace_boundary", "single_root">>}
Says_   == {<<"replay_binding", "proven">>, <<"notes", "full kernel20">>,
            <<"notes", "forbidden claim">>, <<"workspace_mutation", "mutates">>,
            <<"capability_boundary", "declares tool">>, <<"state_mutation", "mutates">>,
            <<"authority_binding", "denied">>, <<"execution_request", "live">>}

\* The payloads with one defect more.
Worse(p) ==
    {[p EXCEPT !.fields = @ \ {f}] : f \in Missing}
    \cup {[p EXCEPT !.fields = @ \cup {f}] : f \in Added}
    \cup {[p EXCEPT !.untyped = @ \cup {f}] : f \in Untyped}
    \cup {[p EXCEPT !.empty = @ \cup {f}] : f \in Empty}
    \cup {[p EXCEPT !.lacks = @ \cup {l}] : l \in Lacks}
    \cup {[p EXCEPT !.says = @ \cup {s}] : s \in Says_}
    \cup {[p EXCEPT !.roots = <<<<"out">>, <<"log">>>>], [p EXCEPT !.roots = <<<<"..", "out">>>>],
          [p EXCEPT !.roots = <<<<"x..y">>>>, !.artifacts[1].logical_path = <<"x..y", "a">>],
          [p EXCEPT !.lacks = @ \cup {<<"governance_requirements", "approved">>,
                                      <<"governance_requirements", "decision">>}],
          [p EXCEPT !.artifacts = <<>>], [p EXCEPT !.artifacts[1].logical_path = <<"log", "a">>],
          [p EXCEPT !.coverage = {"shared", "Replay", "others"}], [p EXCEPT !.coverage = {"shared"}]}

\* A field that is not there lacks and says nothing.
MCPayloads == {Restricted(p, p.fields) : p \in {Accepted} \cup Worse(Accepted) \cup
                  UNION {Worse(p) : p \in {q \in Worse(Accepted) : q.artifacts # <<>>}}}
=============================================================================
