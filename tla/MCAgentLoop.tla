---------------------------- MODULE MCAgentLoop ----------------------------
(***************************************************************************)
(* Small instances of AgentLoop for TLC.                                   *)
(***************************************************************************)
EXTENDS AgentLoop

\* AgentLoopPolicy() with the smallest limits.
MCLoopPolicy ==
    [max_iterations |-> 1, max_context_reads |-> 1, max_patch_proposals |-> 1,
     max_patch_apply_transactions |-> 1, max_test_runs |-> 1,
     allow_live_llm_provider |-> FALSE, allow_patch_apply |-> TRUE, allow_test_runner |-> TRUE,
     require_human_approval_for_apply |-> TRUE, unmet_requirements |-> {}]

MCAuthority ==
    [present |-> TRUE, task_id |-> "task", allow_autonomous_mode |-> FALSE,
     allowed_modes |-> {"DRY_RUN", "SUPERVISED_APPLY"}, allow_patch_apply |-> TRUE,
     allow_test_runner |-> TRUE, allow_model_driven_executor_dispatch |-> FALSE]

\* Callers with the authority, and without any.
Trusted == {MCAuthority}
NoAuthority == [MCAuthority EXCEPT !.present = FALSE]
Anyone == {MCAuthority, NoAuthority}

\* "forward" and "alt" rewrite the old text, "inverse" undoes "forward".  The
\* text that "secret" adds is redacted in the artifact.
MCDiffs     == {"forward", "alt", "inverse", "secret", "redacted"}
MCContents  == {"old", "new", "other", "marker"}
MCRedacted  == [d \in Diffs |-> IF d = "secret" THEN "redacted" ELSE d]
MCPatchText ==
    [d \in Diffs |-> [c \in Contents |->
        CASE d = "forward" /\ c = "old"  -> "new"
          [] d = "alt" /\ c = "old"      -> "other"
          [] d = "inverse" /\ c = "new"  -> "old"
          [] d = "redacted" /\ c = "old" -> "marker"
          [] OTHER -> Mismatch]]

Request(dir, mode, id, diff) ==
    [run_id |-> dir, task_id |-> "task", dir |-> dir, mode |-> mode, base_commit |-> "c0",
     proposal_id |-> id, unified_diff |-> diff, proposal_base_commit |-> "c0",
     patch_proposal_request |-> TRUE, proposal_errors |-> {}, test_command_id |-> "none",
     context_requests |-> 0, flagged |-> {}, dispatch_requested |-> FALSE,
     allow_live_llm_provider |-> FALSE, requested_initial_state |-> "none",
     requested_transition |-> "none", requested_iterations |-> 1, patch_proposal_count |-> 1,
     patch_apply_transaction_count |-> 1, test_run_count |-> 1]

Dry(dir, diff)   == Request(dir, "DRY_RUN", "p", diff)
Apply(dir, diff) == Request(dir, "SUPERVISED_APPLY", "p", diff)
Tested(r)        == [r EXCEPT !.test_command_id = "unit"]

\* Two runs propose different changes under one identifier; supervised runs, one
\* of them in a directory of a dry run and with a test, look for the approved one.
SharedId == {Dry(1, "forward"), Apply(1, "forward"), Dry(2, "alt"), Tested(Apply(2, "alt"))}

\* The texts and diffs of the run with edits.
TwoTexts == {"old", "new"}
TwoDiffs == {"forward", "inverse"}

\* Requests that are refused: flagged fields, an unknown test, too many reads,
\* another task, and demands that no policy grants.
Refused ==
    LET good == Tested(Apply(1, "forward"))
    IN  {[good EXCEPT !.flagged = {"REJECTED_ARBITRARY_COMMAND"}, !.test_command_id = "rm"],
         [good EXCEPT !.task_id = "another", !.context_requests = 2, !.dispatch_requested = TRUE,
                      !.requested_initial_state = "NOWHERE", !.requested_iterations = 2,
                      !.requested_transition = "done"]}

\* One directory: a dry run, one with a diff that does not fit, supervised runs with
\* context and a test and under another identifier, a request without a proposal,
\* and the refused ones.
OneDirectory ==
    {Dry(1, "forward"), Dry(1, "inverse"),
     [Tested(Apply(1, "forward")) EXCEPT !.context_requests = 1],
     Request(1, "SUPERVISED_APPLY", "q", "forward"),
     [Dry(1, "forward") EXCEPT !.patch_proposal_request = FALSE]} \cup Refused

\* A change and its inverse, so that an approved preimage comes back.
BackAndForth ==
    {Dry(1, "forward"), Apply(1, "forward"), Request(2, "DRY_RUN", "q", "inverse"),
     Request(2, "SUPERVISED_APPLY", "q", "inverse")}

Secretive == {Dry(1, "secret"), Apply(1, "secret")}
=============================================================================
