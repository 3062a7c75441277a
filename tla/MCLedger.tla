------------------------------ MODULE MCLedger ------------------------------
(***************************************************************************)
(* Two copies; events of two tasks, one that comes with a hash of its own,  *)
(* and three that append_event refuses.                                     *)
(***************************************************************************)
EXTENDS Ledger, TLC

Receipts(n) == [r \in {RECEIPT_HASHES[i] : i \in 1..n} |-> Hash(r)]

Content(type, task, n) ==
    [event_type |-> type, task_id |-> task, descriptor_hash |-> Hash(task),
     receipts |-> Receipts(n), others |-> {}, event_hash |-> None]

MCEventContents ==
    {Content("task_admitted", "t1", 1),
     [Content("artifact_registered", "t2", 3) EXCEPT !.event_hash = Hash("claimed")],
     Content("validation_completed", "t1", 4),
     [Content("executor_started", "t1", 4) EXCEPT !.descriptor_hash = <<"hex", "t1">>],
     [Content("authority_bound", "t1", 1) EXCEPT !.others = {"tool_call"}]}

MCSymmetry == Permutations(Holders) \cup Permutations(EventIds)
=============================================================================
