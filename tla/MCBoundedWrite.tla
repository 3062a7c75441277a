--------------------------- MODULE MCBoundedWrite ---------------------------
(***************************************************************************)
(* Two tasks with one root each, packets with the right and with wider     *)
(* roots, and paths that are spelled in two ways, denied, outside the root *)
(* or behind a symbolic link, which leads to another spelling of the first *)
(* path or out of the workspace.                                           *)
(***************************************************************************)
EXTENDS BoundedWrite, TLC

out    == <<"out">>
a      == <<"out", "a">>
a_dot  == <<"out", ".", "a">>
hidden == <<"out", "hidden">>
linked == <<"out", "link", "a">>

Payload(task, root, path) ==
    [fields |-> REQUIRED_FIELDS, untyped |-> {}, empty |-> {}, lacks |-> {}, says |-> {},
     task_id |-> task, roots |-> <<root>>,
     artifacts |-> <<[artifact_class |-> "text", logical_path |-> path]>>, coverage |-> {}]

MCPayloads == {Payload("t1", out, a), Payload("t2", <<"log">>, <<"log", "a">>)}

MCPacketOverrides(p) ==
    {PacketDefaults(p), [PacketDefaults(p) EXCEPT !.allowed_roots = <<out, <<"log">>>>],
     [PacketDefaults(p) EXCEPT !.expires_at = "past"]}

MCRequest(p, paths, symlink_policy) ==
    [task_id |-> p.task_id, descriptor_hash |-> PayloadHash(p), allowed_roots |-> p.roots,
     requested_paths |-> paths, denied_paths |-> {hidden}, symlink_policy |-> symlink_policy]

MCWorkspaceRequests(p) ==
    {MCRequest(p, <<a, hidden>>, "reject"), MCRequest(p, <<a_dot, linked>>, "reject"),
     MCRequest(p, <<a>>, "follow")}

MCOutputPaths == {a, a_dot, hidden, linked}
MCLinked      == <<"out", "link">>
MCLinkTargets == {out, <<"/", "outside">>}
MCSymmetry    == Permutations(Callers)
MCContents    == {<<>>, <<"x">>, <<"y">>, <<"z", "z">>}
=============================================================================
