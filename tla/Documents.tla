----------------------------- MODULE Documents -----------------------------
(***************************************************************************)
(* What the components of runtime_lab share: hashes, rejection codes and   *)
(* JSON documents on disk.                                                 *)
(***************************************************************************)
EXTENDS Naturals, Sequences

\* sha256_bytes and canonical_hash: collision-free, and never the hashed value.
Hash(x) == <<"sha256", x>>

\* The rejection code, if its condition holds.
Code(condition, code) == IF condition THEN {code} ELSE {}

\* A chain of early returns: the code of the first check that fails, if one does.
FirstCode(checks) ==
    {checks[i][2] : i \in {n \in DOMAIN checks :
                              checks[n][1] /\ \A m \in 1..(n - 1) : ~checks[m][1]}}

\* A document that is not there.  A write_text that is interrupted leaves a
\* truncated one, which json.loads refuses.
Absent == [kind |-> "absent"]
Torn   == [kind |-> "torn"]

Intact(document) == document.kind \notin {"absent", "torn"}

\* A failed write_text leaves the document as it was (open failed) or truncated.
Damaged(document) == {document, Torn}
=============================================================================
