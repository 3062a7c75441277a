---------------------------- MODULE MCDiffApply ----------------------------
(***************************************************************************)
(* Small instances of DiffApply for TLC.                                   *)
(***************************************************************************)
EXTENDS DiffApply

Texts == {<<"a">>, <<"b">>}

Line(ends) == [text : Texts, end : ends]

\* Files of up to two lines, with each kind of line end and with or without one at
\* the end of the file.
MCFiles ==
    {<<>>} \cup {<<l>> : l \in Line({"lf", "crlf", "none"})}
        \cup {<<k, l>> : k \in Line({"lf", "crlf", "other"}), l \in Line({"lf", "crlf", "none"})}

SmallLine == [kind : {" ", "-", "+"}, text : Texts]

\* Headers from line 0 to one past the longest file's end; one or two lines.
SmallHunks(n) == [old_start : 0..(MaxLines + 2), lines : UNION {[1..k -> SmallLine] : k \in 1..n}]

\* Patches of one hunk of up to two lines, and of two hunks, the second short.
MCPatches == {<<h>> : h \in SmallHunks(2)} \cup {<<h, g>> : h \in SmallHunks(2), g \in SmallHunks(1)}
=============================================================================
