------------------------------- MODULE Paths --------------------------------
(***************************************************************************)
(* Logical paths as PurePosixPath reads them: a path is the non-empty       *)
(* sequence of its components as they are spelled, "/" first in an          *)
(* absolute path and "." for a component that normalisation drops (a        *)
(* trailing slash too).                                                     *)
(***************************************************************************)
EXTENDS Naturals, Sequences

IsAbsolute(path)   == path[1] = "/"
HasTraversal(path) == \E i \in DOMAIN path : path[i] = ".."

\* str(PurePosixPath(path)); the empty path is spelled ".".
NormalizePath(path) ==
    LET components == SelectSeq(path, LAMBDA c : c # ".")
    IN  IF components = <<>> THEN <<".">> ELSE components

\* The root itself or a path that starts with "root/".
PathWithinRoot(path, root) ==
    LET p == NormalizePath(path)
        r == NormalizePath(root)
    IN  Len(r) <= Len(p) /\ SubSeq(p, 1, Len(r)) = r

\* A path may be used: it is relative, stays below where it starts, is not
\* denied, and lies under one of the roots.
PathAllowed(path, roots, denied) ==
    /\ ~IsAbsolute(path) /\ ~HasTraversal(path)
    /\ NormalizePath(path) \notin {NormalizePath(d) : d \in denied}
    /\ \E root \in roots : PathWithinRoot(path, root)
=============================================================================
