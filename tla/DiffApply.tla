----------------------------- MODULE DiffApply -----------------------------
(***************************************************************************)
(* The hunk engine of patch_apply: how a parsed unified diff changes the   *)
(* bytes of one file (diff_apply.apply_file_patch_to_text between the      *)
(* read_text and the write_text of the transaction).                       *)
(*                                                                         *)
(* A file is a sequence of lines; a line has a text and an end, "lf",      *)
(* "crlf" (or a carriage return alone), "other" (a form feed or another of *)
(* the separators that only splitlines knows) or, if it is the file's      *)
(* last, "none".  A text is a sequence of atoms, so that two lines that    *)
(* run together can be told from either.                                   *)
(***************************************************************************)
EXTENDS Integers, Sequences

CONSTANTS
    InitialFiles,  \* files to begin with
    Patches,       \* the patches of one file: sequences of hunks
    MaxLines       \* bound on the length of a file that is patched again

\* What splitlines(keepends=True) yields: no line is empty, end included.
Lines ==
    {l \in [text : Seq(STRING), end : {"lf", "crlf", "other", "none"}] :
        l.text # <<>> \/ l.end # "none"}

\* Only the last line of a file may have no end.
Terminated(lines) == \A i \in DOMAIN lines : lines[i].end # "none"
TextFiles == {f \in Seq(Lines) : \A i \in 1..(Len(f) - 1) : f[i].end # "none"}

\* What parse_unified_diff yields: no hunk is without lines, no patch without hunks.
DiffLines == [kind : {" ", "-", "+"}, text : Seq(STRING)]
DiffHunks == [old_start : Nat, lines : Seq(DiffLines) \ {<<>>}]

ASSUME DiffApplyAssumption ==
    /\ InitialFiles \subseteq TextFiles
    /\ Patches \subseteq Seq(DiffHunks) \ {<<>>}
    /\ MaxLines \in Nat

VARIABLES
    file,     \* the target
    before,   \* what it was when the transaction began
    patch     \* the patch the transaction has tried; <<>> if none yet

vars == <<file, before, patch>>
-----------------------------------------------------------------------------
\* path.read_text(): universal newlines.
ReadText(lines) ==
    [i \in DOMAIN lines |-> [lines[i] EXCEPT !.end = IF @ = "crlf" THEN "lf" ELSE @]]

\* A line is written behind others: one without an end runs into it.
JoinLine(done, line) ==
    IF done # <<>> /\ done[Len(done)].end = "none"
    THEN [done EXCEPT ![Len(done)] = [text |-> @.text \o line.text, end |-> line.end]]
    ELSE Append(done, line)

JoinedUpTo(lines) ==
    LET joined[n \in 0..Len(lines)] ==
            IF n = 0 THEN <<>> ELSE JoinLine(joined[n - 1], lines[n])
    IN  joined

\* Mutant of Joined: a last line without an end stays a line of its own.
JoinedAsIs(lines) == lines

\* "".join(lines), seen as lines again.
Joined(lines) == JoinedUpTo(lines)[Len(lines)]

\* The line of the diff as the file has it.
Expected(diffLine) == [text |-> diffLine.text, end |-> "lf"]

\* Where apply_file_patch_to_text stands: what it has put out, how much of the
\* original it has used, and whether it has raised.
At(output, position) == [output |-> output, position |-> position, code |-> "none"]
Raised == [output |-> <<>>, position |-> 0, code |-> "HUNK_CONTEXT_MISMATCH"]

\* Mutant of ApplyLine: what a diff removes is not compared.
ApplyLineUncompared(original, s, diffLine) ==
    LET position == s.position + 1
    IN  IF s = Raised THEN Raised
        ELSE IF diffLine.kind = "+" THEN At(Append(s.output, Expected(diffLine)), s.position)
        ELSE IF position > Len(original) THEN Raised
        ELSE IF diffLine.kind = "-" THEN At(s.output, position)
        ELSE IF original[position] # Expected(diffLine) THEN Raised
        ELSE At(Append(s.output, original[position]), position)

\* One line of a hunk, at a position of the original.
ApplyLine(original, s, diffLine) ==
    LET position == s.position + 1
    IN  IF s = Raised THEN Raised
        ELSE IF diffLine.kind = "+" THEN At(Append(s.output, Expected(diffLine)), s.position)
        ELSE IF position > Len(original) THEN Raised
        ELSE IF original[position] # Expected(diffLine) THEN Raised
        ELSE IF diffLine.kind = "-" THEN At(s.output, position)
        ELSE At(Append(s.output, original[position]), position)

\* Mutant of Reaches: a hunk may begin before the end of the one before it.
ReachesAnywhere(original, s, hunk) ==
    hunk.old_start >= 1 /\ hunk.old_start - 1 <= Len(original)

\* A hunk begins neither before the end of the previous one nor past the end.
Reaches(original, s, hunk) ==
    hunk.old_start >= 1 + s.position /\ hunk.old_start - 1 <= Len(original)

\* The cursor after each line of a hunk, from the state s before the first.
CursorInHunk(original, s, lines) ==
    LET at[n \in 0..Len(lines)] ==
            IF n = 0 THEN s ELSE ApplyLine(original, at[n - 1], lines[n])
    IN  at

\* The lines up to the hunk, then the hunk's own.
ApplyHunk(original, s, hunk) ==
    IF s = Raised \/ ~Reaches(original, s, hunk) THEN Raised
    ELSE CursorInHunk(original,
             At(s.output \o SubSeq(original, s.position + 1, hunk.old_start - 1),
                hunk.old_start - 1),
             hunk.lines)[Len(hunk.lines)]

\* The cursor after each hunk.
Cursor(original, hunks) ==
    LET at[i \in 0..Len(hunks)] ==
            IF i = 0 THEN At(<<>>, 0) ELSE ApplyHunk(original, at[i - 1], hunks[i])
    IN  at

\* apply_file_patch_to_text: it raises HUNK_CONTEXT_MISMATCH, or returns the text.
ApplyFilePatchToText(original, hunks) ==
    LET end == Cursor(original, hunks)[Len(hunks)]
    IN  [code |-> end.code,
         text |-> Joined(end.output \o SubSeq(original, end.position + 1, Len(original)))]
-----------------------------------------------------------------------------
Init ==
    /\ file \in InitialFiles
    /\ before = file
    /\ patch = <<>>

\* One target of a transaction; a patch that does not fit leaves it alone.
PatchFile(p) ==
    LET patched == ApplyFilePatchToText(ReadText(file), p)
    IN  /\ patch = <<>>
        /\ patch' = p
        /\ file' = IF patched.code = "none" THEN patched.text ELSE file
        /\ UNCHANGED before

\* The next transaction finds the file as the last has left it.
NextTransaction ==
    /\ patch # <<>>
    /\ Len(file) <= MaxLines
    /\ before' = file
    /\ patch' = <<>>
    /\ UNCHANGED file

Next == (\E p \in Patches : PatchFile(p)) \/ NextTransaction

Spec == Init /\ [][Next]_vars
-----------------------------------------------------------------------------
\* A line of a hunk is on the side of the file before it ("-"), on that of the
\* file after it ("+"), or on both.
SideWith(side, diffLine, kind) ==
    IF diffLine.kind \in {" ", kind} THEN Append(side, Expected(diffLine)) ELSE side

\* What the first n lines of a hunk say of one side.
SideUpTo(lines, kind) ==
    LET side[n \in 0..Len(lines)] ==
            IF n = 0 THEN <<>> ELSE SideWith(side[n - 1], lines[n], kind)
    IN  side

Side(hunk, kind) == SideUpTo(hunk.lines, kind)[Len(hunk.lines)]

\* The position of the line after those that hunk i is about.
Behind(hunks, i) == IF i = 0 THEN 1 ELSE hunks[i].old_start + Len(Side(hunks[i], "-"))

\* The old side of hunk i stands where its header says, behind the hunk before.
FitsAt(original, hunks, i) ==
    /\ hunks[i].old_start >= Behind(hunks, i - 1)
    /\ Behind(hunks, i) <= Len(original) + 1
    /\ \A n \in DOMAIN Side(hunks[i], "-") :
          original[hunks[i].old_start + n - 1] = Side(hunks[i], "-")[n]

Fits(original, hunks) == \A i \in DOMAIN hunks : FitsAt(original, hunks, i)

\* What becomes of the original up to and with each hunk: the lines between two
\* hunks stay, an old side becomes the new one.
ReplacedUpTo(original, hunks) ==
    LET replaced[i \in 0..Len(hunks)] ==
            IF i = 0 THEN <<>>
            ELSE replaced[i - 1]
                 \o SubSeq(original, Behind(hunks, i - 1), hunks[i].old_start - 1)
                 \o Side(hunks[i], "+")
    IN  replaced

\* The original with every old side replaced by the new one.
Replaced(original, hunks) ==
    ReplacedUpTo(original, hunks)[Len(hunks)]
    \o SubSeq(original, Behind(hunks, Len(hunks)), Len(original))

\* By how much the hunks up to each one have moved what comes after them.
Moved(hunks) ==
    LET moved[i \in 0..Len(hunks)] ==
            IF i = 0 THEN 0
            ELSE moved[i - 1] + Len(Side(hunks[i], "+")) - Len(Side(hunks[i], "-"))
    IN  moved

Opposite(kind) == IF kind = "-" THEN "+" ELSE IF kind = "+" THEN "-" ELSE kind

ReverseLines(lines) == [n \in DOMAIN lines |-> [lines[n] EXCEPT !.kind = Opposite(@)]]

\* The patch that takes back a patch: sides exchanged, headers moved by what the
\* hunks before have added or removed.  The header is the line that the first line
\* of the hunk gets, also of a hunk that only adds.
ReversePatch(hunks) ==
    [i \in DOMAIN hunks |-> [old_start |-> hunks[i].old_start + Moved(hunks)[i - 1],
                             lines |-> ReverseLines(hunks[i].lines)]]

\* The file is one of lines, of which only the last may have no end, whatever
\* runs together where a patch adds lines behind one without an end.
TypeOK ==
    /\ {file, before} \subseteq TextFiles
    /\ patch \in Seq(DiffHunks)

\* The cursor of apply_file_patch_to_text does what a unified diff means, if each
\* hunk keeps or removes a line: the patch is applied if and only if each old side
\* is found at its header's line, apart from the others, and then every old side and
\* nothing else is replaced.
AppliedAsWritten ==
    (\A i \in DOMAIN patch : Side(patch[i], "-") # <<>>) =>
        file = IF patch = <<>> \/ ~Fits(ReadText(before), patch) THEN before
               ELSE Joined(Replaced(ReadText(before), patch))

\* "apply an existing unified diff" (transaction.py): a hunk that only adds has a
\* header "-N,0", and its lines follow line N of the file, or come first if N is 0.
AdditionsFollowTheirLine ==
    LET text == ReadText(before)
        hunk == patch[1]
    IN  Len(patch) = 1 /\ Side(hunk, "-") = <<>> /\ hunk.old_start <= Len(text) =>
            file = Joined(SubSeq(text, 1, hunk.old_start) \o Side(hunk, "+")
                          \o SubSeq(text, hunk.old_start + 1, Len(text)))

\* A patch that was applied can be taken back by the reverse patch, with headers as
\* apply_file_patch_to_text reads them: the text is restored.  Where the last line
\* had no end, the reverse patch may be refused, but it never makes another text.
ReversePatchRestores ==
    patch # <<>> /\ ApplyFilePatchToText(ReadText(before), patch).code = "none" =>
        LET back == ApplyFilePatchToText(file, ReversePatch(patch))
        IN  IF back.code = "none" THEN back.text = ReadText(before) ELSE ~Terminated(before)

\* The lines before the first hunk are left as they were, to the byte.
LinesBeforeHunksUntouched ==
    patch # <<>> =>
        \A i \in 1..(patch[1].old_start - 1) : i \in DOMAIN before => file[i] = before[i]
=============================================================================
