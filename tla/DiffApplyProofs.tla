-------------------------- MODULE DiffApplyProofs --------------------------
(***************************************************************************)
(* Theorems about DiffApply, for files and patches of any length: the      *)
(* cursor of apply_file_patch_to_text does what a unified diff means, and  *)
(* the reverse patch takes back what a patch has done.                     *)
(***************************************************************************)
EXTENDS DiffApply, TLAPS

Shared == INSTANCE SharedLemmas

\* What the cursor is while a patch is applied.
Cursors == {Raised} \cup {At(o, p) : o \in Seq(Lines), p \in Nat}
-----------------------------------------------------------------------------
(* The recursive functions of the model unfold.                            *)

\* A line that a diff writes ends with "\n".
LEMMA ExpectedIsLine ==
    ASSUME NEW d \in DiffLines
    PROVE  Expected(d) \in Lines /\ Expected(d).end = "lf"
BY DEF Expected, DiffLines, Lines

\* A side that grows by a line consists of lines.
LEMMA SideWithIsLines ==
    ASSUME NEW side \in Seq(Lines), NEW d \in DiffLines, NEW kind
    PROVE  SideWith(side, d, kind) \in Seq(Lines)
<1>1. Expected(d) \in Lines
  BY ExpectedIsLine
<1>2. Append(side, Expected(d)) \in Seq(Lines)
  BY <1>1
<1> QED
  BY <1>2 DEF SideWith

\* SideUpTo is what its recursion says, and consists of lines.
LEMMA SideUnfolds ==
    ASSUME NEW lines \in Seq(DiffLines), NEW kind
    PROVE  /\ SideUpTo(lines, kind)[0] = <<>>
           /\ \A n \in 1..Len(lines) :
                 SideUpTo(lines, kind)[n] = SideWith(SideUpTo(lines, kind)[n - 1], lines[n], kind)
           /\ \A n \in 0..Len(lines) : SideUpTo(lines, kind)[n] \in Seq(Lines)
<1> DEFINE N == Len(lines)
           S == Seq(Lines)
           base == <<>>
           next(s, n) == SideWith(s, lines[n], kind)
           step == [n \in 1..N |-> [s \in S |-> next(s, n)]]
           f == SideUpTo(lines, kind)
<1>n. N \in Nat /\ base \in S
  OBVIOUS
<1>1. ASSUME NEW s \in S, NEW n \in 1..N PROVE next(s, n) \in S
  <2>1. lines[n] \in DiffLines
    OBVIOUS
  <2>2. SideWith(s, lines[n], kind) \in Seq(Lines)
    BY <2>1, SideWithIsLines
  <2> QED
    BY <2>2
<1>2. PICK g \in [0..N -> S] : g[0] = base /\ \A n \in 1..N : g[n] = next(g[n - 1], n)
  <2> HIDE DEF N, S, base, next
  <2>1. step \in [1..N -> [S -> S]]
    BY <1>1
  <2>2. \A s \in S, n \in 1..N : step[n][s] = next(s, n)
    OBVIOUS
  <2> HIDE DEF step
  <2>3. PICK g : Shared!Recursion(g, S, N, base, step)
    BY <1>n, <2>1, Shared!RecursionExists
  <2>4. ASSUME NEW n \in 1..N PROVE g[n] = next(g[n - 1], n)
    <3>1. n - 1 \in 0..N
      BY <1>n
    <3> QED
      BY <2>2, <2>3, <3>1 DEF Shared!Recursion
  <2> QED
    BY <2>3, <2>4 DEF Shared!Recursion
<1>3. g = [n \in 0..N |-> IF n = 0 THEN base ELSE next(g[n - 1], n)]
  <2> HIDE DEF N, S, base, next
  <2> QED
    BY <1>n, <1>2
<1>4. f = [n \in 0..N |-> IF n = 0 THEN base ELSE next(f[n - 1], n)]
  BY <1>3 DEF SideUpTo
<1>5. f[0] = base /\ \A n \in 1..N : f[n] = next(f[n - 1], n)
  <2> HIDE DEF N, base, next, f
  <2> QED
    BY <1>n, <1>4
<1>6. \A n \in 0..N : f[n] \in S
  <2> HIDE DEF next, f, N, S, base
  <2> QED
    BY <1>n, <1>1, <1>5, Shared!RecursionStays
<1> QED
  BY <1>5, <1>6

\* A line written behind others leaves lines.
LEMMA JoinLineIsLines ==
    ASSUME NEW done \in Seq(Lines), NEW line \in Lines
    PROVE  /\ JoinLine(done, line) \in Seq(Lines) \ {<<>>}
           /\ JoinLine(done, line)[Len(JoinLine(done, line))].end = line.end
<1>1. CASE done # <<>> /\ done[Len(done)].end = "none"
  <2> DEFINE l == done[Len(done)]
             new == [text |-> l.text \o line.text, end |-> line.end]
  <2>1. l \in Lines /\ Len(done) \in 1..Len(done)
    BY <1>1
  <2>2. new \in Lines
    <3>1. l.text # <<>> /\ l.text \in Seq(STRING) /\ line.text \in Seq(STRING)
      BY <1>1, <2>1 DEF Lines
    <3>2. l.text \o line.text \in Seq(STRING) /\ Len(l.text \o line.text) = Len(l.text) + Len(line.text)
      BY <3>1
    <3>3. Len(l.text) > 0 /\ Len(line.text) >= 0
      BY <3>1
    <3>4. l.text \o line.text # <<>>
      BY <3>2, <3>3
    <3> QED
      BY <3>2, <3>4 DEF Lines
  <2>3. JoinLine(done, line) = [done EXCEPT ![Len(done)] = new]
    BY <1>1 DEF JoinLine
  <2> HIDE DEF new
  <2>4. [done EXCEPT ![Len(done)] = new] \in Seq(Lines) /\ Len([done EXCEPT ![Len(done)] = new]) = Len(done)
    BY <2>1, <2>2
  <2>5. [done EXCEPT ![Len(done)] = new][Len(done)] = new /\ Len(done) # 0
    BY <1>1, <2>1
  <2>6. new.end = line.end
    BY DEF new
  <2>7. JoinLine(done, line) # <<>>
    BY <2>3, <2>4, <2>5
  <2> QED
    BY <2>3, <2>4, <2>5, <2>6, <2>7
<1>2. CASE ~(done # <<>> /\ done[Len(done)].end = "none")
  <2>1. JoinLine(done, line) = Append(done, line)
    BY <1>2 DEF JoinLine
  <2> QED
    BY <2>1
<1> QED
  BY <1>1, <1>2

\* JoinedUpTo is what its recursion says, and consists of lines.
LEMMA JoinedUnfolds ==
    ASSUME NEW lines \in Seq(Lines)
    PROVE  /\ JoinedUpTo(lines)[0] = <<>>
           /\ \A n \in 1..Len(lines) :
                 JoinedUpTo(lines)[n] = JoinLine(JoinedUpTo(lines)[n - 1], lines[n])
           /\ \A n \in 0..Len(lines) : JoinedUpTo(lines)[n] \in Seq(Lines)
<1> DEFINE N == Len(lines)
           S == Seq(Lines)
           base == <<>>
           next(s, n) == JoinLine(s, lines[n])
           step == [n \in 1..N |-> [s \in S |-> next(s, n)]]
           f == JoinedUpTo(lines)
<1>n. N \in Nat /\ base \in S
  OBVIOUS
<1>1. ASSUME NEW s \in S, NEW n \in 1..N PROVE next(s, n) \in S
  <2>1. lines[n] \in Lines
    OBVIOUS
  <2>2. JoinLine(s, lines[n]) \in Seq(Lines)
    BY <2>1, JoinLineIsLines
  <2> QED
    BY <2>2
<1>2. PICK g \in [0..N -> S] : g[0] = base /\ \A n \in 1..N : g[n] = next(g[n - 1], n)
  <2> HIDE DEF N, S, base, next
  <2>1. step \in [1..N -> [S -> S]]
    BY <1>1
  <2>2. \A s \in S, n \in 1..N : step[n][s] = next(s, n)
    OBVIOUS
  <2> HIDE DEF step
  <2>3. PICK g : Shared!Recursion(g, S, N, base, step)
    BY <1>n, <2>1, Shared!RecursionExists
  <2>4. ASSUME NEW n \in 1..N PROVE g[n] = next(g[n - 1], n)
    <3>1. n - 1 \in 0..N
      BY <1>n
    <3> QED
      BY <2>2, <2>3, <3>1 DEF Shared!Recursion
  <2> QED
    BY <2>3, <2>4 DEF Shared!Recursion
<1>3. g = [n \in 0..N |-> IF n = 0 THEN base ELSE next(g[n - 1], n)]
  <2> HIDE DEF N, S, base, next
  <2> QED
    BY <1>n, <1>2
<1>4. f = [n \in 0..N |-> IF n = 0 THEN base ELSE next(f[n - 1], n)]
  BY <1>3 DEF JoinedUpTo
<1>5. f[0] = base /\ \A n \in 1..N : f[n] = next(f[n - 1], n)
  <2> HIDE DEF N, base, next, f
  <2> QED
    BY <1>n, <1>4
<1>6. \A n \in 0..N : f[n] \in S
  <2> HIDE DEF next, f, N, S, base
  <2> QED
    BY <1>n, <1>1, <1>5, Shared!RecursionStays
<1> QED
  BY <1>5, <1>6

\* The fields of a cursor.
LEMMA CursorFields ==
    /\ Raised \in Cursors /\ Raised.code # "none"
    /\ \A o, p : At(o, p).output = o /\ At(o, p).position = p /\ At(o, p).code = "none"
    /\ \A o, p : At(o, p) # Raised
    /\ \A o \in Seq(Lines), p \in Nat : At(o, p) \in Cursors
    /\ \A s \in Cursors \ {Raised} :
          s.output \in Seq(Lines) /\ s.position \in Nat /\ s = At(s.output, s.position)
<1>1. \A o, p : At(o, p).output = o /\ At(o, p).position = p /\ At(o, p).code = "none"
  BY DEF At
<1>2. Raised.code # "none"
  BY DEF Raised
<1> QED
  BY <1>1, <1>2 DEF Cursors

\* One line of a hunk takes a cursor to a cursor.
LEMMA ApplyLineIsCursor ==
    ASSUME NEW original \in Seq(Lines), NEW s \in Cursors, NEW d \in DiffLines
    PROVE  ApplyLine(original, s, d) \in Cursors
<1>1. CASE s = Raised
  BY <1>1, CursorFields DEF ApplyLine
<1>2. CASE s # Raised
  <2>1. s.output \in Seq(Lines) /\ s.position \in Nat /\ s.position + 1 \in Nat
    BY <1>2, CursorFields
  <2>2. Append(s.output, Expected(d)) \in Seq(Lines)
    BY <2>1, ExpectedIsLine
  <2>3. ~(s.position + 1 > Len(original)) => Append(s.output, original[s.position + 1]) \in Seq(Lines)
    BY <2>1
  <2> QED
    BY <1>2, <2>1, <2>2, <2>3, CursorFields DEF ApplyLine
<1> QED
  BY <1>1, <1>2

\* CursorInHunk is what its recursion says, and consists of cursors.
LEMMA CursorInHunkUnfolds ==
    ASSUME NEW original \in Seq(Lines), NEW s0 \in Cursors, NEW lines \in Seq(DiffLines)
    PROVE  /\ CursorInHunk(original, s0, lines)[0] = s0
           /\ \A n \in 1..Len(lines) :
                 CursorInHunk(original, s0, lines)[n] = ApplyLine(original, CursorInHunk(original, s0, lines)[n - 1], lines[n])
           /\ \A n \in 0..Len(lines) : CursorInHunk(original, s0, lines)[n] \in Cursors
<1> DEFINE N == Len(lines)
           S == Cursors
           base == s0
           next(s, n) == ApplyLine(original, s, lines[n])
           step == [n \in 1..N |-> [s \in S |-> next(s, n)]]
           f == CursorInHunk(original, s0, lines)
<1>n. N \in Nat /\ base \in S
  OBVIOUS
<1>1. ASSUME NEW s \in S, NEW n \in 1..N PROVE next(s, n) \in S
  BY ApplyLineIsCursor
<1>2. PICK g \in [0..N -> S] : g[0] = base /\ \A n \in 1..N : g[n] = next(g[n - 1], n)
  <2> HIDE DEF N, S, base, next
  <2>1. step \in [1..N -> [S -> S]]
    BY <1>1
  <2>2. \A s \in S, n \in 1..N : step[n][s] = next(s, n)
    OBVIOUS
  <2> HIDE DEF step
  <2>3. PICK g : Shared!Recursion(g, S, N, base, step)
    BY <1>n, <2>1, Shared!RecursionExists
  <2>4. ASSUME NEW n \in 1..N PROVE g[n] = next(g[n - 1], n)
    <3>1. n - 1 \in 0..N
      BY <1>n
    <3> QED
      BY <2>2, <2>3, <3>1 DEF Shared!Recursion
  <2> QED
    BY <2>3, <2>4 DEF Shared!Recursion
<1>3. g = [n \in 0..N |-> IF n = 0 THEN base ELSE next(g[n - 1], n)]
  <2> HIDE DEF N, S, base, next
  <2> QED
    BY <1>n, <1>2
<1>4. f = [n \in 0..N |-> IF n = 0 THEN base ELSE next(f[n - 1], n)]
  BY <1>3 DEF CursorInHunk
<1>5. f[0] = base /\ \A n \in 1..N : f[n] = next(f[n - 1], n)
  <2> HIDE DEF N, base, next, f
  <2> QED
    BY <1>n, <1>4
<1>6. \A n \in 0..N : f[n] \in S
  <2> HIDE DEF next, f, N, S, base
  <2> QED
    BY <1>n, <1>1, <1>5, Shared!RecursionStays
<1> QED
  BY <1>5, <1>6

\* Where the lines of a hunk begin, once the lines before it are copied.
AtHunk(original, s, hunk) ==
    At(s.output \o SubSeq(original, s.position + 1, hunk.old_start - 1), hunk.old_start - 1)

\* A hunk within reach begins at a cursor.
LEMMA AtHunkIsCursor ==
    ASSUME NEW original \in Seq(Lines), NEW s \in Cursors, NEW hunk \in DiffHunks,
           s # Raised, Reaches(original, s, hunk)
    PROVE  AtHunk(original, s, hunk) \in Cursors
<1>1. /\ s.position \in Nat /\ s.output \in Seq(Lines) /\ hunk.old_start \in Nat
      /\ hunk.old_start >= 1 + s.position /\ hunk.old_start - 1 <= Len(original)
  BY CursorFields DEF Reaches, DiffHunks
<1>2. SubSeq(original, s.position + 1, hunk.old_start - 1) \in Seq(Lines)
  BY <1>1
<1>3. s.output \o SubSeq(original, s.position + 1, hunk.old_start - 1) \in Seq(Lines)
  BY <1>1, <1>2
<1>4. hunk.old_start - 1 \in Nat
  BY <1>1
<1> QED
  BY <1>3, <1>4, CursorFields DEF AtHunk

\* One hunk takes a cursor to a cursor.
LEMMA ApplyHunkIsCursor ==
    ASSUME NEW original \in Seq(Lines), NEW s \in Cursors, NEW hunk \in DiffHunks
    PROVE  ApplyHunk(original, s, hunk) \in Cursors
<1>1. CASE s = Raised \/ ~Reaches(original, s, hunk)
  BY <1>1, CursorFields DEF ApplyHunk
<1>2. CASE s # Raised /\ Reaches(original, s, hunk)
  <2>1. hunk.lines \in Seq(DiffLines)
    BY DEF DiffHunks
  <2>2. ApplyHunk(original, s, hunk)
          = CursorInHunk(original, AtHunk(original, s, hunk), hunk.lines)[Len(hunk.lines)]
    BY <1>2 DEF ApplyHunk, AtHunk
  <2>3. Len(hunk.lines) \in 0..Len(hunk.lines)
    BY <2>1
  <2> QED
    BY <1>2, <2>1, <2>2, <2>3, AtHunkIsCursor, CursorInHunkUnfolds
<1> QED
  BY <1>1, <1>2

\* Cursor is what its recursion says, and consists of cursors.
LEMMA CursorUnfolds ==
    ASSUME NEW original \in Seq(Lines), NEW hunks \in Seq(DiffHunks)
    PROVE  /\ Cursor(original, hunks)[0] = At(<<>>, 0)
           /\ \A n \in 1..Len(hunks) :
                 Cursor(original, hunks)[n] = ApplyHunk(original, Cursor(original, hunks)[n - 1], hunks[n])
           /\ \A n \in 0..Len(hunks) : Cursor(original, hunks)[n] \in Cursors
<1> DEFINE N == Len(hunks)
           S == Cursors
           base == At(<<>>, 0)
           next(s, n) == ApplyHunk(original, s, hunks[n])
           step == [n \in 1..N |-> [s \in S |-> next(s, n)]]
           f == Cursor(original, hunks)
<1>n. N \in Nat /\ base \in S
  <2>1. <<>> \in Seq(Lines)
    OBVIOUS
  <2>2. 0 \in Nat /\ Len(hunks) \in Nat
    OBVIOUS
  <2>3. At(<<>>, 0) \in Cursors
    BY <2>1, <2>2, CursorFields, Zenon
  <2> QED
    BY <2>2, <2>3
<1>1. ASSUME NEW s \in S, NEW n \in 1..N PROVE next(s, n) \in S
  BY ApplyHunkIsCursor
<1>2. PICK g \in [0..N -> S] : g[0] = base /\ \A n \in 1..N : g[n] = next(g[n - 1], n)
  <2> HIDE DEF N, S, base, next
  <2>1. step \in [1..N -> [S -> S]]
    BY <1>1
  <2>2. \A s \in S, n \in 1..N : step[n][s] = next(s, n)
    OBVIOUS
  <2> HIDE DEF step
  <2>3. PICK g : Shared!Recursion(g, S, N, base, step)
    BY <1>n, <2>1, Shared!RecursionExists
  <2>4. ASSUME NEW n \in 1..N PROVE g[n] = next(g[n - 1], n)
    <3>1. n - 1 \in 0..N
      BY <1>n
    <3> QED
      BY <2>2, <2>3, <3>1 DEF Shared!Recursion
  <2> QED
    BY <2>3, <2>4 DEF Shared!Recursion
<1>3. g = [n \in 0..N |-> IF n = 0 THEN base ELSE next(g[n - 1], n)]
  <2> HIDE DEF N, S, base, next
  <2> QED
    BY <1>n, <1>2
<1>4. f = [n \in 0..N |-> IF n = 0 THEN base ELSE next(f[n - 1], n)]
  BY <1>3 DEF Cursor
<1>5. f[0] = base /\ \A n \in 1..N : f[n] = next(f[n - 1], n)
  <2> HIDE DEF N, base, next, f
  <2> QED
    BY <1>n, <1>4
<1>6. \A n \in 0..N : f[n] \in S
  <2> HIDE DEF next, f, N, S, base
  <2> QED
    BY <1>n, <1>1, <1>5, Shared!RecursionStays
<1> QED
  BY <1>5, <1>6

\* Both sides of a hunk consist of lines, and a hunk ends behind its old side.
LEMMA SidesAreLines ==
    ASSUME NEW hunks \in Seq(DiffHunks), NEW i \in 1..Len(hunks)
    PROVE  /\ hunks[i] \in DiffHunks
           /\ hunks[i].old_start \in Nat /\ hunks[i].lines \in Seq(DiffLines)
           /\ Side(hunks[i], "-") \in Seq(Lines) /\ Side(hunks[i], "+") \in Seq(Lines)
           /\ Len(Side(hunks[i], "-")) \in Nat /\ Len(Side(hunks[i], "+")) \in Nat
           /\ DOMAIN Side(hunks[i], "-") = 1..Len(Side(hunks[i], "-"))
           /\ Behind(hunks, i) = hunks[i].old_start + Len(Side(hunks[i], "-"))
           /\ Behind(hunks, i) \in Nat
<1>1. /\ hunks[i] \in DiffHunks
      /\ hunks[i].old_start \in Nat /\ hunks[i].lines \in Seq(DiffLines)
  <2>1. hunks[i] \in DiffHunks
    OBVIOUS
  <2> QED
    BY <2>1 DEF DiffHunks
<1>2. ASSUME NEW kind PROVE Side(hunks[i], kind) \in Seq(Lines)
  <2>1. Len(hunks[i].lines) \in 0..Len(hunks[i].lines)
    BY <1>1
  <2> QED
    BY <1>1, <2>1, SideUnfolds DEF Side
<1>3. Behind(hunks, i) = hunks[i].old_start + Len(Side(hunks[i], "-"))
  BY DEF Behind
<1> DEFINE old == Side(hunks[i], "-")
           new == Side(hunks[i], "+")
<1>4. old \in Seq(Lines) /\ new \in Seq(Lines)
  BY <1>2
<1> HIDE DEF old, new
<1>5. Len(old) \in Nat /\ Len(new) \in Nat /\ DOMAIN old = 1..Len(old)
  BY <1>4
<1>6. Behind(hunks, i) = hunks[i].old_start + Len(old) /\ Behind(hunks, i) \in Nat
  BY <1>1, <1>3, <1>5 DEF old
<1> QED
  BY <1>1, <1>4, <1>5, <1>6 DEF old, new

\* Behind counts from the first line.
LEMMA BehindIsNat ==
    ASSUME NEW hunks \in Seq(DiffHunks), NEW i \in 0..Len(hunks)
    PROVE  Behind(hunks, i) \in Nat
<1>1. CASE i = 0
  BY <1>1 DEF Behind
<1>2. CASE i # 0
  <2>1. i \in 1..Len(hunks)
    BY <1>2
  <2> QED
    BY <2>1, SidesAreLines
<1> QED
  BY <1>1, <1>2

\* Moved is what its recursion says, and consists of integers.
LEMMA MovedUnfolds ==
    ASSUME NEW hunks \in Seq(DiffHunks)
    PROVE  /\ Moved(hunks)[0] = 0
           /\ \A n \in 1..Len(hunks) :
                 Moved(hunks)[n] = Moved(hunks)[n - 1] + Len(Side(hunks[n], "+")) - Len(Side(hunks[n], "-"))
           /\ \A n \in 0..Len(hunks) : Moved(hunks)[n] \in Int
<1> DEFINE N == Len(hunks)
           S == Int
           base == 0
           next(s, n) == s + Len(Side(hunks[n], "+")) - Len(Side(hunks[n], "-"))
           step == [n \in 1..N |-> [s \in S |-> next(s, n)]]
           f == Moved(hunks)
<1>n. N \in Nat /\ base \in S
  OBVIOUS
<1>1. ASSUME NEW s \in S, NEW n \in 1..N PROVE next(s, n) \in S
  <2>1. Len(Side(hunks[n], "+")) \in Int /\ Len(Side(hunks[n], "-")) \in Int
    <3>1. Side(hunks[n], "+") \in Seq(Lines) /\ Side(hunks[n], "-") \in Seq(Lines)
      BY SidesAreLines
    <3> QED
      BY <3>1
  <2> QED
    BY <2>1
<1>2. PICK g \in [0..N -> S] : g[0] = base /\ \A n \in 1..N : g[n] = next(g[n - 1], n)
  <2> HIDE DEF N, S, base, next
  <2>1. step \in [1..N -> [S -> S]]
    BY <1>1
  <2>2. \A s \in S, n \in 1..N : step[n][s] = next(s, n)
    OBVIOUS
  <2> HIDE DEF step
  <2>3. PICK g : Shared!Recursion(g, S, N, base, step)
    BY <1>n, <2>1, Shared!RecursionExists
  <2>4. ASSUME NEW n \in 1..N PROVE g[n] = next(g[n - 1], n)
    <3>1. n - 1 \in 0..N
      BY <1>n
    <3> QED
      BY <2>2, <2>3, <3>1 DEF Shared!Recursion
  <2> QED
    BY <2>3, <2>4 DEF Shared!Recursion
<1>3. g = [n \in 0..N |-> IF n = 0 THEN base ELSE next(g[n - 1], n)]
  <2> HIDE DEF N, S, base, next
  <2> QED
    BY <1>n, <1>2
<1>4. f = [n \in 0..N |-> IF n = 0 THEN base ELSE next(f[n - 1], n)]
  BY <1>3 DEF Moved
<1>5. f[0] = base /\ \A n \in 1..N : f[n] = next(f[n - 1], n)
  <2> HIDE DEF N, base, next, f
  <2> QED
    BY <1>n, <1>4
<1>6. \A n \in 0..N : f[n] \in S
  <2> HIDE DEF next, f, N, S, base
  <2> QED
    BY <1>n, <1>1, <1>5, Shared!RecursionStays
<1> QED
  BY <1>5, <1>6

\* ReplacedUpTo is what its recursion says, and is a sequence whatever the headers
\* say.
LEMMA ReplacedUnfolds ==
    ASSUME NEW original \in Seq(Lines), NEW hunks \in Seq(DiffHunks)
    PROVE  /\ ReplacedUpTo(original, hunks)[0] = <<>>
           /\ \A n \in 1..Len(hunks) :
                 ReplacedUpTo(original, hunks)[n] = ReplacedUpTo(original, hunks)[n - 1] \o SubSeq(original, Behind(hunks, n - 1), hunks[n].old_start - 1)
                     \o Side(hunks[n], "+")
           /\ \A n \in 0..Len(hunks) : ReplacedUpTo(original, hunks)[n] \in Seq(Lines \cup {original[k] : k \in Int})
<1> DEFINE N == Len(hunks)
           S == Seq(Lines \cup {original[k] : k \in Int})
           base == <<>>
           next(s, n) == s \o SubSeq(original, Behind(hunks, n - 1), hunks[n].old_start - 1)
                     \o Side(hunks[n], "+")
           step == [n \in 1..N |-> [s \in S |-> next(s, n)]]
           f == ReplacedUpTo(original, hunks)
<1>n. N \in Nat /\ base \in S
  OBVIOUS
<1>1. ASSUME NEW s \in S, NEW n \in 1..N PROVE next(s, n) \in S
  <2> DEFINE between == SubSeq(original, Behind(hunks, n - 1), hunks[n].old_start - 1)
             new == Side(hunks[n], "+")
             E == Lines \cup {original[k] : k \in Int}
  <2>1. new \in Seq(Lines)
    BY SidesAreLines
  <2>2. new \in Seq(E)
    BY <2>1
  <2>3. Behind(hunks, n - 1) \in Nat /\ hunks[n].old_start \in Nat
    <3>1. n - 1 \in 0..Len(hunks)
      OBVIOUS
    <3> QED
      BY <3>1, BehindIsNat, SidesAreLines
  <2>4. between \in Seq(E)
    <3> DEFINE a == Behind(hunks, n - 1)
               b == hunks[n].old_start - 1
    <3>1. a \in Int /\ b \in Int
      BY <2>3
    <3> HIDE DEF a, b
    <3>2. SubSeq(original, a, b) = [k \in 1..(1 + b - a) |-> original[k + a - 1]]
      BY <3>1
    <3>3. \A k \in 1..(1 + b - a) : original[k + a - 1] \in E
      BY <3>1
    <3> HIDE DEF E
    <3>4. SubSeq(original, a, b) \in Seq(E)
      BY <3>1, <3>2, <3>3
    <3> QED
      BY <3>4 DEF a, b
  <2> HIDE DEF between, new, E
  <2>5. s \in Seq(E)
    BY DEF E
  <2>6. s \o between \o new \in Seq(E)
    BY <2>2, <2>4, <2>5
  <2> QED
    BY <2>6 DEF between, new, E
<1>2. PICK g \in [0..N -> S] : g[0] = base /\ \A n \in 1..N : g[n] = next(g[n - 1], n)
  <2> HIDE DEF N, S, base, next
  <2>1. step \in [1..N -> [S -> S]]
    BY <1>1
  <2>2. \A s \in S, n \in 1..N : step[n][s] = next(s, n)
    OBVIOUS
  <2> HIDE DEF step
  <2>3. PICK g : Shared!Recursion(g, S, N, base, step)
    BY <1>n, <2>1, Shared!RecursionExists
  <2>4. ASSUME NEW n \in 1..N PROVE g[n] = next(g[n - 1], n)
    <3>1. n - 1 \in 0..N
      BY <1>n
    <3> QED
      BY <2>2, <2>3, <3>1 DEF Shared!Recursion
  <2> QED
    BY <2>3, <2>4 DEF Shared!Recursion
<1>3. g = [n \in 0..N |-> IF n = 0 THEN base ELSE next(g[n - 1], n)]
  <2> HIDE DEF N, S, base, next
  <2> QED
    BY <1>n, <1>2
<1>4. f = [n \in 0..N |-> IF n = 0 THEN base ELSE next(f[n - 1], n)]
  BY <1>3 DEF ReplacedUpTo
<1>5. f[0] = base /\ \A n \in 1..N : f[n] = next(f[n - 1], n)
  <2> HIDE DEF N, base, next, f
  <2> QED
    BY <1>n, <1>4
<1>6. \A n \in 0..N : f[n] \in S
  <2> HIDE DEF next, f, N, S, base
  <2> QED
    BY <1>n, <1>1, <1>5, Shared!RecursionStays
<1> QED
  BY <1>5, <1>6
-----------------------------------------------------------------------------
(* What apply_file_patch_to_text computes.                                 *)

\* side stands in the original behind the first p lines.
Matches(original, p, side) ==
    /\ p + Len(side) <= Len(original)
    /\ \A k \in 1..Len(side) : original[p + k] = side[k]

\* A longer side matches if the shorter one does, and the next line.
LEMMA MatchesAppend ==
    ASSUME NEW original \in Seq(Lines), NEW p \in Nat, NEW side \in Seq(Lines), NEW e \in Lines
    PROVE  Matches(original, p, Append(side, e)) <=>
             /\ Matches(original, p, side)
             /\ p + Len(side) + 1 <= Len(original)
             /\ original[p + Len(side) + 1] = e
<1> DEFINE more == Append(side, e)
<1>1. /\ Len(more) = Len(side) + 1 /\ more[Len(side) + 1] = e
      /\ \A k \in 1..Len(side) : more[k] = side[k]
      /\ Len(side) \in Nat /\ Len(original) \in Nat
  OBVIOUS
<1> HIDE DEF more
<1>2. ASSUME Matches(original, p, more)
      PROVE  /\ Matches(original, p, side)
             /\ p + Len(side) + 1 <= Len(original)
             /\ original[p + Len(side) + 1] = e
  <2>1. Len(side) + 1 \in 1..Len(more) /\ p + (Len(side) + 1) = p + Len(side) + 1
    BY <1>1
  <2>2. original[p + Len(side) + 1] = e
    BY <1>1, <1>2, <2>1 DEF Matches
  <2> QED
    BY <1>1, <1>2, <2>2 DEF Matches
<1>3. ASSUME Matches(original, p, side), p + Len(side) + 1 <= Len(original),
             original[p + Len(side) + 1] = e
      PROVE  Matches(original, p, more)
  <2>1. ASSUME NEW k \in 1..Len(more) PROVE original[p + k] = more[k]
    <3>1. CASE k = Len(side) + 1
      <4>1. p + k = p + Len(side) + 1
        BY <1>1, <3>1
      <4> QED
        BY <1>1, <1>3, <3>1, <4>1
    <3>2. CASE k # Len(side) + 1
      <4>1. k \in 1..Len(side)
        BY <1>1, <3>2
      <4> QED
        BY <1>1, <1>3, <4>1 DEF Matches
    <3> QED
      BY <3>1, <3>2
  <2> QED
    BY <1>1, <1>3, <2>1 DEF Matches
<1> QED
  BY <1>2, <1>3 DEF more

\* Appending to the second of two sequences appends to both.
LEMMA AppendToSecond ==
    ASSUME NEW s \in Seq(Lines), NEW t \in Seq(Lines), NEW e \in Lines
    PROVE  Append(s \o t, e) = s \o Append(t, e)
OBVIOUS

\* A hunk's lines of which x is the old side and y the new one, done at the cursor
\* At(o, p).
LinesDone(original, o, p, x, y) ==
    IF Matches(original, p, x) THEN At(o \o y, p + Len(x)) ELSE Raised

\* A line that the diff adds goes to the new side.
LEMMA AddedLineDone ==
    ASSUME NEW original \in Seq(Lines), NEW o \in Seq(Lines), NEW p \in Nat,
           NEW x \in Seq(Lines), NEW y \in Seq(Lines), NEW d \in DiffLines, d.kind = "+"
    PROVE  ApplyLine(original, LinesDone(original, o, p, x, y), d)
             = LinesDone(original, o, p, x, Append(y, Expected(d)))
<1>1. CASE Matches(original, p, x)
  <2>1. LinesDone(original, o, p, x, y) = At(o \o y, p + Len(x))
    BY <1>1 DEF LinesDone
  <2>2. ApplyLine(original, At(o \o y, p + Len(x)), d) = At(Append(o \o y, Expected(d)), p + Len(x))
    <3> DEFINE a == o \o y
               b == p + Len(x)
               s == At(a, b)
    <3>1. s # Raised /\ s.output = a /\ s.position = b
      <4> HIDE DEF a, b
      <4> QED
        BY CursorFields
    <3> HIDE DEF a, b, s
    <3>2. ApplyLine(original, s, d) = At(Append(a, Expected(d)), b)
      BY <3>1 DEF ApplyLine
    <3> QED
      BY <3>2 DEF a, b, s
  <2>3. Append(o \o y, Expected(d)) = o \o Append(y, Expected(d))
    <3>1. Expected(d) \in Lines
      BY ExpectedIsLine
    <3> QED
      BY <3>1, AppendToSecond
  <2> QED
    BY <1>1, <2>1, <2>2, <2>3 DEF LinesDone
<1>2. CASE ~Matches(original, p, x)
  BY <1>2 DEF LinesDone, ApplyLine
<1> QED
  BY <1>1, <1>2

\* Another line must be the next one of the original; it goes to the old side, and
\* to the new one unless the diff removes it.
LEMMA OldLineDone ==
    ASSUME NEW original \in Seq(Lines), NEW o \in Seq(Lines), NEW p \in Nat,
           NEW x \in Seq(Lines), NEW y \in Seq(Lines), NEW d \in DiffLines, d.kind # "+"
    PROVE  ApplyLine(original, LinesDone(original, o, p, x, y), d)
             = LinesDone(original, o, p, Append(x, Expected(d)),
                         IF d.kind = "-" THEN y ELSE Append(y, Expected(d)))
<1> DEFINE e == Expected(d)
           a == o \o y
           q == p + Len(x)
           s == At(a, q)
           x2 == Append(x, e)
           y2 == IF d.kind = "-" THEN y ELSE Append(y, e)
<1>e. e \in Lines
  BY ExpectedIsLine
<1>m. Matches(original, p, x2) <=>
        Matches(original, p, x) /\ q + 1 <= Len(original) /\ original[q + 1] = e
  BY <1>e, MatchesAppend
<1>l. q \in Nat /\ Len(original) \in Nat /\ p + Len(x2) = q + 1
  BY <1>e
<1>a. o \o y2 = IF d.kind = "-" THEN a ELSE Append(a, e)
  <2>1. Append(o \o y, e) = o \o Append(y, e)
    <3> HIDE DEF e
    <3> QED
      BY <1>e, AppendToSecond
  <2> QED
    BY <2>1
<1>s. s # Raised /\ s.output = a /\ s.position = q
  <2> HIDE DEF a, q
  <2> QED
    BY CursorFields
<1> HIDE DEF e, x2, y2
<1>1. CASE ~Matches(original, p, x)
  <2>1. LinesDone(original, o, p, x, y) = Raised
    BY <1>1 DEF LinesDone
  <2>2. LinesDone(original, o, p, x2, y2) = Raised
    BY <1>1, <1>m DEF LinesDone
  <2>3. ApplyLine(original, Raised, d) = Raised
    BY DEF ApplyLine
  <2> QED
    BY <2>1, <2>2, <2>3 DEF x2, y2, e
<1>2. CASE Matches(original, p, x)
  <2>1. LinesDone(original, o, p, x, y) = s
    BY <1>2 DEF LinesDone
  <2>2. LinesDone(original, o, p, x2, y2)
          = IF q + 1 <= Len(original) /\ original[q + 1] = e
            THEN At(IF d.kind = "-" THEN a ELSE Append(a, e), q + 1) ELSE Raised
    BY <1>2, <1>m, <1>l, <1>a DEF LinesDone
  <2> HIDE DEF a, q, s
  <2>3. ApplyLine(original, s, d)
          = IF q + 1 <= Len(original) /\ original[q + 1] = e
            THEN At(IF d.kind = "-" THEN a ELSE Append(a, e), q + 1) ELSE Raised
    BY <1>s, <1>l DEF ApplyLine, e
  <2> QED
    BY <2>1, <2>2, <2>3 DEF e, x2, y2
<1> QED
  BY <1>1, <1>2

\* The sides of a hunk grow line by line.
LEMMA SidesGrow ==
    ASSUME NEW lines \in Seq(DiffLines), NEW n \in 1..Len(lines)
    PROVE  /\ lines[n] \in DiffLines
           /\ SideUpTo(lines, "-")[n] = IF lines[n].kind = "+" THEN SideUpTo(lines, "-")[n - 1]
                                        ELSE Append(SideUpTo(lines, "-")[n - 1], Expected(lines[n]))
           /\ SideUpTo(lines, "+")[n] = IF lines[n].kind = "-" THEN SideUpTo(lines, "+")[n - 1]
                                        ELSE Append(SideUpTo(lines, "+")[n - 1], Expected(lines[n]))
<1>1. lines[n] \in DiffLines
  OBVIOUS
<1>2. lines[n].kind \in {" ", "-", "+"}
  BY <1>1 DEF DiffLines
<1>3. /\ SideUpTo(lines, "-")[n] = SideWith(SideUpTo(lines, "-")[n - 1], lines[n], "-")
      /\ SideUpTo(lines, "+")[n] = SideWith(SideUpTo(lines, "+")[n - 1], lines[n], "+")
  BY SideUnfolds
<1> QED
  BY <1>1, <1>2, <1>3 DEF SideWith

\* The lines of a hunk take the cursor over the old side and put out the new one,
\* if the old side stands at the cursor; otherwise they raise.
LEMMA HunkLinesApplied ==
    ASSUME NEW original \in Seq(Lines), NEW lines \in Seq(DiffLines),
           NEW o \in Seq(Lines), NEW p \in Nat, p <= Len(original)
    PROVE  \A n \in 0..Len(lines) :
              CursorInHunk(original, At(o, p), lines)[n] =
                  LinesDone(original, o, p, SideUpTo(lines, "-")[n], SideUpTo(lines, "+")[n])
<1> DEFINE at == CursorInHunk(original, At(o, p), lines)
           old == SideUpTo(lines, "-")
           new == SideUpTo(lines, "+")
           T == {n \in 0..Len(lines) : at[n] = LinesDone(original, o, p, old[n], new[n])}
<1>n. Len(lines) \in Nat
  OBVIOUS
<1>a. /\ at[0] = At(o, p)
      /\ \A n \in 1..Len(lines) : at[n] = ApplyLine(original, at[n - 1], lines[n])
  BY CursorFields, CursorInHunkUnfolds
<1>b. /\ old[0] = <<>> /\ new[0] = <<>>
      /\ \A n \in 0..Len(lines) : old[n] \in Seq(Lines) /\ new[n] \in Seq(Lines)
  BY SideUnfolds
<1>1. 0 \in T
  <2>1. Matches(original, p, <<>>) /\ o \o <<>> = o /\ p + Len(<<>>) = p
    BY DEF Matches
  <2>2. LinesDone(original, o, p, <<>>, <<>>) = At(o, p)
    BY <2>1 DEF LinesDone
  <2> HIDE DEF at, old, new
  <2> QED
    BY <1>n, <1>a, <1>b, <2>2
<1>2. ASSUME NEW n \in 1..Len(lines), n - 1 \in T PROVE n \in T
  <2>1. /\ lines[n] \in DiffLines
        /\ old[n] = IF lines[n].kind = "+" THEN old[n - 1] ELSE Append(old[n - 1], Expected(lines[n]))
        /\ new[n] = IF lines[n].kind = "-" THEN new[n - 1] ELSE Append(new[n - 1], Expected(lines[n]))
    BY SidesGrow
  <2> HIDE DEF at, old, new
  <2>2. /\ at[n] = ApplyLine(original, LinesDone(original, o, p, old[n - 1], new[n - 1]), lines[n])
        /\ old[n - 1] \in Seq(Lines) /\ new[n - 1] \in Seq(Lines)
    BY <1>2, <1>a, <1>b
  <2>3. CASE lines[n].kind = "+"
    <3>1. at[n] = LinesDone(original, o, p, old[n - 1], Append(new[n - 1], Expected(lines[n])))
      BY <2>1, <2>2, <2>3, AddedLineDone
    <3>2. old[n] = old[n - 1] /\ new[n] = Append(new[n - 1], Expected(lines[n]))
      BY <2>1, <2>3
    <3>3. at[n] = LinesDone(original, o, p, old[n], new[n])
      BY <3>1, <3>2, Zenon
    <3> QED
      BY <1>n, <3>3
  <2>4. CASE lines[n].kind # "+"
    <3>1. at[n] = LinesDone(original, o, p, Append(old[n - 1], Expected(lines[n])),
                      IF lines[n].kind = "-" THEN new[n - 1] ELSE Append(new[n - 1], Expected(lines[n])))
      BY <2>1, <2>2, <2>4, OldLineDone
    <3>2. old[n] = Append(old[n - 1], Expected(lines[n]))
      BY <2>1, <2>4
    <3>3. at[n] = LinesDone(original, o, p, old[n], new[n])
      BY <2>1, <3>1, <3>2, Zenon
    <3> QED
      BY <1>n, <3>3
  <2> QED
    BY <2>3, <2>4
<1>3. 0..Len(lines) \subseteq T
  <2> HIDE DEF T
  <2> QED
    BY <1>n, <1>1, <1>2, Shared!BoundedInduction
<1> QED
  BY <1>3

\* Two sequences of lines, one behind the other, are a sequence of lines.
LEMMA ConcatIsLines ==
    ASSUME NEW s \in Seq(Lines), NEW t \in Seq(Lines)
    PROVE  s \o t \in Seq(Lines) /\ Len(s \o t) = Len(s) + Len(t)
OBVIOUS

\* A stretch of a sequence of lines is one.
LEMMA StretchIsLines ==
    ASSUME NEW s \in Seq(Lines), NEW a \in Nat, NEW b \in Int,
           1 <= a, a <= b + 1, b <= Len(s)
    PROVE  SubSeq(s, a, b) \in Seq(Lines) /\ Len(SubSeq(s, a, b)) = b + 1 - a
OBVIOUS

\* One hunk, from where the hunk before it has ended.
LEMMA HunkApplied ==
    ASSUME NEW original \in Seq(Lines), NEW hunks \in Seq(DiffHunks), NEW i \in 1..Len(hunks),
           NEW o \in Seq(Lines), Behind(hunks, i - 1) >= 1
    PROVE  ApplyHunk(original, At(o, Behind(hunks, i - 1) - 1), hunks[i]) =
              IF FitsAt(original, hunks, i)
              THEN At(o \o SubSeq(original, Behind(hunks, i - 1), hunks[i].old_start - 1)
                        \o Side(hunks[i], "+"),
                      Behind(hunks, i) - 1)
              ELSE Raised
<1> DEFINE h == hunks[i]
           b == Behind(hunks, i - 1)
           p == h.old_start - 1
           s == At(o, b - 1)
           old == Side(h, "-")
           new == Side(h, "+")
           a == o \o SubSeq(original, b, p)
<1>1. /\ h.old_start \in Nat /\ h.lines \in Seq(DiffLines) /\ h \in DiffHunks
      /\ old \in Seq(Lines) /\ new \in Seq(Lines)
      /\ Behind(hunks, i) = h.old_start + Len(old)
      /\ DOMAIN old = 1..Len(old) /\ Len(old) \in Nat
  BY SidesAreLines
<1>2. b \in Nat /\ b >= 1 /\ b - 1 \in Nat /\ p \in Int
  <2>1. i - 1 \in 0..Len(hunks)
    OBVIOUS
  <2> QED
    BY <1>1, <2>1, BehindIsNat
<1>3. s \in Cursors /\ s # Raised /\ s.output = o /\ s.position = b - 1
  BY <1>2, CursorFields
<1> HIDE DEF b, s, old, new, h
<1>4. Reaches(original, s, h) <=> h.old_start >= b /\ p <= Len(original)
  BY <1>1, <1>2, <1>3 DEF Reaches
<1>5. FitsAt(original, hunks, i) <=>
        h.old_start >= b /\ h.old_start + Len(old) <= Len(original) + 1
        /\ \A n \in 1..Len(old) : original[h.old_start + n - 1] = old[n]
  BY <1>1 DEF FitsAt, b, h, old
<1>6. ASSUME h.old_start >= b
      PROVE  /\ p \in Nat
             /\ FitsAt(original, hunks, i) <=> Matches(original, p, old)
  <2>1. p \in Nat /\ Len(original) \in Nat
    BY <1>1, <1>2, <1>6
  <2>2. \A n \in 1..Len(old) : h.old_start + n - 1 = p + n
    BY <1>1
  <2>3. h.old_start + Len(old) <= Len(original) + 1 <=> p + Len(old) <= Len(original)
    BY <1>1, <2>1
  <2> QED
    BY <1>5, <1>6, <2>1, <2>2, <2>3 DEF Matches
<1>7. CASE ~Reaches(original, s, h)
  <2>1. ApplyHunk(original, s, h) = Raised
    BY <1>7 DEF ApplyHunk
  <2>2. ~FitsAt(original, hunks, i)
    BY <1>1, <1>4, <1>5, <1>7
  <2> QED
    BY <2>1, <2>2 DEF s, h, b
<1>8. CASE Reaches(original, s, h)
  <2>1. p \in Nat /\ p <= Len(original) /\ b <= p + 1
    BY <1>1, <1>2, <1>4, <1>6, <1>8
  <2>2. a \in Seq(Lines)
    <3>1. SubSeq(original, b, p) \in Seq(Lines)
      BY <1>2, <2>1, StretchIsLines
    <3> QED
      BY <3>1, ConcatIsLines
  <2>3. b - 1 + 1 = b
    BY <1>2
  <2>4. ApplyHunk(original, s, h) = CursorInHunk(original, At(a, p), h.lines)[Len(h.lines)]
    BY <1>3, <1>8, <2>3 DEF ApplyHunk
  <2>5. Len(h.lines) \in 0..Len(h.lines)
    BY <1>1
  <2> HIDE DEF a, p
  <2>6. ApplyHunk(original, s, h) = LinesDone(original, a, p, old, new)
    <3>1. CursorInHunk(original, At(a, p), h.lines)[Len(h.lines)]
            = LinesDone(original, a, p, SideUpTo(h.lines, "-")[Len(h.lines)],
                        SideUpTo(h.lines, "+")[Len(h.lines)])
      <4> DEFINE l == h.lines
      <4>1. l \in Seq(DiffLines) /\ Len(l) \in 0..Len(l)
        BY <1>1, <2>5
      <4> HIDE DEF l
      <4>2. CursorInHunk(original, At(a, p), l)[Len(l)]
              = LinesDone(original, a, p, SideUpTo(l, "-")[Len(l)], SideUpTo(l, "+")[Len(l)])
        BY <2>1, <2>2, <4>1, HunkLinesApplied
      <4> QED
        BY <4>2 DEF l
    <3> QED
      BY <2>4, <3>1 DEF old, new, Side
  <2>7. p + Len(old) = Behind(hunks, i) - 1
    BY <1>1 DEF p
  <2>8. FitsAt(original, hunks, i) <=> Matches(original, p, old)
    BY <1>4, <1>6, <1>8 DEF p
  <2>9. ApplyHunk(original, s, h)
          = IF FitsAt(original, hunks, i) THEN At(a \o new, Behind(hunks, i) - 1) ELSE Raised
    BY <2>6, <2>7, <2>8 DEF LinesDone
  <2> QED
    BY <2>9 DEF s, h, b, a, p, new
<1> QED
  BY <1>7, <1>8

\* The hunks up to i fit.
FitsUpTo(original, hunks, i) == \A k \in 1..i : FitsAt(original, hunks, k)

\* What hunks that fit make of the original, and where they end.
LEMMA FittingHunks ==
    ASSUME NEW original \in Seq(Lines), NEW hunks \in Seq(DiffHunks)
    PROVE  \A i \in 0..Len(hunks) : FitsUpTo(original, hunks, i) =>
              /\ Behind(hunks, i) \in 1..(Len(original) + 1)
              /\ ReplacedUpTo(original, hunks)[i] \in Seq(Lines)
              /\ Len(ReplacedUpTo(original, hunks)[i]) = Behind(hunks, i) - 1 + Moved(hunks)[i]
<1> DEFINE N == Len(hunks)
           out == ReplacedUpTo(original, hunks)
           moved == Moved(hunks)
           Claim(i) == /\ Behind(hunks, i) \in 1..(Len(original) + 1)
                       /\ out[i] \in Seq(Lines)
                       /\ Len(out[i]) = Behind(hunks, i) - 1 + moved[i]
           T == {i \in 0..N : FitsUpTo(original, hunks, i) => Claim(i)}
<1>n. N \in Nat /\ Len(original) \in Nat
  OBVIOUS
<1>1. 0 \in T
  <2>1. out[0] = <<>> /\ moved[0] = 0 /\ Behind(hunks, 0) = 1
    BY ReplacedUnfolds, MovedUnfolds DEF Behind
  <2>2. <<>> \in Seq(Lines) /\ Len(<<>>) = 0
    OBVIOUS
  <2> HIDE DEF out, moved
  <2>3. Claim(0)
    BY <1>n, <2>1, <2>2
  <2> HIDE DEF Claim
  <2> QED
    BY <1>n, <2>3
<1>2. ASSUME NEW i \in 1..N, i - 1 \in T PROVE i \in T
  <2> SUFFICES ASSUME FitsUpTo(original, hunks, i) PROVE Claim(i)
    OBVIOUS
  <2> DEFINE h == hunks[i]
             b == Behind(hunks, i - 1)
             p == h.old_start - 1
             old == Side(h, "-")
             new == Side(h, "+")
             between == SubSeq(original, b, p)
  <2>1. Claim(i - 1) /\ FitsAt(original, hunks, i)
    BY <1>2 DEF FitsUpTo
  <2>2. /\ h.old_start \in Nat /\ old \in Seq(Lines) /\ new \in Seq(Lines)
        /\ Behind(hunks, i) = h.old_start + Len(old)
        /\ Len(old) \in Nat /\ Len(new) \in Nat
    BY SidesAreLines
  <2>3. /\ h.old_start >= b /\ Behind(hunks, i) <= Len(original) + 1
    BY <2>1 DEF FitsAt
  <2>4. out[i] = out[i - 1] \o between \o new
    BY ReplacedUnfolds
  <2>m. moved[i] = moved[i - 1] + Len(new) - Len(old) /\ moved[i - 1] \in Int
    <3>1. i - 1 \in 0..N
      BY <1>n
    <3> QED
      BY <3>1, MovedUnfolds
  <2> HIDE DEF out, moved, h, b, old, new
  <2>5. /\ b \in Nat /\ 1 <= b /\ b <= p + 1 /\ p <= Len(original) /\ p \in Int
        /\ out[i - 1] \in Seq(Lines) /\ Len(out[i - 1]) = b - 1 + moved[i - 1]
    BY <1>n, <2>1, <2>2, <2>3 DEF b
  <2>6. between \in Seq(Lines) /\ Len(between) = p + 1 - b
    BY <2>5, StretchIsLines
  <2> HIDE DEF between
  <2>7. /\ out[i - 1] \o between \in Seq(Lines)
        /\ Len(out[i - 1] \o between) = Len(out[i - 1]) + Len(between)
    BY <2>5, <2>6, ConcatIsLines
  <2>8. /\ out[i - 1] \o between \o new \in Seq(Lines)
        /\ Len(out[i - 1] \o between \o new) = Len(out[i - 1]) + Len(between) + Len(new)
    BY <2>2, <2>7, ConcatIsLines
  <2>9. Len(out[i]) = Behind(hunks, i) - 1 + moved[i]
    <3>1. Len(out[i]) = b - 1 + moved[i - 1] + (p + 1 - b) + Len(new)
      BY <2>4, <2>5, <2>6, <2>8, <2>m
    <3> DEFINE m == moved[i - 1]
               q == h.old_start
               x == Len(old)
               y == Len(new)
    <3>2. m \in Int /\ q \in Nat /\ x \in Nat /\ y \in Nat
      BY <2>2, <2>m
    <3>3. moved[i] = m + y - x
      BY <2>m
    <3>4. Behind(hunks, i) = q + x
      BY <2>2
    <3>5. Len(out[i]) = b - 1 + m + (q - 1 + 1 - b) + y
      BY <3>1
    <3> HIDE DEF m, q, x, y
    <3> QED
      BY <2>5, <3>2, <3>3, <3>4, <3>5
  <2>10. Behind(hunks, i) \in 1..(Len(original) + 1)
    BY <1>n, <2>2, <2>3, <2>5
  <2> QED
    BY <2>4, <2>8, <2>9, <2>10
<1>3. 0..N \subseteq T
  <2> HIDE DEF T
  <2> QED
    BY <1>n, <1>1, <1>2, Shared!BoundedInduction
<1> QED
  BY <1>3

\* Hunks that fit are applied one behind the other; the first that does not fit
\* raises.
LEMMA HunksApplied ==
    ASSUME NEW original \in Seq(Lines), NEW hunks \in Seq(DiffHunks)
    PROVE  \A i \in 0..Len(hunks) :
              Cursor(original, hunks)[i] =
                  IF FitsUpTo(original, hunks, i)
                  THEN At(ReplacedUpTo(original, hunks)[i], Behind(hunks, i) - 1)
                  ELSE Raised
<1> DEFINE N == Len(hunks)
           at == Cursor(original, hunks)
           out == ReplacedUpTo(original, hunks)
           Claim(i) == at[i] = IF FitsUpTo(original, hunks, i) THEN At(out[i], Behind(hunks, i) - 1) ELSE Raised
           T == {i \in 0..N : Claim(i)}
<1>n. N \in Nat
  OBVIOUS
<1>1. 0 \in T
  <2>1. at[0] = At(<<>>, 0) /\ out[0] = <<>> /\ Behind(hunks, 0) - 1 = 0
    BY CursorUnfolds, ReplacedUnfolds DEF Behind
  <2>2. FitsUpTo(original, hunks, 0)
    BY DEF FitsUpTo
  <2> HIDE DEF at, out
  <2> QED
    BY <1>n, <2>1, <2>2
<1>2. ASSUME NEW i \in 1..N, i - 1 \in T PROVE i \in T
  <2>1. at[i] = ApplyHunk(original, at[i - 1], hunks[i])
    BY CursorUnfolds
  <2>2. FitsUpTo(original, hunks, i) <=> FitsUpTo(original, hunks, i - 1) /\ FitsAt(original, hunks, i)
    <3>1. \A k \in 1..i : k = i \/ k \in 1..(i - 1)
      BY <1>n
    <3>2. i \in 1..i /\ \A k \in 1..(i - 1) : k \in 1..i
      BY <1>n
    <3> QED
      BY <3>1, <3>2 DEF FitsUpTo
  <2>3. CASE ~FitsUpTo(original, hunks, i - 1)
    <3>1. at[i - 1] = Raised
      BY <1>2, <2>3
    <3>2. at[i] = Raised
      BY <2>1, <3>1 DEF ApplyHunk
    <3> QED
      BY <1>n, <2>2, <2>3, <3>2
  <2>4. CASE FitsUpTo(original, hunks, i - 1)
    <3>1. i - 1 \in 0..N
      BY <1>n
    <3>2. at[i - 1] = At(out[i - 1], Behind(hunks, i - 1) - 1)
      BY <1>2, <2>4
    <3>3. out[i - 1] \in Seq(Lines) /\ Behind(hunks, i - 1) >= 1
      BY <2>4, <3>1, FittingHunks
    <3>4. out[i] = out[i - 1] \o SubSeq(original, Behind(hunks, i - 1), hunks[i].old_start - 1)
                     \o Side(hunks[i], "+")
      BY ReplacedUnfolds
    <3> HIDE DEF at, out
    <3>5. at[i] = IF FitsAt(original, hunks, i)
                  THEN At(out[i - 1] \o SubSeq(original, Behind(hunks, i - 1), hunks[i].old_start - 1)
                            \o Side(hunks[i], "+"), Behind(hunks, i) - 1)
                  ELSE Raised
      BY <2>1, <3>2, <3>3, HunkApplied
    <3>6. at[i] = IF FitsAt(original, hunks, i) THEN At(out[i], Behind(hunks, i) - 1) ELSE Raised
      BY <3>4, <3>5, Zenon
    <3> QED
      BY <1>n, <2>2, <2>4, <3>6
  <2> QED
    BY <2>3, <2>4
<1>3. 0..N \subseteq T
  <2> HIDE DEF T
  <2> QED
    BY <1>n, <1>1, <1>2, Shared!BoundedInduction
<1> QED
  BY <1>3

\* apply_file_patch_to_text raises if a hunk does not fit, and otherwise returns
\* the original with every old side replaced.
LEMMA PatchApplied ==
    ASSUME NEW original \in Seq(Lines), NEW hunks \in Seq(DiffHunks)
    PROVE  /\ ApplyFilePatchToText(original, hunks).code = "none" <=> Fits(original, hunks)
           /\ Fits(original, hunks) =>
                /\ ApplyFilePatchToText(original, hunks).text = Joined(Replaced(original, hunks))
                /\ Replaced(original, hunks) \in Seq(Lines)
<1> DEFINE N == Len(hunks)
           end == Cursor(original, hunks)[N]
           out == ReplacedUpTo(original, hunks)[N]
           b == Behind(hunks, N)
<1>1. N \in 0..N /\ DOMAIN hunks = 1..N
  OBVIOUS
<1>2. Fits(original, hunks) <=> FitsUpTo(original, hunks, N)
  BY <1>1 DEF Fits, FitsUpTo
<1>3. end = IF Fits(original, hunks) THEN At(out, b - 1) ELSE Raised
  BY <1>1, <1>2, HunksApplied
<1>4. Fits(original, hunks) => b \in 1..(Len(original) + 1) /\ out \in Seq(Lines)
  BY <1>1, <1>2, FittingHunks
<1>5. /\ ApplyFilePatchToText(original, hunks).code = end.code
      /\ ApplyFilePatchToText(original, hunks).text
           = Joined(end.output \o SubSeq(original, end.position + 1, Len(original)))
  BY DEF ApplyFilePatchToText
<1> HIDE DEF end, out, b
<1>6. CASE Fits(original, hunks)
  <2>1. end.code = "none" /\ end.output = out /\ end.position = b - 1
    BY <1>3, <1>6, CursorFields
  <2>2. b \in Nat /\ 1 <= b /\ b <= Len(original) + 1 /\ b - 1 + 1 = b
    BY <1>4, <1>6
  <2>3. Replaced(original, hunks) = out \o SubSeq(original, b, Len(original))
    BY DEF Replaced, out, b
  <2>4. ApplyFilePatchToText(original, hunks).text = Joined(Replaced(original, hunks))
    BY <1>5, <2>1, <2>2, <2>3
  <2>5. SubSeq(original, b, Len(original)) \in Seq(Lines)
    BY <2>2, StretchIsLines
  <2>6. out \o SubSeq(original, b, Len(original)) \in Seq(Lines)
    BY <1>4, <1>6, <2>5, ConcatIsLines
  <2> QED
    BY <1>5, <1>6, <2>1, <2>3, <2>4, <2>6
<1>7. CASE ~Fits(original, hunks)
  BY <1>3, <1>5, <1>7, CursorFields
<1> QED
  BY <1>6, <1>7
-----------------------------------------------------------------------------
(* "".join: lines that run together.                                       *)

\* A line written behind a file leaves a file.
LEMMA JoinLineIsFile ==
    ASSUME NEW done \in TextFiles, NEW line \in Lines
    PROVE  JoinLine(done, line) \in TextFiles
<1> DEFINE new == JoinLine(done, line)
<1>1. done \in Seq(Lines) /\ \A k \in 1..(Len(done) - 1) : done[k].end # "none"
  BY DEF TextFiles
<1>2. new \in Seq(Lines)
  BY <1>1, JoinLineIsLines
<1>3. CASE done # <<>> /\ done[Len(done)].end = "none"
  <2> DEFINE l == [text |-> done[Len(done)].text \o line.text, end |-> line.end]
  <2>1. new = [done EXCEPT ![Len(done)] = l]
    BY <1>3 DEF JoinLine
  <2> HIDE DEF l, new
  <2>2. Len(new) = Len(done) /\ \A k \in 1..(Len(done) - 1) : new[k] = done[k]
    BY <1>1, <1>2, <2>1
  <2> QED
    BY <1>1, <1>2, <2>2 DEF TextFiles, new
<1>4. CASE ~(done # <<>> /\ done[Len(done)].end = "none")
  <2>1. new = Append(done, line)
    BY <1>4 DEF JoinLine
  <2> HIDE DEF new
  <2>2. /\ Len(new) = Len(done) + 1 /\ Len(done) \in Nat
        /\ \A k \in 1..Len(done) : new[k] = done[k]
    BY <1>1, <2>1
  <2>3. ASSUME NEW k \in 1..(Len(new) - 1) PROVE new[k].end # "none"
    <3>1. k \in 1..Len(done) /\ new[k] = done[k]
      BY <2>2
    <3>2. CASE k = Len(done)
      <4>1. done # <<>>
        BY <1>1, <3>1, <3>2
      <4> QED
        BY <1>4, <3>1, <3>2, <4>1
    <3>3. CASE k # Len(done)
      <4>1. k \in 1..(Len(done) - 1)
        BY <2>2, <3>1, <3>3
      <4> QED
        BY <1>1, <3>1, <4>1
    <3> QED
      BY <3>2, <3>3
  <2> QED
    BY <1>2, <2>3 DEF TextFiles, new
<1> QED
  BY <1>3, <1>4

\* What is joined is a file, its last line ends as the last of the lines does.
LEMMA JoinedIsFile ==
    ASSUME NEW lines \in Seq(Lines)
    PROVE  /\ Joined(lines) \in TextFiles
           /\ \A n \in 1..Len(lines) :
                 LET done == JoinedUpTo(lines)[n]
                 IN  done # <<>> /\ done[Len(done)].end = lines[n].end
<1> DEFINE J == JoinedUpTo(lines)
<1>n. Len(lines) \in Nat /\ Len(lines) \in 0..Len(lines)
  OBVIOUS
<1>1. /\ J[0] = <<>>
      /\ \A n \in 1..Len(lines) : J[n] = JoinLine(J[n - 1], lines[n])
      /\ \A n \in 0..Len(lines) : J[n] \in Seq(Lines)
  BY JoinedUnfolds
<1> HIDE DEF J
<1>2. J[0] \in TextFiles
  BY <1>1 DEF TextFiles
<1>3. ASSUME NEW n \in 1..Len(lines), J[n - 1] \in TextFiles PROVE J[n] \in TextFiles
  <2>1. lines[n] \in Lines
    OBVIOUS
  <2> QED
    BY <1>1, <1>3, <2>1, JoinLineIsFile
<1>4. \A n \in 0..Len(lines) : J[n] \in TextFiles
  BY <1>n, <1>2, <1>3, Shared!RecursionStays
<1>5. ASSUME NEW n \in 1..Len(lines)
      PROVE  J[n] # <<>> /\ J[n][Len(J[n])].end = lines[n].end
  <2>1. lines[n] \in Lines /\ n - 1 \in 0..Len(lines)
    OBVIOUS
  <2>2. J[n - 1] \in Seq(Lines) /\ J[n] = JoinLine(J[n - 1], lines[n])
    BY <1>1, <2>1
  <2> DEFINE done == J[n - 1]
             line == lines[n]
  <2>3. done \in Seq(Lines) /\ line \in Lines
    BY <2>1, <2>2
  <2> HIDE DEF done, line
  <2>4. JoinLine(done, line) # <<>> /\ JoinLine(done, line)[Len(JoinLine(done, line))].end = line.end
    BY <2>3, JoinLineIsLines
  <2> QED
    BY <2>2, <2>4 DEF done, line
<1> QED
  BY <1>n, <1>4, <1>5 DEF Joined, J

\* read_text leaves the lines and which of them have an end.
LEMMA ReadTextIsFile ==
    ASSUME NEW lines \in TextFiles
    PROVE  /\ ReadText(lines) \in TextFiles
           /\ Terminated(ReadText(lines)) <=> Terminated(lines)
<1> DEFINE text == ReadText(lines)
<1>1. /\ lines \in Seq(Lines) /\ DOMAIN lines = 1..Len(lines) /\ Len(lines) \in Nat
      /\ \A k \in 1..(Len(lines) - 1) : lines[k].end # "none"
  BY DEF TextFiles
<1>2. text = [k \in 1..Len(lines) |->
                [lines[k] EXCEPT !.end = IF lines[k].end = "crlf" THEN "lf" ELSE lines[k].end]]
  BY <1>1 DEF ReadText
<1> HIDE DEF text
<1>3. ASSUME NEW k \in 1..Len(lines)
      PROVE  text[k] \in Lines /\ (text[k].end = "none" <=> lines[k].end = "none")
  <2>1. lines[k] \in Lines
    BY <1>1
  <2>2. text[k] = [lines[k] EXCEPT !.end = IF lines[k].end = "crlf" THEN "lf" ELSE lines[k].end]
    BY <1>2
  <2> QED
    BY <2>1, <2>2 DEF Lines
<1>4. text \in Seq(Lines) /\ Len(text) = Len(lines) /\ DOMAIN text = 1..Len(lines)
  <2>1. text = [k \in 1..Len(lines) |-> text[k]]
    BY <1>2
  <2>2. text \in [1..Len(lines) -> Lines]
    BY <1>3, <2>1
  <2> QED
    BY <1>1, <2>2
<1>5. text \in TextFiles
  BY <1>1, <1>3, <1>4 DEF TextFiles
<1> QED
  BY <1>1, <1>3, <1>4, <1>5 DEF Terminated, text
-----------------------------------------------------------------------------
(* The steps of a transaction.                                             *)

\* The type invariant: whatever runs together, a patched file is a file.
LEMMA TypeStep == TypeOK /\ [Next]_vars => TypeOK'
<1> SUFFICES ASSUME TypeOK, [Next]_vars PROVE TypeOK'
  OBVIOUS
<1>1. ASSUME NEW p \in Patches, PatchFile(p) PROVE TypeOK'
  <2> DEFINE text == ReadText(file)
  <2>1. file \in TextFiles /\ before \in TextFiles /\ text \in TextFiles /\ text \in Seq(Lines)
    BY ReadTextIsFile DEF TypeOK, TextFiles
  <2>2. p \in Seq(DiffHunks)
    BY DiffApplyAssumption
  <2>3. ApplyFilePatchToText(text, p).code = "none" => ApplyFilePatchToText(text, p).text \in TextFiles
    BY <2>1, <2>2, PatchApplied, JoinedIsFile
  <2> HIDE DEF text
  <2>4. file' \in TextFiles /\ before' \in TextFiles /\ patch' = p
    BY <1>1, <2>1, <2>3 DEF PatchFile, text
  <2> QED
    BY <2>2, <2>4 DEF TypeOK
<1>2. CASE NextTransaction
  BY <1>2 DEF NextTransaction, TypeOK
<1>3. CASE UNCHANGED vars
  BY <1>3 DEF vars, TypeOK
<1> QED
  BY <1>1, <1>2, <1>3 DEF Next

\* Type correctness: under any patches, the target is a sequence of lines of which
\* only the last may have no end, so reading it back yields the lines written.
THEOREM TypeCorrect == Spec => []TypeOK
<1>1. Init => TypeOK
  <2> SUFFICES ASSUME Init PROVE TypeOK
    OBVIOUS
  <2>1. file \in TextFiles /\ before = file /\ patch = <<>>
    BY DiffApplyAssumption DEF Init
  <2> QED
    BY <2>1 DEF TypeOK
<1> QED
  BY <1>1, TypeStep, PTL DEF Spec

\* The cursor does what Fits and Replaced say, of any hunks: those that only add get
\* their lines before the header's line.
FileAsReplaced ==
    file = IF patch = <<>> \/ ~Fits(ReadText(before), patch) THEN before
           ELSE Joined(Replaced(ReadText(before), patch))

\* The step of FileAsReplaced.
LEMMA ReplacedStep == TypeOK /\ FileAsReplaced /\ [Next]_vars => FileAsReplaced'
<1> SUFFICES ASSUME TypeOK, FileAsReplaced, [Next]_vars PROVE FileAsReplaced'
  OBVIOUS
<1>1. ASSUME NEW p \in Patches, PatchFile(p) PROVE FileAsReplaced'
  <2> DEFINE text == ReadText(file)
  <2>1. text \in Seq(Lines)
    BY ReadTextIsFile DEF TypeOK, TextFiles
  <2>2. p \in Seq(DiffHunks) /\ p # <<>>
    BY DiffApplyAssumption
  <2>3. /\ ApplyFilePatchToText(text, p).code = "none" <=> Fits(text, p)
        /\ Fits(text, p) => ApplyFilePatchToText(text, p).text = Joined(Replaced(text, p))
    BY <2>1, <2>2, PatchApplied
  <2>4. patch = <<>> /\ file = before /\ before' = before /\ patch' = p
    BY <1>1 DEF PatchFile, FileAsReplaced
  <2>5. file' = IF ApplyFilePatchToText(text, p).code = "none"
                THEN ApplyFilePatchToText(text, p).text ELSE file
    BY <1>1 DEF PatchFile
  <2>6. text = ReadText(before')
    BY <2>4
  <2> HIDE DEF text
  <2>7. file' = IF Fits(text, p) THEN Joined(Replaced(text, p)) ELSE file
    BY <2>3, <2>5
  <2>8. file' = IF patch' = <<>> \/ ~Fits(text, patch') THEN before' ELSE Joined(Replaced(text, patch'))
    BY <2>2, <2>4, <2>7
  <2> QED
    BY <2>6, <2>8 DEF FileAsReplaced
<1>2. CASE NextTransaction
  BY <1>2 DEF NextTransaction, FileAsReplaced
<1>3. CASE UNCHANGED vars
  BY <1>3 DEF vars, FileAsReplaced
<1> QED
  BY <1>1, <1>2, <1>3 DEF Next

\* The file is always what Replaced makes of it.
LEMMA FileAlwaysReplaced == Spec => []FileAsReplaced
<1>1. Init => FileAsReplaced
  BY DEF Init, FileAsReplaced
<1> QED
  BY <1>1, ReplacedStep, TypeCorrect, PTL DEF Spec

\* apply_file_patch_to_text does what a unified diff means, for files and patches of
\* any length whose hunks each keep or remove a line: a patch is applied if and only
\* if every old side stands at its header's line behind the hunk before, and then
\* exactly the old sides are replaced.
THEOREM AppliedAsWrittenHolds == Spec => []AppliedAsWritten
<1>1. FileAsReplaced => AppliedAsWritten
  BY DEF FileAsReplaced, AppliedAsWritten
<1> QED
  BY <1>1, FileAlwaysReplaced, PTL
-----------------------------------------------------------------------------
(* Lines that do not run together, and lines that do.                      *)

\* The lines of a file stay as they are.
LEMMA JoinedSame ==
    ASSUME NEW lines \in TextFiles
    PROVE  Joined(lines) = lines
<1> DEFINE J == JoinedUpTo(lines)
           N == Len(lines)
           T == {n \in 0..N : J[n] = SubSeq(lines, 1, n)}
<1>1. lines \in Seq(Lines) /\ \A k \in 1..(N - 1) : lines[k].end # "none"
  BY DEF TextFiles
<1>n. N \in Nat /\ N \in 0..N
  BY <1>1
<1>2. J[0] = <<>> /\ \A n \in 1..N : J[n] = JoinLine(J[n - 1], lines[n])
  BY <1>1, JoinedUnfolds
<1> HIDE DEF J
<1>3. 0 \in T
  <2>1. SubSeq(lines, 1, 0) = <<>>
    BY <1>1
  <2>2. J[0] = SubSeq(lines, 1, 0)
    BY <1>2, <2>1
  <2> QED
    BY <1>n, <2>2
<1>4. ASSUME NEW n \in 1..N, n - 1 \in T PROVE n \in T
  <2> DEFINE done == SubSeq(lines, 1, n - 1)
             more == SubSeq(lines, 1, n)
  <2>1. /\ done \in Seq(Lines) /\ Len(done) = n - 1
        /\ \A k \in 1..(n - 1) : done[k] = lines[k]
    BY <1>1, <1>n
  <2>2. J[n] = JoinLine(done, lines[n])
    BY <1>2, <1>4
  <2>3. ASSUME done # <<>> PROVE done[Len(done)].end # "none"
    <3>1. n - 1 \in 1..(n - 1) /\ n - 1 \in 1..(N - 1)
      BY <1>n, <2>1, <2>3
    <3> QED
      BY <1>1, <2>1, <3>1
  <2>4. J[n] = Append(done, lines[n])
    BY <2>2, <2>3 DEF JoinLine
  <2>5. Append(done, lines[n]) = more
    BY <1>1, <1>n
  <2> QED
    BY <1>n, <2>4, <2>5
<1>5. 0..N \subseteq T
  <2> HIDE DEF T
  <2> QED
    BY <1>n, <1>3, <1>4, Shared!BoundedInduction
<1>6. J[N] = SubSeq(lines, 1, N)
  BY <1>n, <1>5
<1>7. SubSeq(lines, 1, N) = lines
  BY <1>1
<1> QED
  BY <1>6, <1>7 DEF Joined, J

\* A line without an end that is not the last runs into the next: there are fewer
\* lines than before.
LEMMA JoinedShorter ==
    ASSUME NEW lines \in Seq(Lines), lines \notin TextFiles
    PROVE  Len(Joined(lines)) < Len(lines)
<1> DEFINE J == JoinedUpTo(lines)
           N == Len(lines)
           Open(n) == \E k \in 1..(n - 1) : lines[k].end = "none"
           T == {n \in 0..N : Len(J[n]) <= n /\ (Open(n) => Len(J[n]) < n)}
<1>n. N \in Nat /\ N \in 0..N
  OBVIOUS
<1>1. Open(N)
  BY DEF TextFiles
<1>2. /\ J[0] = <<>> /\ \A n \in 1..N : J[n] = JoinLine(J[n - 1], lines[n])
      /\ \A n \in 0..N : J[n] \in Seq(Lines)
  BY JoinedUnfolds
<1>3. \A n \in 1..N : J[n] # <<>> /\ J[n][Len(J[n])].end = lines[n].end
  BY JoinedIsFile
<1> HIDE DEF J
<1>4. 0 \in T
  <2>1. Len(J[0]) = 0 /\ ~Open(0)
    BY <1>2
  <2> QED
    BY <1>n, <2>1
<1>5. ASSUME NEW n \in 1..N, n - 1 \in T PROVE n \in T
  <2> DEFINE done == J[n - 1]
             line == lines[n]
  <2>1. /\ done \in Seq(Lines) /\ line \in Lines /\ J[n] = JoinLine(done, line)
        /\ Len(done) \in Nat /\ Len(done) <= n - 1
        /\ Open(n - 1) => Len(done) < n - 1
    <3>1. n - 1 \in 0..N
      BY <1>n
    <3> QED
      BY <1>2, <1>5, <3>1
  <2>2. CASE n - 1 \in 1..N /\ lines[n - 1].end = "none"
    <3>1. done # <<>> /\ done[Len(done)].end = "none"
      BY <1>3, <2>2
    <3> HIDE DEF done, line
    <3> DEFINE l == [text |-> done[Len(done)].text \o line.text, end |-> line.end]
    <3>2. J[n] = [done EXCEPT ![Len(done)] = l]
      BY <2>1, <3>1 DEF JoinLine
    <3> HIDE DEF l
    <3>3. Len(J[n]) = Len(done)
      BY <2>1, <3>2
    <3> QED
      BY <1>n, <2>1, <3>3
  <2>3. CASE ~(n - 1 \in 1..N /\ lines[n - 1].end = "none")
    <3> HIDE DEF done, line
    <3>1. Len(J[n]) <= Len(done) + 1 /\ Len(J[n]) \in Nat
      <4>1. CASE done # <<>> /\ done[Len(done)].end = "none"
        <5> DEFINE l == [text |-> done[Len(done)].text \o line.text, end |-> line.end]
        <5>1. J[n] = [done EXCEPT ![Len(done)] = l]
          BY <2>1, <4>1 DEF JoinLine
        <5> HIDE DEF l
        <5>2. Len(J[n]) = Len(done)
          BY <2>1, <5>1
        <5> QED
          BY <2>1, <5>2
      <4>2. CASE ~(done # <<>> /\ done[Len(done)].end = "none")
        <5>1. J[n] = Append(done, line)
          BY <2>1, <4>2 DEF JoinLine
        <5> QED
          BY <2>1, <5>1
      <4> QED
        BY <4>1, <4>2
    <3>2. ASSUME Open(n) PROVE Open(n - 1)
      <4>1. PICK k \in 1..(n - 1) : lines[k].end = "none"
        BY <3>2
      <4>2. k # n - 1
        BY <1>n, <2>3, <4>1
      <4>3. k \in 1..(n - 1 - 1)
        BY <4>1, <4>2
      <4> QED
        BY <4>1, <4>3
    <3> HIDE DEF Open
    <3> QED
      BY <1>n, <2>1, <3>1, <3>2
  <2> QED
    BY <2>2, <2>3
<1>6. 0..N \subseteq T
  <2> HIDE DEF T
  <2> QED
    BY <1>n, <1>4, <1>5, Shared!BoundedInduction
<1>7. N \in T
  BY <1>n, <1>6
<1> QED
  BY <1>1, <1>7 DEF Joined, J
-----------------------------------------------------------------------------
(* The reverse patch.                                                      *)

\* The lines of the reverse hunk have the sides exchanged.
LEMMA ReverseSides ==
    ASSUME NEW lines \in Seq(DiffLines)
    PROVE  /\ ReverseLines(lines) \in Seq(DiffLines) /\ Len(ReverseLines(lines)) = Len(lines)
           /\ \A n \in 0..Len(lines) :
                 /\ SideUpTo(ReverseLines(lines), "-")[n] = SideUpTo(lines, "+")[n]
                 /\ SideUpTo(ReverseLines(lines), "+")[n] = SideUpTo(lines, "-")[n]
<1> DEFINE rev == ReverseLines(lines)
           N == Len(lines)
           old == SideUpTo(lines, "-")
           new == SideUpTo(lines, "+")
           old2 == SideUpTo(rev, "-")
           new2 == SideUpTo(rev, "+")
           T == {n \in 0..N : old2[n] = new[n] /\ new2[n] = old[n]}
<1>n. N \in Nat /\ DOMAIN lines = 1..N
  OBVIOUS
<1>1. ASSUME NEW n \in 1..N
      PROVE  /\ rev[n] \in DiffLines /\ Expected(rev[n]) = Expected(lines[n])
             /\ rev[n].kind = "+" <=> lines[n].kind = "-"
             /\ rev[n].kind = "-" <=> lines[n].kind = "+"
  <2>1. lines[n] \in DiffLines
    OBVIOUS
  <2>2. rev[n] = [lines[n] EXCEPT !.kind = Opposite(lines[n].kind)]
    BY <1>n DEF ReverseLines
  <2> DEFINE d == lines[n]
             r == rev[n]
  <2> HIDE DEF d, r
  <2>3. d \in DiffLines /\ r = [d EXCEPT !.kind = Opposite(d.kind)]
    BY <2>1, <2>2 DEF d, r
  <2>4. /\ r \in DiffLines /\ r.text = d.text
        /\ r.kind = "+" <=> d.kind = "-"
        /\ r.kind = "-" <=> d.kind = "+"
    BY <2>3 DEF DiffLines, Opposite
  <2>5. Expected(r) = Expected(d)
    BY <2>4 DEF Expected
  <2> QED
    BY <2>4, <2>5 DEF d, r
<1>2. rev \in Seq(DiffLines) /\ Len(rev) = N
  <2>1. rev = [n \in 1..N |-> rev[n]]
    BY <1>n DEF ReverseLines
  <2> HIDE DEF rev
  <2>2. rev \in [1..N -> DiffLines]
    BY <1>1, <2>1
  <2> QED
    BY <1>n, <2>2
<1>3. 0 \in T
  <2>1. old[0] = <<>> /\ new[0] = <<>> /\ old2[0] = <<>> /\ new2[0] = <<>>
    BY <1>2, SideUnfolds
  <2> QED
    BY <1>n, <2>1
<1>4. ASSUME NEW n \in 1..N, n - 1 \in T PROVE n \in T
  <2>1. /\ old[n] = IF lines[n].kind = "+" THEN old[n - 1] ELSE Append(old[n - 1], Expected(lines[n]))
        /\ new[n] = IF lines[n].kind = "-" THEN new[n - 1] ELSE Append(new[n - 1], Expected(lines[n]))
    BY SidesGrow
  <2>2. n \in 1..Len(rev)
    BY <1>2
  <2> HIDE DEF rev
  <2>3. /\ old2[n] = IF rev[n].kind = "+" THEN old2[n - 1] ELSE Append(old2[n - 1], Expected(rev[n]))
        /\ new2[n] = IF rev[n].kind = "-" THEN new2[n - 1] ELSE Append(new2[n - 1], Expected(rev[n]))
    BY <1>2, <2>2, SidesGrow
  <2> HIDE DEF old, new, old2, new2
  <2>4. old2[n - 1] = new[n - 1] /\ new2[n - 1] = old[n - 1]
    BY <1>4
  <2>5. old2[n] = new[n]
    BY <1>1, <2>1, <2>3, <2>4
  <2>6. new2[n] = old[n]
    BY <1>1, <2>1, <2>3, <2>4
  <2> QED
    BY <1>n, <2>5, <2>6
<1>5. 0..N \subseteq T
  <2> HIDE DEF T
  <2> QED
    BY <1>n, <1>3, <1>4, Shared!BoundedInduction
<1> QED
  BY <1>2, <1>5

\* The parts of the original and of the result that a hunk is about.
LEMMA FittingHunk ==
    ASSUME NEW original \in Seq(Lines), NEW hunks \in Seq(DiffHunks), Fits(original, hunks),
           NEW i \in 1..Len(hunks)
    PROVE  LET b == Behind(hunks, i - 1)
               q == hunks[i].old_start
               m == Moved(hunks)[i - 1]
               out == ReplacedUpTo(original, hunks)
           IN  /\ b \in Nat /\ q \in Nat /\ 1 <= b /\ b <= q /\ m \in Int
               /\ Behind(hunks, i) = q + Len(Side(hunks[i], "-"))
               /\ Behind(hunks, i) <= Len(original) + 1
               /\ Moved(hunks)[i] = m + Len(Side(hunks[i], "+")) - Len(Side(hunks[i], "-"))
               /\ out[i - 1] \in Seq(Lines) /\ Len(out[i - 1]) = b - 1 + m
               /\ SubSeq(original, b, q - 1) \in Seq(Lines)
               /\ Len(SubSeq(original, b, q - 1)) = q - b
               /\ out[i] = out[i - 1] \o SubSeq(original, b, q - 1) \o Side(hunks[i], "+")
<1> DEFINE b == Behind(hunks, i - 1)
           q == hunks[i].old_start
           m == Moved(hunks)[i - 1]
           out == ReplacedUpTo(original, hunks)
           between == SubSeq(original, b, q - 1)
<1>1. i - 1 \in 0..Len(hunks) /\ DOMAIN hunks = 1..Len(hunks) /\ Len(original) \in Nat
  OBVIOUS
<1>2. FitsAt(original, hunks, i) /\ FitsUpTo(original, hunks, i - 1)
  BY <1>1 DEF Fits, FitsUpTo
<1>3. b \in 1..(Len(original) + 1) /\ out[i - 1] \in Seq(Lines) /\ Len(out[i - 1]) = b - 1 + m
  BY <1>1, <1>2, FittingHunks
<1>4. /\ q \in Nat /\ Behind(hunks, i) = q + Len(Side(hunks[i], "-"))
      /\ Len(Side(hunks[i], "-")) \in Nat
  BY SidesAreLines
<1>5. b <= q /\ Behind(hunks, i) <= Len(original) + 1
  <2>1. q >= b /\ Behind(hunks, i) <= Len(original) + 1
    BY <1>2 DEF FitsAt
  <2> QED
    BY <1>3, <1>4, <2>1
<1>6. /\ m \in Int
      /\ Moved(hunks)[i] = m + Len(Side(hunks[i], "+")) - Len(Side(hunks[i], "-"))
  BY <1>1, MovedUnfolds
<1>7. out[i] = out[i - 1] \o between \o Side(hunks[i], "+")
  BY ReplacedUnfolds
<1> HIDE DEF b, q, m, out
<1>8. b \in Nat /\ 1 <= b /\ b <= (q - 1) + 1 /\ q - 1 <= Len(original) /\ q - 1 \in Int
  BY <1>1, <1>3, <1>4, <1>5
<1>9. between \in Seq(Lines) /\ Len(between) = q - 1 + 1 - b
  BY <1>8, StretchIsLines
<1>10. Len(between) = q - b
  BY <1>4, <1>8, <1>9
<1> QED
  BY <1>3, <1>4, <1>5, <1>6, <1>7, <1>8, <1>9, <1>10 DEF b, q, m, out

\* The elements of two sequences, one behind the other.
LEMMA ConcatAt ==
    ASSUME NEW s \in Seq(Lines), NEW t \in Seq(Lines)
    PROVE  /\ \A k \in 1..Len(s) : (s \o t)[k] = s[k]
           /\ \A k \in 1..Len(t) : (s \o t)[Len(s) + k] = t[k]
OBVIOUS

\* t begins with s.
Begins(s, t) == Len(s) <= Len(t) /\ \A k \in 1..Len(s) : t[k] = s[k]

\* What is put out stays: the result begins with what is put out up to any hunk.
LEMMA ResultBegins ==
    ASSUME NEW original \in Seq(Lines), NEW hunks \in Seq(DiffHunks), Fits(original, hunks)
    PROVE  \A i \in 0..Len(hunks) :
              Begins(ReplacedUpTo(original, hunks)[i], Replaced(original, hunks))
<1> DEFINE N == Len(hunks)
           out == ReplacedUpTo(original, hunks)
           x == Replaced(original, hunks)
           T == {j \in 0..N : \A i \in 0..j : Begins(out[i], out[j])}
<1>n. N \in Nat /\ N \in 0..N /\ DOMAIN hunks = 1..N
  OBVIOUS
<1>1. \A i \in 0..N : out[i] \in Seq(Lines) /\ Len(out[i]) \in Nat
  <2>1. \A i \in 0..N : FitsUpTo(original, hunks, i)
    BY <1>n DEF Fits, FitsUpTo
  <2>2. \A i \in 0..N : out[i] \in Seq(Lines)
    BY <2>1, FittingHunks
  <2> HIDE DEF out
  <2> QED
    BY <2>2
<1>2. 0 \in T
  <2> HIDE DEF out
  <2>1. Begins(out[0], out[0])
    BY <1>1, <1>n DEF Begins
  <2> QED
    BY <1>n, <2>1
<1>3. ASSUME NEW j \in 1..N, j - 1 \in T PROVE j \in T
  <2> DEFINE between == SubSeq(original, Behind(hunks, j - 1), hunks[j].old_start - 1)
             new == Side(hunks[j], "+")
  <2>1. /\ between \in Seq(Lines) /\ out[j] = out[j - 1] \o between \o new
    BY FittingHunk
  <2>2. new \in Seq(Lines) /\ Len(new) \in Nat
    BY SidesAreLines
  <2> HIDE DEF out, between, new
  <2>3. j - 1 \in 0..N /\ out[j - 1] \in Seq(Lines) /\ Len(out[j - 1]) \in Nat /\ Len(between) \in Nat
    BY <1>1, <1>n, <2>1
  <2>4. /\ out[j - 1] \o between \in Seq(Lines)
        /\ Len(out[j - 1] \o between) = Len(out[j - 1]) + Len(between)
        /\ \A k \in 1..Len(out[j - 1]) : (out[j - 1] \o between)[k] = out[j - 1][k]
    BY <2>1, <2>3, ConcatIsLines, ConcatAt
  <2> DEFINE y == out[j - 1] \o between
  <2> HIDE DEF y
  <2>5. Len(y \o new) = Len(y) + Len(new) /\ \A k \in 1..Len(y) : (y \o new)[k] = y[k]
    BY <2>2, <2>4, ConcatIsLines, ConcatAt DEF y
  <2>6. Begins(out[j - 1], out[j])
    <3>1. out[j] = y \o new /\ y \in Seq(Lines) /\ Len(y) = Len(out[j - 1]) + Len(between)
      BY <2>1, <2>4 DEF y
    <3>2. \A k \in 1..Len(out[j - 1]) : y[k] = out[j - 1][k]
      BY <2>4 DEF y
    <3>3. \A k \in 1..Len(out[j - 1]) : k \in 1..Len(y)
      BY <2>3, <3>1
    <3> QED
      BY <2>2, <2>3, <2>5, <3>1, <3>2, <3>3 DEF Begins
  <2>7. ASSUME NEW i \in 0..j PROVE Begins(out[i], out[j])
    <3>1. CASE i = j
      <4>1. Len(out[j]) \in Nat
        BY <1>1, <1>n
      <4> QED
        BY <3>1, <4>1 DEF Begins
    <3>2. CASE i # j
      <4>1. Begins(out[i], out[j - 1])
        <5>1. i \in 0..(j - 1)
          BY <3>2
        <5> QED
          BY <1>3, <5>1
      <4>2. i \in 0..N
        BY <1>n
      <4>3. Len(out[i]) \in Nat /\ Len(out[j]) \in Nat
        BY <1>1, <4>2
      <4> QED
        BY <2>3, <2>6, <4>1, <4>3 DEF Begins
    <3> QED
      BY <3>1, <3>2
  <2> QED
    BY <1>n, <2>7
<1>4. 0..N \subseteq T
  <2> HIDE DEF T
  <2> QED
    BY <1>n, <1>2, <1>3, Shared!BoundedInduction
<1>5. ASSUME NEW i \in 0..N PROVE Begins(out[i], x)
  <2> DEFINE tail == SubSeq(original, Behind(hunks, N), Len(original))
  <2>1. Begins(out[i], out[N])
    BY <1>n, <1>4
  <2>2. tail \in Seq(Lines)
    <3>1. Behind(hunks, N) \in 1..(Len(original) + 1)
      <4>1. FitsUpTo(original, hunks, N)
        BY <1>n DEF Fits, FitsUpTo
      <4> QED
        BY <1>n, <4>1, FittingHunks
    <3> QED
      BY <3>1, StretchIsLines
  <2>3. x = out[N] \o tail
    BY DEF Replaced
  <2> HIDE DEF out, x, tail
  <2>4. /\ Len(out[N] \o tail) = Len(out[N]) + Len(tail) /\ Len(tail) \in Nat
        /\ \A k \in 1..Len(out[N]) : (out[N] \o tail)[k] = out[N][k]
        /\ Len(out[i]) \in Nat /\ Len(out[N]) \in Nat
    BY <1>1, <1>n, <2>2, ConcatIsLines, ConcatAt
  <2> QED
    BY <2>1, <2>3, <2>4 DEF Begins
<1> QED
  BY <1>5

\* The reverse patch is a patch; its hunks stand where those of the patch have
\* come to stand.
LEMMA ReverseHunks ==
    ASSUME NEW original \in Seq(Lines), NEW hunks \in Seq(DiffHunks), Fits(original, hunks)
    PROVE  /\ ReversePatch(hunks) \in Seq(DiffHunks)
           /\ Len(ReversePatch(hunks)) = Len(hunks)
           /\ \A i \in 1..Len(hunks) :
                 /\ ReversePatch(hunks)[i].old_start = hunks[i].old_start + Moved(hunks)[i - 1]
                 /\ Side(ReversePatch(hunks)[i], "-") = Side(hunks[i], "+")
                 /\ Side(ReversePatch(hunks)[i], "+") = Side(hunks[i], "-")
           /\ \A i \in 0..Len(hunks) :
                 Behind(ReversePatch(hunks), i) = Behind(hunks, i) + Moved(hunks)[i]
<1> DEFINE N == Len(hunks)
           R == ReversePatch(hunks)
           moved == Moved(hunks)
<1>n. N \in Nat /\ DOMAIN hunks = 1..N
  OBVIOUS
<1>1. R = [i \in 1..N |-> [old_start |-> hunks[i].old_start + moved[i - 1],
                           lines |-> ReverseLines(hunks[i].lines)]]
  BY <1>n DEF ReversePatch
<1> HIDE DEF R
<1>2. ASSUME NEW i \in 1..N
      PROVE  /\ R[i] = [old_start |-> hunks[i].old_start + moved[i - 1],
                        lines |-> ReverseLines(hunks[i].lines)]
             /\ R[i].old_start = hunks[i].old_start + moved[i - 1]
             /\ R[i].lines = ReverseLines(hunks[i].lines)
  BY <1>1
<1>3. ASSUME NEW i \in 1..N
      PROVE  hunks[i].lines \in Seq(DiffLines) /\ Len(hunks[i].lines) \in 1..Len(hunks[i].lines)
  <2>1. hunks[i] \in DiffHunks
    OBVIOUS
  <2>2. hunks[i].lines \in Seq(DiffLines) /\ hunks[i].lines # <<>>
    BY <2>1 DEF DiffHunks
  <2> QED
    BY <2>2
<1>4. ASSUME NEW i \in 1..N PROVE R[i] \in DiffHunks
  <2> DEFINE b == Behind(hunks, i - 1)
             q == hunks[i].old_start
             m == moved[i - 1]
  <2>1. /\ b \in Nat /\ q \in Nat /\ 1 <= b /\ b <= q /\ m \in Int
        /\ ReplacedUpTo(original, hunks)[i - 1] \in Seq(Lines)
        /\ Len(ReplacedUpTo(original, hunks)[i - 1]) = b - 1 + m
    BY FittingHunk
  <2>2. Len(ReplacedUpTo(original, hunks)[i - 1]) >= 0
    BY <2>1
  <2> HIDE DEF b, q, m
  <2>3. q + m \in Nat
    BY <2>1, <2>2
  <2> DEFINE l == ReverseLines(hunks[i].lines)
  <2>4. l \in Seq(DiffLines) /\ Len(l) = Len(hunks[i].lines)
    BY <1>3, ReverseSides
  <2>5. l # <<>>
    BY <1>3, <2>4
  <2> HIDE DEF l
  <2>6. R[i] = [old_start |-> q + m, lines |-> l]
    BY <1>2 DEF q, m, l
  <2> QED
    BY <2>3, <2>4, <2>5, <2>6 DEF DiffHunks
<1>5. R \in Seq(DiffHunks) /\ Len(R) = N
  <2>1. R = [i \in 1..N |-> R[i]]
    BY <1>1
  <2>2. R \in [1..N -> DiffHunks]
    BY <1>4, <2>1
  <2> QED
    BY <1>n, <2>2
<1>6. ASSUME NEW i \in 1..N
      PROVE  Side(R[i], "-") = Side(hunks[i], "+") /\ Side(R[i], "+") = Side(hunks[i], "-")
  <2> DEFINE l == hunks[i].lines
             r == ReverseLines(l)
  <2>1. l \in Seq(DiffLines) /\ Len(l) \in 0..Len(l)
    BY <1>3
  <2> HIDE DEF l
  <2>2. /\ Len(r) = Len(l)
        /\ SideUpTo(r, "-")[Len(l)] = SideUpTo(l, "+")[Len(l)]
        /\ SideUpTo(r, "+")[Len(l)] = SideUpTo(l, "-")[Len(l)]
    BY <2>1, ReverseSides
  <2>3. R[i].lines = r
    BY <1>2 DEF l
  <2> HIDE DEF r
  <2> QED
    BY <2>2, <2>3 DEF Side, l
<1>7. ASSUME NEW i \in 0..N PROVE Behind(R, i) = Behind(hunks, i) + moved[i]
  <2>1. CASE i = 0
    <3>1. moved[0] = 0
      BY MovedUnfolds
    <3> HIDE DEF moved
    <3> QED
      BY <2>1, <3>1 DEF Behind
  <2>2. CASE i # 0
    <3>1. i \in 1..N
      BY <1>n, <2>2
    <3> DEFINE q == hunks[i].old_start
               m == moved[i - 1]
               x == Len(Side(hunks[i], "-"))
               y == Len(Side(hunks[i], "+"))
    <3>2. q \in Nat /\ m \in Int /\ Behind(hunks, i) = q + x /\ moved[i] = m + y - x
      BY <3>1, FittingHunk
    <3>3. x \in Nat /\ y \in Nat
      BY <3>1, SidesAreLines
    <3>4. Behind(R, i) = R[i].old_start + Len(Side(R[i], "-"))
      BY <2>2 DEF Behind
    <3>5. Behind(R, i) = q + m + y
      BY <1>2, <1>6, <3>1, <3>4
    <3> HIDE DEF q, m, x, y, moved
    <3> QED
      BY <3>2, <3>3, <3>5
  <2> QED
    BY <2>1, <2>2
<1> QED
  BY <1>2, <1>5, <1>6, <1>7 DEF R

\* Where the parts of a hunk are found in the result: what lies before the hunk has
\* moved with the hunks before it, and the new side follows.
LEMMA ResultParts ==
    ASSUME NEW original \in Seq(Lines), NEW hunks \in Seq(DiffHunks), Fits(original, hunks),
           NEW i \in 1..Len(hunks)
    PROVE  LET b == Behind(hunks, i - 1)
               q == hunks[i].old_start
               m == Moved(hunks)[i - 1]
               x == Replaced(original, hunks)
           IN  /\ \A k \in b..(q - 1) : x[k + m] = original[k]
               /\ \A k \in 1..Len(Side(hunks[i], "+")) : x[q + m - 1 + k] = Side(hunks[i], "+")[k]
<1> DEFINE b == Behind(hunks, i - 1)
           q == hunks[i].old_start
           m == Moved(hunks)[i - 1]
           x == Replaced(original, hunks)
           out == ReplacedUpTo(original, hunks)
           u == out[i - 1]
           v == SubSeq(original, b, q - 1)
           w == Side(hunks[i], "+")
<1>1. /\ b \in Nat /\ q \in Nat /\ 1 <= b /\ b <= q /\ m \in Int
      /\ q + Len(Side(hunks[i], "-")) <= Len(original) + 1
      /\ u \in Seq(Lines) /\ Len(u) = b - 1 + m
      /\ v \in Seq(Lines) /\ Len(v) = q - b
      /\ out[i] = u \o v \o w
  BY FittingHunk
<1>2. w \in Seq(Lines) /\ Len(w) \in Nat /\ Len(Side(hunks[i], "-")) \in Nat
  BY SidesAreLines
<1>3. Begins(out[i], x)
  BY ResultBegins
<1>4. \A k \in b..(q - 1) : v[k - b + 1] = original[k]
  <2> DEFINE l == Len(Side(hunks[i], "-"))
  <2>1. Len(original) \in Nat /\ l \in Nat /\ q \in Nat /\ q + l <= Len(original) + 1
    BY <1>1, <1>2
  <2> HIDE DEF b, q, l
  <2>2. q - 1 <= Len(original)
    BY <2>1
  <2> QED
    BY <1>1, <2>1, <2>2
<1> HIDE DEF b, q, m, x, out, u, v, w
<1>5. /\ u \o v \in Seq(Lines) /\ Len(u \o v) = q - 1 + m
      /\ \A k \in 1..Len(v) : (u \o v)[Len(u) + k] = v[k]
  <2>1. Len(u \o v) = Len(u) + Len(v) /\ u \o v \in Seq(Lines)
    BY <1>1, ConcatIsLines
  <2>2. \A k \in 1..Len(v) : (u \o v)[Len(u) + k] = v[k]
    BY <1>1, ConcatAt
  <2>3. Len(u) + Len(v) = q - 1 + m
    BY <1>1
  <2> QED
    BY <2>1, <2>2, <2>3
<1> DEFINE uv == u \o v
<1> HIDE DEF uv
<1>6. /\ uv \in Seq(Lines) /\ Len(uv) = q - 1 + m
      /\ out[i] = uv \o w
      /\ \A k \in 1..Len(v) : uv[Len(u) + k] = v[k]
  BY <1>1, <1>5 DEF uv
<1>7. /\ Len(out[i]) = Len(uv) + Len(w)
      /\ \A k \in 1..Len(uv) : out[i][k] = uv[k]
      /\ \A k \in 1..Len(w) : out[i][Len(uv) + k] = w[k]
  <2>1. Len(uv \o w) = Len(uv) + Len(w)
    BY <1>2, <1>6, ConcatIsLines
  <2>2. /\ \A k \in 1..Len(uv) : (uv \o w)[k] = uv[k]
        /\ \A k \in 1..Len(w) : (uv \o w)[Len(uv) + k] = w[k]
    BY <1>2, <1>6, ConcatAt
  <2> QED
    BY <1>6, <2>1, <2>2
<1>8. ASSUME NEW k \in b..(q - 1) PROVE x[k + m] = original[k]
  <2> DEFINE n == k - b + 1
  <2>1. /\ n \in 1..Len(v) /\ Len(u) + n = k + m
        /\ k + m \in 1..Len(uv) /\ k + m \in 1..Len(out[i])
    <3>1. Len(u) >= 0 /\ Len(u) = b - 1 + m
      BY <1>1
    <3>2. k + m >= 1 /\ k + m <= q - 1 + m
      BY <1>1, <3>1
    <3>3. k + m \in 1..Len(uv) /\ k + m \in 1..Len(out[i])
      BY <1>1, <1>2, <1>6, <1>7, <3>2
    <3> QED
      BY <1>1, <3>3
  <2>2. x[k + m] = out[i][k + m] /\ out[i][k + m] = uv[k + m]
    BY <1>3, <1>7, <2>1 DEF Begins
  <2>3. uv[k + m] = v[n]
    BY <1>6, <2>1
  <2> QED
    BY <1>4, <2>2, <2>3
<1>9. ASSUME NEW k \in 1..Len(w) PROVE x[q + m - 1 + k] = w[k]
  <2>1. /\ q + m - 1 + k = Len(uv) + k /\ Len(uv) >= 0
        /\ Len(uv) + k \in 1..Len(out[i])
    <3>1. Len(uv) \in Nat
      BY <1>6
    <3> QED
      BY <1>1, <1>2, <1>6, <1>7, <3>1
  <2>2. x[Len(uv) + k] = out[i][Len(uv) + k]
    BY <1>3, <2>1 DEF Begins
  <2> QED
    BY <1>7, <2>1, <2>2
<1> QED
  BY <1>8, <1>9 DEF b, q, m, x, w

\* What lies behind the last hunk has moved with all of them.
LEMMA ResultTail ==
    ASSUME NEW original \in Seq(Lines), NEW hunks \in Seq(DiffHunks), Fits(original, hunks)
    PROVE  LET N == Len(hunks)
               b == Behind(hunks, N)
               m == Moved(hunks)[N]
               x == Replaced(original, hunks)
           IN  /\ x \in Seq(Lines) /\ m \in Int /\ b \in 1..(Len(original) + 1)
               /\ Len(x) = Len(original) + m
               /\ \A k \in b..Len(original) : x[k + m] = original[k]
               /\ \A k \in 1..(b - 1 + m) : x[k] = ReplacedUpTo(original, hunks)[N][k]
               /\ ReplacedUpTo(original, hunks)[N] \in Seq(Lines)
               /\ Len(ReplacedUpTo(original, hunks)[N]) = b - 1 + m
<1> DEFINE N == Len(hunks)
           b == Behind(hunks, N)
           m == Moved(hunks)[N]
           x == Replaced(original, hunks)
           u == ReplacedUpTo(original, hunks)[N]
           v == SubSeq(original, b, Len(original))
<1>1. N \in 0..N /\ DOMAIN hunks = 1..N /\ Len(original) \in Nat
  OBVIOUS
<1>2. FitsUpTo(original, hunks, N)
  BY <1>1 DEF Fits, FitsUpTo
<1>3. b \in 1..(Len(original) + 1) /\ u \in Seq(Lines) /\ Len(u) = b - 1 + m
  BY <1>1, <1>2, FittingHunks
<1>4. m \in Int
  BY <1>1, MovedUnfolds
<1>5. x = u \o v
  BY DEF Replaced
<1> HIDE DEF b, m, x, u
<1>6. v \in Seq(Lines) /\ Len(v) = Len(original) + 1 - b
  BY <1>1, <1>3, StretchIsLines
<1>7. \A k \in b..Len(original) : v[k - b + 1] = original[k]
  BY <1>1, <1>3
<1> HIDE DEF v
<1>8. /\ x \in Seq(Lines) /\ Len(x) = Len(u) + Len(v)
      /\ \A k \in 1..Len(v) : x[Len(u) + k] = v[k]
      /\ \A k \in 1..Len(u) : x[k] = u[k]
  <2>1. u \o v \in Seq(Lines) /\ Len(u \o v) = Len(u) + Len(v)
    BY <1>3, <1>6, ConcatIsLines
  <2>2. /\ \A k \in 1..Len(v) : (u \o v)[Len(u) + k] = v[k]
        /\ \A k \in 1..Len(u) : (u \o v)[k] = u[k]
    BY <1>3, <1>6, ConcatAt
  <2> QED
    BY <1>5, <2>1, <2>2
<1>9. Len(x) = Len(original) + m
  BY <1>1, <1>3, <1>4, <1>6, <1>8
<1>10. ASSUME NEW k \in b..Len(original) PROVE x[k + m] = original[k]
  <2> DEFINE n == k - b + 1
  <2>1. n \in 1..Len(v) /\ Len(u) + n = k + m
    BY <1>1, <1>3, <1>4, <1>6
  <2>2. x[Len(u) + n] = v[n] /\ v[n] = original[k]
    BY <1>7, <1>8, <2>1
  <2> QED
    BY <2>1, <2>2
<1> QED
  BY <1>3, <1>4, <1>8, <1>9, <1>10 DEF b, m, x, u

\* The reverse patch fits the result.
LEMMA ReverseFits ==
    ASSUME NEW original \in Seq(Lines), NEW hunks \in Seq(DiffHunks), Fits(original, hunks)
    PROVE  Fits(Replaced(original, hunks), ReversePatch(hunks))
<1> DEFINE N == Len(hunks)
           R == ReversePatch(hunks)
           x == Replaced(original, hunks)
           out == ReplacedUpTo(original, hunks)
<1>1. /\ R \in Seq(DiffHunks) /\ Len(R) = N
      /\ \A i \in 1..N :
            /\ R[i].old_start = hunks[i].old_start + Moved(hunks)[i - 1]
            /\ Side(R[i], "-") = Side(hunks[i], "+")
      /\ \A i \in 0..N : Behind(R, i) = Behind(hunks, i) + Moved(hunks)[i]
  BY ReverseHunks
<1> HIDE DEF R
<1>2. DOMAIN R = 1..N /\ N \in Nat
  BY <1>1
<1>3. ASSUME NEW i \in 1..N PROVE FitsAt(x, R, i)
  <2> DEFINE b == Behind(hunks, i - 1)
             q == hunks[i].old_start
             m == Moved(hunks)[i - 1]
             w == Side(hunks[i], "+")
  <2>1. b \in Nat /\ q \in Nat /\ b <= q /\ m \in Int
    BY FittingHunk
  <2>2. w \in Seq(Lines) /\ DOMAIN w = 1..Len(w)
    BY SidesAreLines
  <2>3. \A k \in 1..Len(w) : x[q + m - 1 + k] = w[k]
    BY ResultParts
  <2>4. Behind(R, i) <= Len(x) + 1
    <3>1. i \in 0..N /\ DOMAIN hunks = 1..N
      BY <1>2
    <3>2. FitsUpTo(original, hunks, i)
      BY <3>1 DEF Fits, FitsUpTo
    <3>3. /\ out[i] \in Seq(Lines) /\ Len(out[i]) = Behind(hunks, i) - 1 + Moved(hunks)[i]
          /\ Behind(hunks, i) \in Int
      BY <3>1, <3>2, FittingHunks
    <3>4. Moved(hunks)[i] \in Int
      BY <3>1, MovedUnfolds
    <3>5. Len(out[i]) <= Len(x)
      BY <3>1, ResultBegins DEF Begins
    <3>6. x \in Seq(Lines)
      BY ResultTail
    <3>7. Behind(R, i) = Behind(hunks, i) + Moved(hunks)[i]
      BY <1>1, <3>1
    <3> DEFINE c == Behind(hunks, i)
               d == Moved(hunks)[i]
               l == Len(out[i])
               z == Len(x)
    <3>8. c \in Int /\ d \in Int /\ z \in Nat /\ l = c - 1 + d /\ l <= z /\ Behind(R, i) = c + d
      BY <3>3, <3>4, <3>5, <3>6, <3>7
    <3> HIDE DEF c, d, l, z
    <3>9. Behind(R, i) <= z + 1
      BY <3>8
    <3> QED
      BY <3>9 DEF z
  <2>5. R[i].old_start = q + m /\ Side(R[i], "-") = w /\ Behind(R, i - 1) = b + m
    <3>1. i - 1 \in 0..N
      BY <1>2
    <3> QED
      BY <1>1, <3>1
  <2> HIDE DEF b, q, m, w, x
  <2>6. R[i].old_start >= Behind(R, i - 1)
    BY <2>1, <2>5
  <2>7. \A k \in DOMAIN w : x[q + m + k - 1] = w[k]
    <3>1. \A k \in 1..Len(w) : q + m + k - 1 = q + m - 1 + k
      BY <2>1
    <3> QED
      BY <2>2, <2>3, <3>1
  <2> QED
    BY <2>4, <2>5, <2>6, <2>7 DEF FitsAt
<1> QED
  BY <1>2, <1>3 DEF Fits, R

\* Two stretches, one behind the other, are one.
LEMMA StretchesJoin ==
    ASSUME NEW s \in Seq(Lines), NEW b \in Nat, NEW c \in Nat, 1 <= b, b <= c, c <= Len(s) + 1
    PROVE  SubSeq(s, 1, b - 1) \o SubSeq(s, b, c - 1) = SubSeq(s, 1, c - 1)
OBVIOUS

\* A stretch, element by element.
LEMMA StretchIs ==
    ASSUME NEW s \in Seq(Lines), NEW b \in Int, NEW c \in Int
    PROVE  SubSeq(s, b, c) = [k \in 1..(1 + c - b) |-> s[k + b - 1]]
OBVIOUS

\* Stretches of two files that have the same lines are the same.
LEMMA SameStretch ==
    ASSUME NEW s \in Seq(Lines), NEW t \in Seq(Lines), NEW b \in Nat, NEW c \in Int, NEW m \in Int,
           \A k \in b..c : t[k + m] = s[k]
    PROVE  SubSeq(t, b + m, c + m) = SubSeq(s, b, c)
<1> DEFINE d == b + m
           e == c + m
<1>1. d \in Int /\ e \in Int /\ b \in Int /\ 1 + e - d = 1 + c - b
  OBVIOUS
<1>2. ASSUME NEW k \in 1..(1 + c - b) PROVE t[k + d - 1] = s[k + b - 1]
  <2>1. k + b - 1 \in b..c /\ (k + b - 1) + m = k + d - 1
    OBVIOUS
  <2> QED
    BY <2>1
<1> HIDE DEF d, e
<1>3. SubSeq(t, d, e) = [k \in 1..(1 + e - d) |-> t[k + d - 1]]
  BY <1>1, StretchIs
<1>4. SubSeq(s, b, c) = [k \in 1..(1 + c - b) |-> s[k + b - 1]]
  BY <1>1, StretchIs
<1>5. SubSeq(t, d, e) = SubSeq(s, b, c)
  BY <1>1, <1>2, <1>3, <1>4
<1> QED
  BY <1>5 DEF d, e

\* The reverse patch makes the original of the result.
LEMMA ReverseReplaces ==
    ASSUME NEW original \in Seq(Lines), NEW hunks \in Seq(DiffHunks), Fits(original, hunks)
    PROVE  Replaced(Replaced(original, hunks), ReversePatch(hunks)) = original
<1> DEFINE N == Len(hunks)
           R == ReversePatch(hunks)
           x == Replaced(original, hunks)
           back == ReplacedUpTo(x, R)
           T == {i \in 0..N : back[i] = SubSeq(original, 1, Behind(hunks, i) - 1)}
<1>1. /\ R \in Seq(DiffHunks) /\ Len(R) = N
      /\ \A i \in 1..N :
            /\ R[i].old_start = hunks[i].old_start + Moved(hunks)[i - 1]
            /\ Side(R[i], "+") = Side(hunks[i], "-")
      /\ \A i \in 0..N : Behind(R, i) = Behind(hunks, i) + Moved(hunks)[i]
  BY ReverseHunks
<1>n. N \in Nat /\ N \in 0..N /\ DOMAIN hunks = 1..N /\ Len(original) \in Nat
  OBVIOUS
<1>x. x \in Seq(Lines)
  BY ResultTail
<1> HIDE DEF R
<1>2. /\ back[0] = <<>>
      /\ \A i \in 1..N : back[i] = back[i - 1] \o SubSeq(x, Behind(R, i - 1), R[i].old_start - 1)
                                     \o Side(R[i], "+")
  <2> HIDE DEF x
  <2>1. /\ back[0] = <<>>
        /\ \A i \in 1..Len(R) : back[i] = back[i - 1] \o SubSeq(x, Behind(R, i - 1), R[i].old_start - 1)
                                     \o Side(R[i], "+")
    BY <1>1, <1>x, ReplacedUnfolds
  <2> QED
    BY <1>1, <2>1
<1>3. 0 \in T
  <2>1. SubSeq(original, 1, Behind(hunks, 0) - 1) = <<>>
    BY DEF Behind
  <2>2. back[0] = SubSeq(original, 1, Behind(hunks, 0) - 1)
    BY <1>2, <2>1
  <2> QED
    BY <1>n, <2>2
<1>4. ASSUME NEW i \in 1..N, i - 1 \in T PROVE i \in T
  <2> DEFINE b == Behind(hunks, i - 1)
             q == hunks[i].old_start
             m == Moved(hunks)[i - 1]
             c == Behind(hunks, i)
             old == Side(hunks[i], "-")
  <2>1. /\ b \in Nat /\ q \in Nat /\ 1 <= b /\ b <= q /\ m \in Int
        /\ c = q + Len(old) /\ c <= Len(original) + 1
    BY FittingHunk
  <2>2. old \in Seq(Lines) /\ Len(old) \in Nat /\ DOMAIN old = 1..Len(old)
    BY SidesAreLines
  <2>3. \A k \in b..(q - 1) : x[k + m] = original[k]
    BY ResultParts
  <2>4. \A k \in 1..Len(old) : original[q + k - 1] = old[k]
    <3>1. FitsAt(original, hunks, i)
      BY <1>n DEF Fits
    <3> QED
      BY <2>2, <3>1 DEF FitsAt
  <2>5. R[i].old_start - 1 = q - 1 + m /\ Side(R[i], "+") = old /\ Behind(R, i - 1) = b + m
    <3>1. i - 1 \in 0..N
      BY <1>n
    <3>2. R[i].old_start = q + m /\ Side(R[i], "+") = old /\ Behind(R, i - 1) = b + m
      BY <1>1, <3>1
    <3> QED
      BY <2>1, <3>2
  <2>6. back[i - 1] = SubSeq(original, 1, b - 1)
    BY <1>4
  <2> HIDE DEF b, q, m, c, old, x, back
  <2>7. SubSeq(x, b + m, q - 1 + m) = SubSeq(original, b, q - 1)
    BY <1>x, <2>1, <2>3, SameStretch
  <2>8. old = SubSeq(original, q, c - 1)
    <3>1. 1 <= q /\ q <= c /\ c - 1 <= Len(original) /\ c \in Nat /\ 1 + (c - 1) - q = Len(old)
      BY <1>n, <2>1, <2>2
    <3>2. SubSeq(original, q, c - 1) = [k \in 1..(1 + (c - 1) - q) |-> original[k + q - 1]]
      BY <2>1, <3>1
    <3>3. ASSUME NEW k \in 1..Len(old) PROVE original[k + q - 1] = old[k]
      <4>1. k + q - 1 = q + k - 1
        BY <2>1
      <4> QED
        BY <2>4, <4>1
    <3>4. old = [k \in 1..Len(old) |-> old[k]]
      BY <2>2
    <3> QED
      BY <3>1, <3>2, <3>3, <3>4
  <2>9. back[i] = SubSeq(original, 1, b - 1) \o SubSeq(original, b, q - 1) \o SubSeq(original, q, c - 1)
    <3>1. back[i] = back[i - 1] \o SubSeq(x, Behind(R, i - 1), R[i].old_start - 1) \o Side(R[i], "+")
      BY <1>2
    <3> QED
      BY <2>5, <2>6, <2>7, <2>8, <3>1, Zenon
  <2>10. c \in Nat /\ q <= c /\ q <= Len(original) + 1 /\ 1 <= q
    BY <1>n, <2>1, <2>2
  <2>11. SubSeq(original, 1, b - 1) \o SubSeq(original, b, q - 1) = SubSeq(original, 1, q - 1)
    BY <2>1, <2>10, StretchesJoin
  <2>12. SubSeq(original, 1, q - 1) \o SubSeq(original, q, c - 1) = SubSeq(original, 1, c - 1)
    BY <2>1, <2>10, StretchesJoin
  <2>13. back[i] = SubSeq(original, 1, c - 1)
    BY <2>9, <2>11, <2>12, Zenon
  <2> QED
    BY <1>n, <2>13 DEF c
<1>5. 0..N \subseteq T
  <2> HIDE DEF T
  <2> QED
    BY <1>n, <1>3, <1>4, Shared!BoundedInduction
<1> DEFINE b == Behind(hunks, N)
           m == Moved(hunks)[N]
<1>6. back[N] = SubSeq(original, 1, b - 1)
  BY <1>n, <1>5
<1>7. /\ m \in Int /\ b \in 1..(Len(original) + 1) /\ Len(x) = Len(original) + m
      /\ \A k \in b..Len(original) : x[k + m] = original[k]
  BY ResultTail
<1>8. Behind(R, N) = b + m
  BY <1>1, <1>n
<1>9. Replaced(x, R) = back[N] \o SubSeq(x, Behind(R, N), Len(x))
  BY <1>1 DEF Replaced
<1> HIDE DEF b, m, x, back
<1>10. SubSeq(x, b + m, Len(original) + m) = SubSeq(original, b, Len(original))
  BY <1>n, <1>x, <1>7, SameStretch
<1>11. Replaced(x, R) = SubSeq(original, 1, b - 1) \o SubSeq(original, b, Len(original))
  BY <1>6, <1>7, <1>8, <1>9, <1>10, Zenon
<1>12. SubSeq(original, 1, b - 1) \o SubSeq(original, b, Len(original)) = original
  <2> DEFINE c == Len(original) + 1
  <2>1. /\ b \in Nat /\ c \in Nat /\ 1 <= b /\ b <= c /\ c <= Len(original) + 1
        /\ c - 1 = Len(original)
    BY <1>n, <1>7
  <2> HIDE DEF c
  <2>2. SubSeq(original, 1, b - 1) \o SubSeq(original, b, c - 1) = SubSeq(original, 1, c - 1)
    BY <2>1, StretchesJoin
  <2>3. SubSeq(original, 1, Len(original)) = original
    OBVIOUS
  <2> QED
    BY <2>1, <2>2, <2>3
<1> QED
  BY <1>11, <1>12 DEF x, R
-----------------------------------------------------------------------------
(* Where a line without an end may come to stand.                          *)

\* Of lines that all have an end, one behind the other, all have an end.
LEMMA TerminatedConcat ==
    ASSUME NEW s \in Seq(Lines), NEW t \in Seq(Lines), Terminated(s), Terminated(t)
    PROVE  Terminated(s \o t)
<1>1. /\ s \o t \in Seq(Lines) /\ Len(s \o t) = Len(s) + Len(t)
      /\ Len(s) \in Nat /\ Len(t) \in Nat
  BY ConcatIsLines
<1>2. DOMAIN s = 1..Len(s) /\ DOMAIN t = 1..Len(t) /\ DOMAIN (s \o t) = 1..(Len(s) + Len(t))
  OBVIOUS
<1>3. ASSUME NEW k \in DOMAIN (s \o t) PROVE (s \o t)[k].end # "none"
  <2>1. CASE k \in 1..Len(s)
    BY <1>2, <2>1, ConcatAt DEF Terminated
  <2>2. CASE k \notin 1..Len(s)
    <3> DEFINE n == k - Len(s)
    <3>1. n \in 1..Len(t) /\ Len(s) + n = k
      BY <1>1, <1>2, <2>2
    <3>2. (s \o t)[Len(s) + n] = t[n]
      BY <3>1, ConcatAt
    <3> QED
      BY <1>2, <3>1, <3>2 DEF Terminated
  <2> QED
    BY <2>1, <2>2
<1> QED
  BY <1>3 DEF Terminated

\* Every line of a side has an end.
LEMMA SideTerminated ==
    ASSUME NEW lines \in Seq(DiffLines), NEW kind
    PROVE  \A n \in 0..Len(lines) : Terminated(SideUpTo(lines, kind)[n])
<1> DEFINE side == SideUpTo(lines, kind)
           T == {n \in 0..Len(lines) : Terminated(side[n])}
<1>n. Len(lines) \in Nat
  OBVIOUS
<1>1. /\ side[0] = <<>>
      /\ \A n \in 1..Len(lines) : side[n] = SideWith(side[n - 1], lines[n], kind)
      /\ \A n \in 0..Len(lines) : side[n] \in Seq(Lines)
  BY SideUnfolds
<1> HIDE DEF side
<1>2. 0 \in T
  <2>1. Terminated(<<>>)
    BY DEF Terminated
  <2> QED
    BY <1>1, <1>n, <2>1
<1>3. ASSUME NEW n \in 1..Len(lines), n - 1 \in T PROVE n \in T
  <2> DEFINE s == side[n - 1]
             e == Expected(lines[n])
  <2>1. s \in Seq(Lines) /\ Terminated(s)
    <3>1. n - 1 \in 0..Len(lines)
      BY <1>n
    <3> QED
      BY <1>1, <1>3, <3>1
  <2>2. e \in Lines /\ e.end = "lf"
    <3>1. lines[n] \in DiffLines
      OBVIOUS
    <3> QED
      BY <3>1, ExpectedIsLine
  <2>3. side[n] = Append(s, e) \/ side[n] = s
    BY <1>1 DEF SideWith
  <2> HIDE DEF s, e
  <2>4. Terminated(Append(s, e))
    <3>1. /\ DOMAIN Append(s, e) = 1..(Len(s) + 1) /\ DOMAIN s = 1..Len(s) /\ Len(s) \in Nat
          /\ \A k \in 1..Len(s) : Append(s, e)[k] = s[k]
          /\ Append(s, e)[Len(s) + 1] = e
      BY <2>1, <2>2
    <3>2. ASSUME NEW k \in 1..(Len(s) + 1) PROVE Append(s, e)[k].end # "none"
      <4>1. CASE k = Len(s) + 1
        BY <2>2, <3>1, <4>1
      <4>2. CASE k # Len(s) + 1
        <5>1. k \in 1..Len(s)
          BY <3>1, <4>2
        <5> QED
          BY <2>1, <3>1, <5>1 DEF Terminated
      <4> QED
        BY <4>1, <4>2
    <3> QED
      BY <3>1, <3>2 DEF Terminated
  <2>5. Terminated(side[n])
    BY <2>1, <2>3, <2>4
  <2> QED
    BY <1>n, <2>5
<1>4. 0..Len(lines) \subseteq T
  <2> HIDE DEF T
  <2> QED
    BY <1>n, <1>2, <1>3, Shared!BoundedInduction
<1> QED
  BY <1>4 DEF side

\* What is put out up to a hunk has ends if the original has them up to there.
LEMMA PutOutTerminated ==
    ASSUME NEW original \in Seq(Lines), NEW hunks \in Seq(DiffHunks), Fits(original, hunks)
    PROVE  \A i \in 0..Len(hunks) :
              (\A k \in 1..(Behind(hunks, i) - 1) : original[k].end # "none") =>
                  Terminated(ReplacedUpTo(original, hunks)[i])
<1> DEFINE N == Len(hunks)
           out == ReplacedUpTo(original, hunks)
           Ended(i) == \A k \in 1..(Behind(hunks, i) - 1) : original[k].end # "none"
           T == {i \in 0..N : Ended(i) => Terminated(out[i])}
<1>n. N \in Nat
  OBVIOUS
<1>1. 0 \in T
  <2>1. out[0] = <<>>
    BY ReplacedUnfolds
  <2>2. Terminated(<<>>)
    BY DEF Terminated
  <2> HIDE DEF out, Ended
  <2> QED
    BY <1>n, <2>1, <2>2
<1>2. ASSUME NEW i \in 1..N, i - 1 \in T PROVE i \in T
  <2> SUFFICES ASSUME Ended(i) PROVE Terminated(out[i])
    BY <1>n
  <2> DEFINE b == Behind(hunks, i - 1)
             q == hunks[i].old_start
             c == Behind(hunks, i)
             u == out[i - 1]
             v == SubSeq(original, b, q - 1)
             w == Side(hunks[i], "+")
             l == Len(Side(hunks[i], "-"))
  <2>1. /\ b \in Nat /\ q \in Nat /\ 1 <= b /\ b <= q
        /\ c = q + l /\ c <= Len(original) + 1
        /\ u \in Seq(Lines) /\ v \in Seq(Lines) /\ Len(v) = q - b
        /\ out[i] = u \o v \o w
    BY FittingHunk
  <2>2. w \in Seq(Lines) /\ l \in Nat
    BY SidesAreLines
  <2>3. Terminated(w)
    <3> DEFINE d == hunks[i].lines
    <3>1. d \in Seq(DiffLines)
      BY SidesAreLines
    <3>2. Len(d) \in 0..Len(d)
      BY <3>1
    <3>3. Terminated(SideUpTo(d, "+")[Len(d)])
      BY <3>1, <3>2, SideTerminated
    <3> QED
      BY <3>3 DEF Side
  <2>4. i - 1 \in 0..N /\ (Ended(i - 1) => Terminated(u))
    BY <1>2
  <2>5. \A k \in 1..(c - 1) : original[k].end # "none"
    OBVIOUS
  <2>6. Ended(i - 1)
    <3>1. \A k \in 1..(b - 1) : original[k].end # "none"
      <4> HIDE DEF b, q, c, l
      <4> QED
        BY <2>1, <2>2, <2>5
    <3> QED
      BY <3>1
  <2>7. Terminated(v)
    <3>1. Len(original) \in Nat /\ q - 1 <= Len(original) /\ q - 1 \in Int
      <4>1. Len(original) \in Nat
        OBVIOUS
      <4> HIDE DEF b, q, c, l
      <4> QED
        BY <2>1, <2>2, <4>1
    <3> HIDE DEF b, q, c, l
    <3>2. v = [k \in 1..(1 + (q - 1) - b) |-> original[k + b - 1]]
      BY <2>1, <3>1, StretchIs
    <3>3. ASSUME NEW k \in 1..(1 + (q - 1) - b) PROVE original[k + b - 1].end # "none"
      <4>1. k + b - 1 \in 1..(c - 1)
        BY <2>1, <2>2
      <4> QED
        BY <2>5, <4>1
    <3> QED
      BY <3>2, <3>3 DEF Terminated
  <2> HIDE DEF b, q, c, u, v, w, l, out, Ended
  <2>8. u \o v \in Seq(Lines) /\ Terminated(u \o v)
    BY <2>1, <2>4, <2>6, <2>7, ConcatIsLines, TerminatedConcat
  <2>9. Terminated(u \o v \o w)
    BY <2>2, <2>3, <2>8, TerminatedConcat
  <2> QED
    BY <2>1, <2>9
<1>3. 0..N \subseteq T
  <2> HIDE DEF T
  <2> QED
    BY <1>n, <1>1, <1>2, Shared!BoundedInduction
<1> QED
  BY <1>3

\* If lines of the result run together, the original had a last line without an
\* end, and the last hunk reaches to the end of the original.
LEMMA RunTogether ==
    ASSUME NEW original \in TextFiles, NEW hunks \in Seq(DiffHunks), Fits(original, hunks),
           Replaced(original, hunks) \notin TextFiles
    PROVE  /\ ~Terminated(original)
           /\ Behind(hunks, Len(hunks)) = Len(original) + 1
<1> DEFINE N == Len(hunks)
           b == Behind(hunks, N)
           m == Moved(hunks)[N]
           x == Replaced(original, hunks)
           out == ReplacedUpTo(original, hunks)
<1>1. /\ original \in Seq(Lines) /\ Len(original) \in Nat /\ DOMAIN original = 1..Len(original)
      /\ \A k \in 1..(Len(original) - 1) : original[k].end # "none"
  BY DEF TextFiles
<1>2. /\ x \in Seq(Lines) /\ m \in Int /\ b \in 1..(Len(original) + 1)
      /\ Len(x) = Len(original) + m
      /\ \A k \in b..Len(original) : x[k + m] = original[k]
      /\ \A k \in 1..(b - 1 + m) : x[k] = out[N][k]
      /\ out[N] \in Seq(Lines) /\ Len(out[N]) = b - 1 + m
  BY <1>1, ResultTail
<1>3. PICK k \in 1..(Len(x) - 1) : x[k].end = "none"
  BY <1>2 DEF TextFiles
<1>4. (\A j \in 1..(b - 1) : original[j].end # "none") => Terminated(out[N])
  <2>1. N \in 0..N
    OBVIOUS
  <2> QED
    BY <1>1, <2>1, PutOutTerminated
<1> HIDE DEF b, m, x, out
<1>5. k \in 1..(b - 1 + m)
  <2>1. CASE k > b - 1 + m
    <3> DEFINE j == k - m
    <3>1. j \in b..Len(original) /\ j + m = k /\ j \in 1..(Len(original) - 1)
      BY <1>1, <1>2, <2>1
    <3>2. x[k] = original[j]
      BY <1>2, <3>1
    <3> QED
      BY <1>1, <1>3, <3>1, <3>2
  <2> QED
    BY <1>2, <2>1
<1>6. ~Terminated(out[N])
  <2>1. out[N][k].end = "none"
    BY <1>2, <1>3, <1>5
  <2>2. k \in DOMAIN out[N]
    BY <1>2, <1>5
  <2> QED
    BY <2>1, <2>2 DEF Terminated
<1>7. PICK j \in 1..(b - 1) : original[j].end = "none"
  BY <1>4, <1>6
<1>8. j = Len(original) /\ j \in 1..Len(original)
  <2>1. j \in 1..Len(original)
    BY <1>1, <1>2, <1>7
  <2>2. j \notin 1..(Len(original) - 1)
    BY <1>1, <1>7
  <2>3. Len(original) \in Nat
    BY <1>1
  <2> QED
    BY <2>1, <2>2, <2>3
<1>9. ~Terminated(original)
  BY <1>1, <1>7, <1>8 DEF Terminated
<1>10. b = Len(original) + 1
  BY <1>1, <1>2, <1>7, <1>8
<1> QED
  BY <1>9, <1>10 DEF b

\* The reverse patch, applied to what a patch has made, restores the text or is
\* refused; it is refused only where the last line had no end.
LEMMA ReverseRestores ==
    ASSUME NEW original \in TextFiles, NEW hunks \in Seq(DiffHunks), hunks # <<>>,
           Fits(original, hunks)
    PROVE  LET back == ApplyFilePatchToText(Joined(Replaced(original, hunks)), ReversePatch(hunks))
           IN  IF back.code = "none" THEN back.text = original ELSE ~Terminated(original)
<1> DEFINE N == Len(hunks)
           R == ReversePatch(hunks)
           x == Replaced(original, hunks)
           y == Joined(x)
<1>1. original \in Seq(Lines) /\ Len(original) \in Nat /\ N \in 1..N
  BY DEF TextFiles
<1>2. R \in Seq(DiffHunks) /\ Len(R) = N /\ Behind(R, N) = Behind(hunks, N) + Moved(hunks)[N]
  <2>1. N \in 0..N
    BY <1>1
  <2> QED
    BY <1>1, <2>1, ReverseHunks
<1>3. x \in Seq(Lines) /\ Len(x) = Len(original) + Moved(hunks)[N] /\ Moved(hunks)[N] \in Int
  BY <1>1, ResultTail
<1>4. Fits(x, R) /\ Replaced(x, R) = original
  BY <1>1, ReverseFits, ReverseReplaces
<1>5. CASE x \in TextFiles
  <2>1. y = x
    BY <1>5, JoinedSame
  <2>2. /\ ApplyFilePatchToText(x, R).code = "none"
        /\ ApplyFilePatchToText(x, R).text = Joined(original)
    <3> HIDE DEF R, x
    <3> QED
      BY <1>2, <1>3, <1>4, PatchApplied
  <2>3. Joined(original) = original
    BY JoinedSame
  <2> HIDE DEF R, x, y
  <2>4. ApplyFilePatchToText(y, R).code = "none" /\ ApplyFilePatchToText(y, R).text = original
    BY <2>1, <2>2, <2>3
  <2> QED
    BY <2>4 DEF R, x, y
<1>6. CASE x \notin TextFiles
  <2>1. ~Terminated(original) /\ Behind(hunks, N) = Len(original) + 1
    BY <1>6, RunTogether
  <2>2. Len(y) < Len(x)
    BY <1>3, <1>6, JoinedShorter
  <2>3. y \in Seq(Lines)
    BY <1>3, JoinedIsFile DEF TextFiles
  <2> HIDE DEF R, x, y
  <2>4. Behind(R, N) = Len(x) + 1
    <3> DEFINE m == Moved(hunks)[N]
               l == Len(original)
    <3>1. /\ Behind(R, N) = (l + 1) + m /\ Len(x) = l + m
          /\ l \in Nat /\ m \in Int
      BY <1>1, <1>2, <1>3, <2>1
    <3> HIDE DEF m, l
    <3> QED
      BY <3>1
  <2>5. Len(y) \in Nat /\ Len(x) \in Nat /\ N \in DOMAIN R
    BY <1>1, <1>2, <1>3, <2>3
  <2>6. ~(Behind(R, N) <= Len(y) + 1)
    BY <2>2, <2>4, <2>5
  <2>7. ~Fits(y, R)
    BY <2>5, <2>6 DEF Fits, FitsAt
  <2>8. ApplyFilePatchToText(y, R).code # "none"
    BY <1>2, <2>3, <2>7, PatchApplied
  <2> QED
    BY <2>1, <2>8 DEF R, x, y
<1> QED
  BY <1>5, <1>6

\* A patch that was applied can be taken back: the reverse patch restores the text,
\* for files and patches of any length.  It is refused only where the last line of
\* the file had no end, and it never makes another text.
THEOREM ReversePatchRestoresHolds == Spec => []ReversePatchRestores
<1>1. TypeOK /\ FileAsReplaced => ReversePatchRestores
  <2> SUFFICES ASSUME TypeOK, FileAsReplaced, patch # <<>>,
                      ApplyFilePatchToText(ReadText(before), patch).code = "none"
               PROVE  LET back == ApplyFilePatchToText(file, ReversePatch(patch))
                      IN  IF back.code = "none" THEN back.text = ReadText(before)
                          ELSE ~Terminated(before)
    BY DEF ReversePatchRestores
  <2> DEFINE text == ReadText(before)
  <2>1. before \in TextFiles /\ patch \in Seq(DiffHunks)
    BY DEF TypeOK
  <2>2. text \in TextFiles /\ text \in Seq(Lines) /\ (Terminated(text) <=> Terminated(before))
    BY <2>1, ReadTextIsFile DEF TextFiles
  <2>3. Fits(text, patch)
    BY <2>1, <2>2, PatchApplied
  <2>4. file = Joined(Replaced(text, patch))
    BY <2>3 DEF FileAsReplaced
  <2> HIDE DEF text
  <2> DEFINE back == ApplyFilePatchToText(Joined(Replaced(text, patch)), ReversePatch(patch))
  <2>5. IF back.code = "none" THEN back.text = text ELSE ~Terminated(text)
    BY <2>1, <2>2, <2>3, ReverseRestores
  <2> QED
    BY <2>2, <2>4, <2>5 DEF text
<1> QED
  BY <1>1, TypeCorrect, FileAlwaysReplaced, PTL
=============================================================================
