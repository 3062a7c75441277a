---------------------------- MODULE SharedLemmas ----------------------------
(***************************************************************************)
(* The lemmas that several proof modules rest on.                          *)
(*                                                                         *)
(* Induction over the naturals without an operator parameter: a set of     *)
(* naturals has a least element, and one that contains 0 and the successor *)
(* of each of its elements is all of them; functions defined by recursion  *)
(* on a number exist and unfold.                                           *)
(*                                                                         *)
(* Facts about append_event and validate_ledger_chain, for ledgers of any  *)
(* length: what a sound ledger is, that append_event keeps it sound, and   *)
(* that the hash of its last event decides all of it.                      *)
(***************************************************************************)
EXTENDS LedgerChain, WellFoundedInduction, TLAPS

\* "Less than" is a well-founded relation that orders the naturals.
LEMMA LessIsWellFounded ==
    \E R : IsWellFoundedOn(R, Nat) /\ \A m, n \in Nat : m < n => <<m, n>> \in R
<1>1. IsWellFoundedOn(OpToRel(<, Nat), Nat)
  BY NatLessThanWellFounded
<1>2. \A m, n \in Nat : m < n => <<m, n>> \in OpToRel(<, Nat)
  BY DEF OpToRel
<1> QED
  BY <1>1, <1>2

\* A set of naturals that is not empty has a least element.
LEMMA LeastNumber ==
    ASSUME NEW T, T \subseteq Nat, T # {}
    PROVE  \E n \in T : \A m \in T : n <= m
<1>1. PICK R : IsWellFoundedOn(R, Nat) /\ \A m, n \in Nat : m < n => <<m, n>> \in R
  BY LessIsWellFounded
<1>2. IsWellFoundedOn(R, Nat)
  BY <1>1
<1>3. \E n \in T : \A m \in T : ~ (<<m, n>> \in R)
  BY <1>2, WFMin
<1>4. PICK n \in T : \A m \in T : ~ (<<m, n>> \in R)
  BY <1>3
<1>5. ASSUME NEW m \in T PROVE n <= m
  <2>1. m \in Nat /\ n \in Nat
    OBVIOUS
  <2>2. ~ (m < n)
    BY <1>1, <1>4, <2>1
  <2> QED
    BY <2>1, <2>2
<1> QED
  BY <1>4, <1>5

\* What holds of 0 and is passed on to successors holds of every natural.
LEMMA SetInduction ==
    ASSUME NEW S, 0 \in S, \A n \in Nat : n \in S => n + 1 \in S
    PROVE  Nat \subseteq S
<1> SUFFICES ASSUME NEW x \in Nat, x \notin S PROVE FALSE
  OBVIOUS
<1> DEFINE T == Nat \ S
<1>1. PICK n \in T : \A m \in T : n <= m
  <2>1. T \subseteq Nat /\ T # {}
    OBVIOUS
  <2> HIDE DEF T
  <2> QED
    BY <2>1, LeastNumber
<1>2. n \in Nat /\ n # 0
  BY <1>1
<1>3. n - 1 \in Nat /\ n - 1 \notin T
  BY <1>1, <1>2
<1> QED
  BY <1>1, <1>2, <1>3

\* The same up to a bound.
LEMMA BoundedInduction ==
    ASSUME NEW N \in Nat, NEW T, 0 \in T, \A n \in 1..N : n - 1 \in T => n \in T
    PROVE  0..N \subseteq T
<1> DEFINE S == {n \in Nat : n <= N => n \in T}
<1>1. 0 \in S
  OBVIOUS
<1>2. \A n \in Nat : n \in S => n + 1 \in S
  <2> SUFFICES ASSUME NEW n \in Nat, n \in S, n + 1 <= N PROVE n + 1 \in T
    OBVIOUS
  <2>1. n + 1 \in 1..N /\ (n + 1) - 1 = n /\ n \in T
    OBVIOUS
  <2> QED
    BY <2>1
<1>3. Nat \subseteq S
  <2> HIDE DEF S
  <2> QED
    BY <1>1, <1>2, SetInduction
<1> QED
  BY <1>3

\* g is the function that starts with base and follows the steps up to N.
Recursion(g, S, N, base, step) ==
    /\ g \in [0..N -> S]
    /\ g[0] = base
    /\ \A n \in 1..N : g[n] = step[n][g[n - 1]]

\* A function that is defined by recursion from 0 up to a bound exists, if every
\* step takes a value of S to a value of S.
LEMMA RecursionExists ==
    ASSUME NEW S, NEW N \in Nat, NEW base \in S, NEW step \in [1..N -> [S -> S]]
    PROVE  \E g : Recursion(g, S, N, base, step)
<1> DEFINE Follows(g, m) == Recursion(g, S, m, base, step)
           T == {m \in 0..N : \E g : Follows(g, m)}
<1>1. 0 \in T
  <2> DEFINE g == [n \in 0..0 |-> base]
  <2>1. Follows(g, 0)
    BY DEF Recursion
  <2> HIDE DEF Follows, g
  <2> QED
    BY <2>1
<1>2. ASSUME NEW m \in 1..N, m - 1 \in T PROVE m \in T
  <2>1. PICK g : Follows(g, m - 1)
    BY <1>2
  <2> DEFINE h == [n \in 0..m |-> IF n = m THEN step[m][g[m - 1]] ELSE g[n]]
  <2>2. g \in [0..(m - 1) -> S] /\ g[m - 1] \in S /\ step[m][g[m - 1]] \in S
    BY <2>1 DEF Recursion
  <2>3. h \in [0..m -> S] /\ h[0] = base
    BY <2>1, <2>2 DEF Recursion
  <2>4. ASSUME NEW n \in 1..m PROVE h[n] = step[n][h[n - 1]]
    <3>1. h[n - 1] = g[n - 1]
      OBVIOUS
    <3>2. CASE n = m
      <4>1. h[m] = step[m][g[m - 1]]
        OBVIOUS
      <4> HIDE DEF h
      <4> QED
        BY <3>1, <3>2, <4>1
    <3>3. CASE n # m
      <4>1. n \in 1..(m - 1) /\ h[n] = g[n]
        BY <3>3
      <4> QED
        BY <2>1, <3>1, <4>1 DEF Recursion
    <3> QED
      BY <3>2, <3>3
  <2>5. Follows(h, m)
    <3> HIDE DEF h
    <3> QED
      BY <2>3, <2>4 DEF Recursion
  <2> HIDE DEF Follows, h
  <2> QED
    BY <2>5
<1>3. 0..N \subseteq T
  <2> HIDE DEF T
  <2> QED
    BY <1>1, <1>2, BoundedInduction
<1> QED
  BY <1>3

\* What starts in S and is passed on by such steps stays in S.
LEMMA RecursionStays ==
    ASSUME NEW S, NEW N \in Nat, NEW f, f[0] \in S, \A n \in 1..N : f[n - 1] \in S => f[n] \in S
    PROVE  \A n \in 0..N : f[n] \in S
<1> DEFINE T == {n \in 0..N : f[n] \in S}
<1>1. 0 \in T /\ \A n \in 1..N : n - 1 \in T => n \in T
  OBVIOUS
<1>2. 0..N \subseteq T
  <2> HIDE DEF T
  <2> QED
    BY <1>1, BoundedInduction
<1> QED
  BY <1>2

-----------------------------------------------------------------------------
\* A record with the fields of an event and no others.
IsEvent(e) ==
    e = [event_id |-> e.event_id, previous_event_hash |-> e.previous_event_hash,
         event_type |-> e.event_type, task_id |-> e.task_id,
         descriptor_hash |-> e.descriptor_hash, receipts |-> e.receipts, others |-> e.others,
         event_hash |-> e.event_hash]

\* A list of events.
IsLedger(ledger) == \E S : ledger \in Seq(S) /\ \A e \in S : IsEvent(e)

\* The hash of an event, once in place, decides the event.
LEMMA SameHashSameEvent ==
    ASSUME NEW e, NEW f, IsEvent(e), IsEvent(f),
           e.event_hash = EventHash(e), f.event_hash = EventHash(f),
           e.event_hash = f.event_hash
    PROVE  e = f
<1>1. [e EXCEPT !.event_hash = None] = [f EXCEPT !.event_hash = None]
  BY DEF EventHash, Hash
<1> DEFINE d == [e EXCEPT !.event_hash = None]
           g == [f EXCEPT !.event_hash = None]
<1>2. /\ d.event_id = e.event_id /\ d.previous_event_hash = e.previous_event_hash
      /\ d.event_type = e.event_type /\ d.task_id = e.task_id
      /\ d.descriptor_hash = e.descriptor_hash /\ d.receipts = e.receipts
      /\ d.others = e.others
  BY DEF IsEvent
<1>3. /\ g.event_id = f.event_id /\ g.previous_event_hash = f.previous_event_hash
      /\ g.event_type = f.event_type /\ g.task_id = f.task_id
      /\ g.descriptor_hash = f.descriptor_hash /\ g.receipts = f.receipts
      /\ g.others = f.others
  BY DEF IsEvent
<1> QED
  BY <1>1, <1>2, <1>3 DEF IsEvent

\* The first event's link is no event's hash.
LEMMA GenesisIsNoHash == \A e : EventHash(e) # GENESIS_PREVIOUS_EVENT_HASH
<1> SUFFICES ASSUME NEW e PROVE EventHash(e)[1] # GENESIS_PREVIOUS_EVENT_HASH[1]
  OBVIOUS
<1> QED
  BY DEF EventHash, Hash, GENESIS_PREVIOUS_EVENT_HASH

\* What a ledger without codes satisfies at every position.
LEMMA SoundChain ==
    ASSUME NEW ledger, IsLedger(ledger)
    PROVE  ChainCodes(ledger) = {} <=>
             \A i \in DOMAIN ledger :
                /\ \A j \in 1..(i - 1) : ledger[j].event_id # ledger[i].event_id
                /\ StructureError(ledger[i]) = {}
                /\ ledger[i].previous_event_hash = HashBefore(ledger, i)
                /\ ledger[i].event_hash = EventHash(ledger[i])
<1> DEFINE codes(i) == UNION {
              Code(\E j \in 1..(i - 1) : ledger[j].event_id = ledger[i].event_id,
                   "LEDGER_DUPLICATE_EVENT_ID"),
              StructureError(ledger[i]),
              Code(ledger[i].previous_event_hash # HashBefore(ledger, i),
                   "LEDGER_CHAIN_DISCONTINUITY"),
              Code(ledger[i].event_hash # EventHash(ledger[i]), "LEDGER_EVENT_HASH_MISMATCH") }
<1>1. ChainCodes(ledger) = UNION {codes(i) : i \in DOMAIN ledger}
  BY DEF ChainCodes
<1>2. ASSUME NEW i
      PROVE  codes(i) = {} <=>
                /\ \A j \in 1..(i - 1) : ledger[j].event_id # ledger[i].event_id
                /\ StructureError(ledger[i]) = {}
                /\ ledger[i].previous_event_hash = HashBefore(ledger, i)
                /\ ledger[i].event_hash = EventHash(ledger[i])
  BY DEF Code
<1>3. ChainCodes(ledger) = {} <=> \A i \in DOMAIN ledger : codes(i) = {}
  <2> HIDE DEF codes
  <2> QED
    BY <1>1
<1> QED
  BY <1>2, <1>3

\* Two sound ledgers that have an event hash in common agree on the event, on
\* its place, and on everything before it.
LEMMA ChainsAgree ==
    ASSUME NEW k, NEW l, IsLedger(k), IsLedger(l), ChainCodes(k) = {}, ChainCodes(l) = {},
           NEW i \in DOMAIN k, NEW j \in DOMAIN l, k[i].event_hash = l[j].event_hash
    PROVE  i = j /\ \A x \in 1..i : k[x] = l[x]
<1>t. /\ Len(k) \in Nat /\ DOMAIN k = 1..Len(k) /\ \A n \in DOMAIN k : IsEvent(k[n])
      /\ Len(l) \in Nat /\ DOMAIN l = 1..Len(l) /\ \A n \in DOMAIN l : IsEvent(l[n])
  BY DEF IsLedger
<1>k. \A n \in DOMAIN k : /\ k[n].previous_event_hash = HashBefore(k, n)
                          /\ k[n].event_hash = EventHash(k[n])
  BY SoundChain
<1>l. \A n \in DOMAIN l : /\ l[n].previous_event_hash = HashBefore(l, n)
                          /\ l[n].event_hash = EventHash(l[n])
  BY SoundChain
<1> DEFINE Agree(n, m) == n = m /\ \A x \in 1..n : k[x] = l[x]
           T == {n \in DOMAIN k : \E m \in DOMAIN l : k[n].event_hash = l[m].event_hash
                                                      /\ ~Agree(n, m)}
<1>1. T = {}
  <2> SUFFICES ASSUME T # {} PROVE FALSE
    OBVIOUS
  <2>1. PICK n \in T : \A x \in T : n <= x
    <3>1. T \subseteq Nat
      BY <1>t
    <3> HIDE DEF T
    <3> QED
      BY <3>1, LeastNumber
  <2>2. PICK m \in DOMAIN l : k[n].event_hash = l[m].event_hash /\ ~Agree(n, m)
    BY <2>1
  <2>3. n \in DOMAIN k /\ n \in Nat /\ n >= 1 /\ m \in Nat /\ m >= 1
    BY <2>1, <2>2, <1>t
  <2>4. k[n] = l[m]
    BY <2>2, <2>3, <1>t, <1>k, <1>l, SameHashSameEvent
  <2>5. HashBefore(k, n) = HashBefore(l, m)
    BY <2>3, <2>4, <1>k, <1>l
  <2>6. CASE n = 1 /\ m = 1
    BY <2>2, <2>4, <2>6
  <2>7. CASE n = 1 /\ m > 1
    <3>1. m - 1 \in DOMAIN l /\ HashBefore(l, m) = EventHash(l[m - 1])
      BY <2>3, <2>7, <1>t, <1>l DEF HashBefore
    <3> QED
      BY <3>1, <2>5, <2>7, GenesisIsNoHash DEF HashBefore
  <2>8. CASE n > 1 /\ m = 1
    <3>1. n - 1 \in DOMAIN k /\ HashBefore(k, n) = EventHash(k[n - 1])
      BY <2>3, <2>8, <1>t, <1>k DEF HashBefore
    <3> QED
      BY <3>1, <2>5, <2>8, GenesisIsNoHash DEF HashBefore
  <2>9. CASE n > 1 /\ m > 1
    <3>1. /\ n - 1 \in DOMAIN k /\ m - 1 \in DOMAIN l
          /\ k[n - 1].event_hash = l[m - 1].event_hash
      BY <2>3, <2>5, <2>9, <1>t DEF HashBefore
    <3>2. n - 1 \notin T
      BY <2>1, <2>3
    <3>3. Agree(n - 1, m - 1)
      BY <3>1, <3>2
    <3>4. n = m /\ \A x \in 1..n : x = n \/ x \in 1..(n - 1)
      BY <3>3, <2>3
    <3> QED
      BY <3>3, <3>4, <2>2, <2>4
  <2> QED
    BY <2>3, <2>6, <2>7, <2>8, <2>9
<1> QED
  BY <1>1

\* An event that append_event accepts leaves a sound ledger sound.
LEMMA AppendKeepsSound ==
    ASSUME NEW ledger, IsLedger(ledger), NEW event, IsEvent(event),
           AppendAccepted(ledger, event)
    PROVE  /\ IsLedger(Appended(ledger, event))
           /\ ChainCodes(Appended(ledger, event)) = {}
           /\ Len(Appended(ledger, event)) = Len(ledger) + 1
<1> DEFINE made == [event EXCEPT !.event_hash = EventHash(event)]
           longer == Appended(ledger, event)
<1>1. IsEvent(made)
  BY DEF IsEvent
<1>2. PICK S : ledger \in Seq(S) /\ \A e \in S : IsEvent(e)
  BY DEF IsLedger
<1>3. /\ longer \in Seq(S \cup {made}) /\ Len(longer) = Len(ledger) + 1
      /\ Len(ledger) \in Nat /\ DOMAIN ledger = 1..Len(ledger)
      /\ DOMAIN longer = 1..(Len(ledger) + 1)
      /\ \A i \in DOMAIN ledger : longer[i] = ledger[i]
      /\ longer[Len(ledger) + 1] = made
  BY <1>2 DEF Appended
<1>4. IsLedger(longer)
  BY <1>1, <1>2, <1>3 DEF IsLedger
<1>5. /\ made.event_id = event.event_id
      /\ made.previous_event_hash = event.previous_event_hash
      /\ made.event_type = event.event_type /\ made.task_id = event.task_id
      /\ made.descriptor_hash = event.descriptor_hash /\ made.receipts = event.receipts
      /\ made.others = event.others
      /\ made.event_hash = EventHash(event)
  BY DEF IsEvent
<1>6. StructureError(made) = StructureError(event)
  <2> HIDE DEF made
  <2> QED
    BY <1>5 DEF StructureError, Named
<1>7. EventHash(made) = EventHash(event)
  <2>1. [made EXCEPT !.event_hash = None] = [event EXCEPT !.event_hash = None]
    BY DEF IsEvent
  <2> QED
    BY <2>1 DEF EventHash
<1>8. ChainCodes(ledger) = {}
  BY DEF AppendAccepted, ValidateLedgerChain
<1>9. \A i \in DOMAIN ledger :
         /\ \A j \in 1..(i - 1) : ledger[j].event_id # ledger[i].event_id
         /\ StructureError(ledger[i]) = {}
         /\ ledger[i].previous_event_hash = HashBefore(ledger, i)
         /\ ledger[i].event_hash = EventHash(ledger[i])
  BY <1>8, SoundChain
<1> HIDE DEF made, longer
<1>10. ASSUME NEW i \in DOMAIN longer
       PROVE  /\ \A j \in 1..(i - 1) : longer[j].event_id # longer[i].event_id
              /\ StructureError(longer[i]) = {}
              /\ longer[i].previous_event_hash = HashBefore(longer, i)
              /\ longer[i].event_hash = EventHash(longer[i])
  <2>1. CASE i \in DOMAIN ledger
    <3>1. HashBefore(longer, i) = HashBefore(ledger, i)
      BY <2>1, <1>3 DEF HashBefore
    <3> QED
      BY <2>1, <3>1, <1>3, <1>9
  <2>2. CASE i = Len(ledger) + 1
    <3>1. HashBefore(longer, i) = TerminalHash(ledger)
      BY <2>2, <1>3 DEF HashBefore, TerminalHash
    <3> QED
      BY <2>2, <3>1, <1>3, <1>5, <1>6, <1>7 DEF AppendAccepted
  <2> QED
    BY <2>1, <2>2, <1>3
<1>11. ChainCodes(longer) = {}
  BY <1>4, <1>10, SoundChain
<1> QED
  BY <1>3, <1>4, <1>11 DEF longer

\* The hash of the last event decides a sound ledger.
LEMMA TerminalHashDecides ==
    ASSUME NEW k, NEW l, IsLedger(k), IsLedger(l), ChainCodes(k) = {}, ChainCodes(l) = {},
           TerminalHash(k) = TerminalHash(l)
    PROVE  k = l
<1>t. /\ Len(k) \in Nat /\ DOMAIN k = 1..Len(k) /\ (Len(k) = 0 => k = <<>>)
      /\ Len(l) \in Nat /\ DOMAIN l = 1..Len(l) /\ (Len(l) = 0 => l = <<>>)
  BY DEF IsLedger
<1>k. \A n \in DOMAIN k : k[n].event_hash = EventHash(k[n])
  BY SoundChain
<1>l. \A n \in DOMAIN l : l[n].event_hash = EventHash(l[n])
  BY SoundChain
<1>1. /\ TerminalHash(k) = IF Len(k) = 0 THEN GENESIS_PREVIOUS_EVENT_HASH ELSE k[Len(k)].event_hash
      /\ TerminalHash(l) = IF Len(l) = 0 THEN GENESIS_PREVIOUS_EVENT_HASH ELSE l[Len(l)].event_hash
  BY <1>t DEF TerminalHash, HashBefore
<1>2. CASE Len(k) = 0 \/ Len(l) = 0
  <2>1. Len(k) # 0 => Len(k) \in DOMAIN k
    BY <1>t
  <2>2. Len(l) # 0 => Len(l) \in DOMAIN l
    BY <1>t
  <2>3. Len(k) = 0 /\ Len(l) = 0
    BY <1>1, <1>2, <1>k, <1>l, <2>1, <2>2, GenesisIsNoHash
  <2> QED
    BY <2>3, <1>t
<1>3. CASE Len(k) # 0 /\ Len(l) # 0
  <2>1. Len(k) \in DOMAIN k /\ Len(l) \in DOMAIN l
    BY <1>3, <1>t
  <2>2. k[Len(k)].event_hash = l[Len(l)].event_hash
    BY <1>1, <1>3
  <2>3. Len(k) = Len(l) /\ \A x \in 1..Len(k) : k[x] = l[x]
    BY <2>1, <2>2, ChainsAgree
  <2> QED
    BY <2>3 DEF IsLedger
<1> QED
  BY <1>2, <1>3

\* The empty list is a ledger, and a sound one.
LEMMA EmptyLedger == IsLedger(<<>>) /\ ChainCodes(<<>>) = {}
<1>1. IsLedger(<<>>)
  <2> DEFINE S == {}
  <2>1. <<>> \in Seq(S)
    OBVIOUS
  <2>2. \A e \in S : IsEvent(e)
    OBVIOUS
  <2> HIDE DEF S
  <2> QED
    BY <2>1, <2>2, Zenon DEF IsLedger
<1> QED
  BY <1>1, SoundChain

\* Cutting, and putting an event in the place of another, leaves a ledger.
LEMMA AlteredLedgers ==
    ASSUME NEW ledger, IsLedger(ledger)
    PROVE  /\ \A n \in 0..(Len(ledger) - 1) : IsLedger(SubSeq(ledger, 1, n))
           /\ \A i \in DOMAIN ledger : \A e : IsEvent(e) => IsLedger([ledger EXCEPT ![i] = e])
<1>1. PICK S : ledger \in Seq(S) /\ \A e \in S : IsEvent(e)
  BY DEF IsLedger
<1>2. ASSUME NEW n \in 0..(Len(ledger) - 1) PROVE IsLedger(SubSeq(ledger, 1, n))
  <2>1. SubSeq(ledger, 1, n) \in Seq(S)
    BY <1>1
  <2> QED
    BY <1>1, <2>1 DEF IsLedger
<1>3. ASSUME NEW i \in DOMAIN ledger, NEW e, IsEvent(e) PROVE IsLedger([ledger EXCEPT ![i] = e])
  <2>1. [ledger EXCEPT ![i] = e] \in Seq(S \cup {e})
    BY <1>1
  <2> QED
    BY <1>1, <1>3, <2>1 DEF IsLedger
<1> QED
  BY <1>2, <1>3

\* A ledger cut back is as sound as it was.
LEMMA CutKeepsSound ==
    ASSUME NEW ledger, IsLedger(ledger), ChainCodes(ledger) = {},
           NEW n \in 0..(Len(ledger) - 1)
    PROVE  ChainCodes(SubSeq(ledger, 1, n)) = {}
<1> DEFINE cut == SubSeq(ledger, 1, n)
<1>1. IsLedger(cut)
  BY AlteredLedgers
<1>2. /\ DOMAIN cut = 1..n /\ \A i \in 1..n : cut[i] = ledger[i] /\ i \in DOMAIN ledger
      /\ \A i \in 1..n : i \in Nat
  BY DEF IsLedger
<1>3. ASSUME NEW i \in DOMAIN cut
      PROVE  /\ HashBefore(cut, i) = HashBefore(ledger, i)
             /\ \A j \in 1..(i - 1) : cut[j] = ledger[j]
  <2> HIDE DEF cut
  <2> QED
    BY <1>2 DEF HashBefore
<1> QED
  <2> HIDE DEF cut
  <2>1. ChainCodes(cut) = {}
    BY <1>1, <1>2, <1>3, SoundChain
  <2> QED
    BY <2>1 DEF cut
=============================================================================
