---------------------------- MODULE LedgerProofs ----------------------------
(***************************************************************************)
(* Theorems about Ledger, for any holders, events and bounds, and ledgers  *)
(* of any length.                                                          *)
(***************************************************************************)
EXTENDS Ledger, SharedLemmas

\* Every copy is a list of events, and so is what append_event has returned,
\* which is sound and has the receipt of its last event.
LedgersInv ==
    /\ copies = [h \in Holders |-> copies[h]]
    /\ \A h \in Holders : IsLedger(copies[h])
    /\ \A a \in appended : /\ IsLedger(a.ledger)
                           /\ a.ledger # <<>>
                           /\ ChainCodes(a.ledger) = {}
                           /\ a.receipt = AppendReceipt(a.ledger)

\* Empty copies, and nothing appended.
LEMMA LedgersInit == Init => LedgersInv
<1> SUFFICES ASSUME Init PROVE LedgersInv
  OBVIOUS
<1> QED
  BY EmptyLedger DEF Init, LedgersInv

\* What a change of one copy needs.
LEMMA OneCopy ==
    ASSUME LedgersInv, NEW h \in Holders, NEW ledger, IsLedger(ledger),
           copies' = [copies EXCEPT ![h] = ledger], UNCHANGED appended
    PROVE  LedgersInv'
BY DEF LedgersInv

\* Every step keeps LedgersInv.
LEMMA LedgersStep == LedgersInv /\ [Next]_vars => LedgersInv'
<1> SUFFICES ASSUME LedgersInv, [Next]_vars PROVE LedgersInv'
  OBVIOUS
<1>1. ASSUME NEW h \in Holders, AppendEvent(h) PROVE LedgersInv'
  <2>1. PICK id \in EventIds, previous \in Heads \cup {None}, content \in EventContents :
            LET event  == Event(id, previous, content)
                ledger == Appended(copies[h], event)
            IN  /\ AppendAccepted(copies[h], event)
                /\ copies' = [copies EXCEPT ![h] = ledger]
                /\ appended' = appended \cup
                                 {[ledger |-> ledger, receipt |-> AppendReceipt(ledger)]}
    BY <1>1 DEF AppendEvent
  <2> DEFINE event  == Event(id, previous, content)
             ledger == Appended(copies[h], event)
             entry  == [ledger |-> ledger, receipt |-> AppendReceipt(ledger)]
  <2>2. IsEvent(event)
    BY DEF IsEvent, Event
  <2>3. /\ AppendAccepted(copies[h], event)
        /\ copies' = [copies EXCEPT ![h] = ledger]
        /\ appended' = appended \cup {entry}
    BY <2>1
  <2>4. entry.ledger = ledger /\ entry.receipt = AppendReceipt(ledger)
    OBVIOUS
  <2> HIDE DEF event, entry
  <2>5. IsLedger(copies[h]) /\ Len(copies[h]) \in Nat
    BY DEF LedgersInv, IsLedger
  <2>6. IsLedger(ledger) /\ ChainCodes(ledger) = {} /\ Len(ledger) = Len(copies[h]) + 1
    BY <2>2, <2>3, <2>5, AppendKeepsSound
  <2>7. ledger # <<>>
    BY <2>5, <2>6
  <2> HIDE DEF ledger
  <2> QED
    BY <2>3, <2>4, <2>6, <2>7 DEF LedgersInv
<1>2. ASSUME NEW h \in Holders, NEW g \in Holders, PassOn(h, g) PROVE LedgersInv'
  <2>1. IsLedger(copies[h])
    BY DEF LedgersInv
  <2> QED
    BY <1>2, <2>1, OneCopy DEF PassOn
<1>3. ASSUME NEW h \in Holders, Truncate(h) PROVE LedgersInv'
  <2>1. IsLedger(copies[h])
    BY DEF LedgersInv
  <2>2. PICK n \in 0..(Len(copies[h]) - 1) : Altered(h, SubSeq(copies[h], 1, n))
    BY <1>3 DEF Truncate
  <2> QED
    BY <2>1, <2>2, AlteredLedgers, OneCopy DEF Altered
<1>4. ASSUME NEW h \in Holders, EditEvent(h) PROVE LedgersInv'
  <2>1. IsLedger(copies[h])
    BY DEF LedgersInv
  <2>2. PICK i \in DOMAIN copies[h], content \in EventContents, rehash \in BOOLEAN :
            LET old   == copies[h][i]
                event == Event(old.event_id, old.previous_event_hash, content)
            IN  Altered(h, [copies[h] EXCEPT ![i] =
                    [event EXCEPT !.event_hash =
                        IF rehash THEN EventHash(event) ELSE old.event_hash]])
    BY <1>4 DEF EditEvent
  <2> DEFINE old    == copies[h][i]
             event  == Event(old.event_id, old.previous_event_hash, content)
             hash   == IF rehash THEN EventHash(event) ELSE old.event_hash
             edited == [event EXCEPT !.event_hash = hash]
  <2>3. Altered(h, [copies[h] EXCEPT ![i] = edited])
    BY <2>2
  <2>4. IsEvent(edited)
    <3> HIDE DEF old, hash
    <3> QED
      BY DEF IsEvent, Event
  <2> HIDE DEF edited
  <2>5. IsLedger([copies[h] EXCEPT ![i] = edited])
    BY <2>1, <2>4, AlteredLedgers
  <2> QED
    BY <2>3, <2>5, OneCopy DEF Altered
<1>5. ASSUME NEW h \in Holders, ReplaceEvent(h) PROVE LedgersInv'
  <2>1. \A g \in Holders : IsLedger(copies[g])
    BY DEF LedgersInv
  <2>2. PICK i \in DOMAIN copies[h], event \in Recorded :
            Altered(h, [copies[h] EXCEPT ![i] = event])
    BY <1>5 DEF ReplaceEvent
  <2>3. PICK g \in Holders : \E j \in DOMAIN copies[g] : event = copies[g][j]
    BY <2>2 DEF Recorded
  <2>4. IsEvent(event)
    BY <2>1, <2>3 DEF IsLedger
  <2>5. IsLedger([copies[h] EXCEPT ![i] = event])
    BY <2>1, <2>4, AlteredLedgers
  <2> QED
    BY <2>2, <2>5, OneCopy DEF Altered
<1>6. CASE UNCHANGED vars
  BY <1>6 DEF vars, LedgersInv
<1> QED
  BY <1>1, <1>2, <1>3, <1>4, <1>5, <1>6 DEF Next

\* LedgersInv holds in every state.
THEOREM LedgersAreEvents == Spec => []LedgersInv
BY LedgersInit, LedgersStep, PTL DEF Spec

-----------------------------------------------------------------------------
(* The theorems.                                                           *)

\* Every copy keeps within the bound and holds known events: append_event
\* lengthens a copy by one event, and what happens outside the program only
\* moves and edits events that were appended.
THEOREM TypeCorrect == Spec => []TypeOK
<1>1. Init => TypeOK
  BY LedgerAssumption DEF Init, TypeOK
<1>2. LedgersInv /\ TypeOK /\ [Next]_vars => TypeOK'
  <2> SUFFICES ASSUME LedgersInv, TypeOK, [Next]_vars PROVE TypeOK'
    OBVIOUS
  <2> DEFINE Fits(ledger) == /\ Len(ledger) <= MaxEvents
                             /\ \A i \in DOMAIN ledger : ledger[i].event_id \in EventIds
  <2>t. \A h \in Holders : /\ IsLedger(copies[h]) /\ Fits(copies[h])
                           /\ Len(copies[h]) \in Nat /\ DOMAIN copies[h] = 1..Len(copies[h])
    BY DEF LedgersInv, TypeOK, IsLedger
  <2>n. MaxEvents \in Nat /\ MaxAlterations \in Nat
    BY LedgerAssumption
  <2>o. ASSUME NEW h \in Holders, NEW ledger, Fits(ledger),
               copies' = [copies EXCEPT ![h] = ledger],
               \/ UNCHANGED alterations
               \/ alterations < MaxAlterations /\ alterations' = alterations + 1
        PROVE  TypeOK'
    <3>1. DOMAIN copies' = Holders /\ \A g \in Holders : Fits(copies'[g])
      <4> HIDE DEF Fits
      <4> QED
        BY <2>o, <2>t DEF TypeOK
    <3>2. alterations' \in 0..MaxAlterations
      BY <2>o, <2>n DEF TypeOK
    <3> QED
      BY <3>1, <3>2 DEF TypeOK
  <2>1. ASSUME NEW h \in Holders, AppendEvent(h) PROVE TypeOK'
    <3>1. PICK id \in EventIds, previous \in Heads \cup {None}, content \in EventContents :
              copies' = [copies EXCEPT ![h] = Appended(copies[h], Event(id, previous, content))]
      BY <2>1 DEF AppendEvent
    <3> DEFINE event == Event(id, previous, content)
               made  == [event EXCEPT !.event_hash = EventHash(event)]
    <3>2. made.event_id = id
      BY DEF Event
    <3> HIDE DEF made
    <3>3. Fits(Append(copies[h], made))
      <4>1. PICK S : copies[h] \in Seq(S)
        BY <2>t DEF IsLedger
      <4>2. /\ Len(Append(copies[h], made)) = Len(copies[h]) + 1
            /\ \A i \in 1..(Len(copies[h]) + 1) :
                  Append(copies[h], made)[i] = IF i <= Len(copies[h]) THEN copies[h][i] ELSE made
            /\ DOMAIN Append(copies[h], made) = 1..(Len(copies[h]) + 1)
        BY <4>1
      <4> QED
        BY <4>2, <3>2, <2>t, <2>n, <2>1 DEF AppendEvent
    <3>4. Appended(copies[h], event) = Append(copies[h], made)
      BY DEF Appended, made
    <3> QED
      BY <3>1, <3>3, <3>4, <2>o, <2>1 DEF AppendEvent
  <2>2. ASSUME NEW h \in Holders, NEW g \in Holders, PassOn(h, g) PROVE TypeOK'
    BY <2>2, <2>t, <2>o DEF PassOn
  <2>3. ASSUME NEW h \in Holders, Truncate(h) PROVE TypeOK'
    <3>1. PICK n \in 0..(Len(copies[h]) - 1) : Altered(h, SubSeq(copies[h], 1, n))
      BY <2>3 DEF Truncate
    <3>2. Fits(SubSeq(copies[h], 1, n))
      <4>1. PICK S : copies[h] \in Seq(S)
        BY <2>t DEF IsLedger
      <4>2. /\ Len(SubSeq(copies[h], 1, n)) = n
            /\ DOMAIN SubSeq(copies[h], 1, n) = 1..n
            /\ \A i \in 1..n : SubSeq(copies[h], 1, n)[i] = copies[h][i]
        BY <4>1, <2>t
      <4> QED
        BY <4>2, <2>t, <2>n
    <3> QED
      BY <3>1, <3>2, <2>o DEF Altered
  <2>4. ASSUME NEW h \in Holders, NEW i \in DOMAIN copies[h], NEW e, e.event_id \in EventIds,
               Altered(h, [copies[h] EXCEPT ![i] = e])
        PROVE  TypeOK'
    <3>1. PICK S : copies[h] \in Seq(S)
      BY <2>t DEF IsLedger
    <3>2. /\ Len([copies[h] EXCEPT ![i] = e]) = Len(copies[h])
          /\ DOMAIN [copies[h] EXCEPT ![i] = e] = DOMAIN copies[h]
          /\ \A j \in DOMAIN copies[h] :
                [copies[h] EXCEPT ![i] = e][j] = IF j = i THEN e ELSE copies[h][j]
      BY <3>1
    <3>3. Fits([copies[h] EXCEPT ![i] = e])
      BY <3>2, <2>t, <2>4
    <3> QED
      BY <2>4, <3>3, <2>o DEF Altered
  <2>5. ASSUME NEW h \in Holders, EditEvent(h) PROVE TypeOK'
    <3>1. PICK i \in DOMAIN copies[h], content \in EventContents, rehash \in BOOLEAN :
              LET old   == copies[h][i]
                  event == Event(old.event_id, old.previous_event_hash, content)
              IN  Altered(h, [copies[h] EXCEPT ![i] =
                      [event EXCEPT !.event_hash =
                          IF rehash THEN EventHash(event) ELSE old.event_hash]])
      BY <2>5 DEF EditEvent
    <3> DEFINE old    == copies[h][i]
               event  == Event(old.event_id, old.previous_event_hash, content)
               hash   == IF rehash THEN EventHash(event) ELSE old.event_hash
               edited == [event EXCEPT !.event_hash = hash]
    <3>2. edited.event_id = old.event_id /\ old.event_id \in EventIds
      BY <2>t DEF Event
    <3>3. Altered(h, [copies[h] EXCEPT ![i] = edited])
      BY <3>1
    <3> HIDE DEF edited, old
    <3> QED
      BY <3>2, <3>3, <2>4
  <2>6. ASSUME NEW h \in Holders, ReplaceEvent(h) PROVE TypeOK'
    BY <2>6, <2>4, <2>t DEF ReplaceEvent, Recorded
  <2>7. CASE UNCHANGED vars
    BY <2>7 DEF vars, TypeOK
  <2> QED
    BY <2>1, <2>2, <2>3, <2>5, <2>6, <2>7 DEF Next
<1> QED
  BY <1>1, <1>2, LedgersAreEvents, PTL DEF Spec

\* Whatever was done to a copy before, what append_event returns validates
\* with every anchor of its own receipt, and the receipt verifies.
THEOREM AppendedLedgersValidateHolds == Spec => []AppendedLedgersValidate
<1>1. LedgersInv => AppendedLedgersValidate
  <2> SUFFICES ASSUME LedgersInv, NEW a \in appended
               PROVE  /\ VerifyLedgerAppendReceipt(a.receipt)
                      /\ ValidateLedgerChain(a.ledger, Anchors(a.receipt)) = {}
    BY DEF AppendedLedgersValidate
  <2>1. /\ IsLedger(a.ledger) /\ a.ledger # <<>> /\ ChainCodes(a.ledger) = {}
        /\ a.receipt = AppendReceipt(a.ledger)
    BY DEF LedgersInv
  <2>2. Len(a.ledger) \in Nat /\ Len(a.ledger) >= 1
    BY <2>1 DEF IsLedger
  <2>3. /\ Anchors(a.receipt).count = Len(a.ledger)
        /\ Anchors(a.receipt).chain_hash = LedgerChainHash(a.ledger)
        /\ Anchors(a.receipt).terminal = TerminalHash(a.ledger)
    BY <2>1, <2>2 DEF Anchors, AppendReceipt, TerminalHash, HashBefore
  <2>4. VerifyLedgerAppendReceipt(a.receipt)
    BY <2>1 DEF VerifyLedgerAppendReceipt, AppendReceipt
  <2> QED
    BY <2>1, <2>3, <2>4 DEF ValidateLedgerChain, Unexpected, Code
<1> QED
  BY <1>1, LedgersAreEvents, PTL

\* One kept hash decides the ledger: the terminal hash through the chain of
\* links behind it, the chain hash through the event hashes it is made of.
THEOREM AnchoredLedgerIsTheAppendedHolds == Spec => []AnchoredLedgerIsTheAppended
<1>1. LedgersInv => AnchoredLedgerIsTheAppended
  <2> SUFFICES ASSUME LedgersInv, NEW a \in appended, NEW h \in Holders,
                      NEW anchor \in {[chain_hash |-> Anchors(a.receipt).chain_hash],
                                      [terminal |-> Anchors(a.receipt).terminal]},
                      ValidateLedgerChain(copies[h], anchor) = {}
               PROVE  copies[h] = a.ledger
    BY DEF AnchoredLedgerIsTheAppended
  <2> DEFINE k == copies[h]
             l == a.ledger
  <2>1. /\ IsLedger(l) /\ l # <<>> /\ ChainCodes(l) = {}
        /\ a.receipt = AppendReceipt(l)
        /\ IsLedger(k)
    BY DEF LedgersInv
  <2>2. /\ Len(l) \in Nat /\ Len(l) >= 1 /\ DOMAIN l = 1..Len(l)
        /\ Len(k) \in Nat /\ DOMAIN k = 1..Len(k) /\ (Len(k) = 0 => k = <<>>)
    BY <2>1 DEF IsLedger
  <2>3. ChainCodes(k) = {} /\ Unexpected(k, anchor) = {}
    BY DEF ValidateLedgerChain
  <2>4. /\ Anchors(a.receipt).chain_hash = LedgerChainHash(l)
        /\ Anchors(a.receipt).terminal = l[Len(l)].event_hash
    BY <2>1, <2>2 DEF Anchors, AppendReceipt
  <2>5. SUFFICES TerminalHash(k) = TerminalHash(l)
    BY <2>1, <2>3, TerminalHashDecides
  <2>6. CASE anchor = [terminal |-> Anchors(a.receipt).terminal]
    BY <2>2, <2>3, <2>4, <2>6 DEF Unexpected, Code, TerminalHash, HashBefore
  <2>7. CASE anchor = [chain_hash |-> Anchors(a.receipt).chain_hash]
    <3>1. LedgerChainHash(k) = LedgerChainHash(l)
      BY <2>3, <2>4, <2>7 DEF Unexpected, Code
    <3> DEFINE hk == [i \in DOMAIN k |-> k[i].event_hash]
               hl == [i \in DOMAIN l |-> l[i].event_hash]
    <3>2. hk = hl
      BY <3>1 DEF LedgerChainHash, Hash
    <3>3. DOMAIN hk = DOMAIN k /\ DOMAIN hl = DOMAIN l
      OBVIOUS
    <3>4. DOMAIN k = DOMAIN l
      BY <3>2, <3>3
    <3>5. Len(l) \in DOMAIN k
      BY <3>4, <2>2
    <3>6. Len(k) = Len(l)
      <4>1. Len(k) \in DOMAIN l
        BY <3>4, <3>5, <2>2
      <4> QED
        BY <4>1, <3>5, <2>2
    <3>7. hk[Len(l)] = k[Len(l)].event_hash /\ hl[Len(l)] = l[Len(l)].event_hash
      BY <3>4, <3>5
    <3> QED
      BY <3>2, <3>6, <3>7, <2>2 DEF TerminalHash, HashBefore
  <2> QED
    BY <2>6, <2>7
<1> QED
  BY <1>1, LedgersAreEvents, PTL

\* Without a kept hash: two copies that validate share the whole history of
\* every event hash they share.
THEOREM SharedEventSharedHistoryHolds == Spec => []SharedEventSharedHistory
<1>1. LedgersInv => SharedEventSharedHistory
  <2> SUFFICES ASSUME NEW k, NEW l, IsLedger(k), IsLedger(l),
                      ChainCodes(k) = {}, ChainCodes(l) = {},
                      NEW i \in DOMAIN k, NEW j \in DOMAIN l, k[i].event_hash = l[j].event_hash
               PROVE  SameHistory(k, i, l, j)
    BY DEF LedgersInv, SharedEventSharedHistory
  <2> QED
    BY ChainsAgree DEF IsLedger, SameHistory
<1> QED
  BY <1>1, LedgersAreEvents, PTL
=============================================================================
