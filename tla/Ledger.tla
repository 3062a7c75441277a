------------------------------- MODULE Ledger -------------------------------
(***************************************************************************)
(* Ledgers as they are kept: append_event returns a new list and stores     *)
(* nothing, so every holder has a copy of its own, copies are passed on,    *)
(* and what lies outside the program may be cut, edited or mixed before it  *)
(* comes back to append_event or validate_ledger_chain.                     *)
(***************************************************************************)
EXTENDS LedgerChain, FiniteSets

CONSTANTS
    Holders,         \* who keep a copy
    EventIds,
    EventContents,   \* what an event says, well-formed or not
    MaxEvents,       \* bound on the length of a ledger
    MaxAppended,     \* bound on what append_event returns
    MaxAlterations   \* bound on the changes made outside the program

ASSUME LedgerAssumption == {MaxEvents, MaxAppended, MaxAlterations} \subseteq Nat

VARIABLES
    copies,       \* holder -> its ledger
    appended,     \* what append_event has returned: ledgers with their receipts
    alterations   \* how often a copy was changed outside the program

vars == <<copies, appended, alterations>>

Init ==
    /\ copies = [h \in Holders |-> <<>>]
    /\ appended = {}
    /\ alterations = 0

Event(id, previous, content) ==
    [event_id |-> id, previous_event_hash |-> previous, event_type |-> content.event_type,
     task_id |-> content.task_id, descriptor_hash |-> content.descriptor_hash,
     receipts |-> content.receipts, others |-> content.others,
     event_hash |-> content.event_hash]

Heads    == {TerminalHash(copies[h]) : h \in Holders}
Recorded == UNION {{copies[h][i] : i \in DOMAIN copies[h]} : h \in Holders}

\* The head the caller puts into the event may be that of another copy, or an
\* old one.  A refused event leaves the copy as it is.
AppendEvent(h) ==
    /\ Len(copies[h]) < MaxEvents /\ Cardinality(appended) < MaxAppended
    /\ \E id \in EventIds, previous \in Heads \cup {None}, content \in EventContents :
          LET event  == Event(id, previous, content)
              ledger == Appended(copies[h], event)
          IN  /\ AppendAccepted(copies[h], event)
              /\ copies' = [copies EXCEPT ![h] = ledger]
              /\ appended' = appended \cup {[ledger |-> ledger, receipt |-> AppendReceipt(ledger)]}
    /\ UNCHANGED alterations

PassOn(h, g) ==
    /\ copies' = [copies EXCEPT ![g] = copies[h]]
    /\ UNCHANGED <<appended, alterations>>

Altered(h, ledger) ==
    /\ alterations < MaxAlterations
    /\ alterations' = alterations + 1
    /\ copies' = [copies EXCEPT ![h] = ledger]
    /\ UNCHANGED appended

Truncate(h) == \E n \in 0..(Len(copies[h]) - 1) : Altered(h, SubSeq(copies[h], 1, n))

\* An event is edited, and its hash too or not.
EditEvent(h) ==
    \E i \in DOMAIN copies[h], content \in EventContents, rehash \in BOOLEAN :
        LET old   == copies[h][i]
            event == Event(old.event_id, old.previous_event_hash, content)
        IN  Altered(h, [copies[h] EXCEPT ![i] =
                [event EXCEPT !.event_hash = IF rehash THEN EventHash(event) ELSE old.event_hash]])

\* An event of any copy is put in the place of another.
ReplaceEvent(h) ==
    \E i \in DOMAIN copies[h], event \in Recorded : Altered(h, [copies[h] EXCEPT ![i] = event])

Next ==
    \E h \in Holders :
        \/ AppendEvent(h) \/ Truncate(h) \/ EditEvent(h) \/ ReplaceEvent(h)
        \/ \E g \in Holders : PassOn(h, g)

Spec == Init /\ [][Next]_vars

-----------------------------------------------------------------------------
(* Properties                                                              *)

\* A copy of the ledger holds known events, and no more than the bound.
TypeOK ==
    /\ DOMAIN copies = Holders
    /\ \A h \in Holders : Len(copies[h]) <= MaxEvents
                          /\ \A i \in DOMAIN copies[h] : copies[h][i].event_id \in EventIds
    /\ alterations \in 0..MaxAlterations

Anchors(receipt) ==
    [count |-> receipt.body.event_index + 1, chain_hash |-> receipt.body.ledger_chain_hash,
     terminal |-> receipt.body.event.event_hash]

\* Whatever happened to a copy before an event was appended to it, what
\* append_event returns is a ledger that validate_ledger_chain accepts, with the
\* count, the chain hash and the terminal hash of the append receipt.
AppendedLedgersValidate ==
    \A a \in appended : /\ VerifyLedgerAppendReceipt(a.receipt)
                        /\ ValidateLedgerChain(a.ledger, Anchors(a.receipt)) = {}

\* One hash kept apart is enough: a copy that validate_ledger_chain accepts
\* with the chain hash of a receipt, or with its terminal hash alone, is the
\* ledger that append_event returned with that receipt, event for event,
\* whatever was cut, edited or mixed since.
AnchoredLedgerIsTheAppended ==
    \A a \in appended, h \in Holders :
        (\E anchor \in {[chain_hash |-> Anchors(a.receipt).chain_hash],
                        [terminal |-> Anchors(a.receipt).terminal]} :
            ValidateLedgerChain(copies[h], anchor) = {})
        => copies[h] = a.ledger

\* The i-th event of k and the j-th of l have the same place and everything
\* up to them in common.
SameHistory(k, i, l, j) == i = j /\ SubSeq(k, 1, i) = SubSeq(l, 1, j)

\* Without any kept hash: copies that validate and have an event hash in common
\* agree on that event, its place and everything before it, so ledgers that
\* forked from a stale head never meet again.
SharedEventSharedHistory ==
    \A h, g \in Holders :
        ChainCodes(copies[h]) = {} /\ ChainCodes(copies[g]) = {} =>
        \A i \in DOMAIN copies[h], j \in DOMAIN copies[g] :
            copies[h][i].event_hash = copies[g][j].event_hash
            => SameHistory(copies[h], i, copies[g], j)
=============================================================================
