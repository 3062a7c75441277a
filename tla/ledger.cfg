CONSTANTS
    Holders = {h1, h2}
    EventIds = {e1, e2, e3}
    EventContents <- MCEventContents
    MaxEvents = 3
    MaxAppended = 3
    MaxAlterations = 2
SPECIFICATION Spec
SYMMETRY MCSymmetry
INVARIANTS TypeOK AppendedLedgersValidate AnchoredLedgerIsTheAppended SharedEventSharedHistory
