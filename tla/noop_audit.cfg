CONSTANTS
    Payloads <- MCPayloads
    MaxAlterations = 1
SPECIFICATION Spec
INVARIANT RederivedAndVerified
CHECK_DEADLOCK FALSE
