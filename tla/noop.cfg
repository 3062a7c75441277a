CONSTANTS
    Payloads <- MCPayloads
    MaxAlterations = 2
SPECIFICATION Spec
INVARIANTS TypeOK DryRunAgreesWithAdmission AuditSeesWhatWasBound ForbiddenEffectsNamed
PROPERTY AuditedLedgersPassMatrix
CHECK_DEADLOCK FALSE
