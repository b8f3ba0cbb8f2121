\* Three concurrent calls, up to five audited changes: two approvals and an end.
SPECIFICATION Spec
CONSTANTS
    c1 = c1
    c2 = c2
    c3 = c3
    None = None
    Callers <- MCCallers
    MaxAudit = 5
SYMMETRY Symmetry
INVARIANTS
    AckedEndIsTheEnd
    TimesMatch
    AuditPath
PROPERTIES
    ImplementsLifecycle
