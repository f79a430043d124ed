SPECIFICATION Spec
CONSTANTS
    Members = {m1, m2}
    Admins = {m1}
    Limits = {1}
    Tries = 2
    MaxEvents = 4
    MaxLost = 1
INVARIANTS OrphanedOnlyByLostAnswer AccessEnforced WithinLimit
PROPERTIES AdmittedKnowsPassword
CHECK_DEADLOCK FALSE
