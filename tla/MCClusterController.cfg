SPECIFICATION Spec
CONSTANTS
    MessageType = {t1, t2}
    Schema = {t1}
    Call = {k1, k2}
    MaxRegistrations = 3
INVARIANTS
    TypeOK
    CheckedOrReplaced
