SPECIFICATION Spec
CONSTANTS
    m1 = m1
    m2 = m2
    m3 = m3
    Messages <- MCMessages
    MaxDelay = 5
INVARIANTS
    TypeOK
    ShorterDelayFirst
    NeverVeryLate
PROPERTY
    EarlyByTicksCounted
