SPECIFICATION Spec
CONSTANTS
    MaxEvents = 2
    MaxRecords = 5
    Limit = 2
INVARIANTS TypeOK DamageIsLocal AnswersRecover
