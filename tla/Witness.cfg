SPECIFICATION Spec
CONSTANTS
    Exchanges = {command, restore}
    Withheld = {command}
INVARIANTS
    RecordedOnce
    AnswerIsWitnessed
PROPERTIES
    ExecutionIsWitnessed
CHECK_DEADLOCK FALSE
