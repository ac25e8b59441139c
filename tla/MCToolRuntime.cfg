CONSTANTS
    empty = empty
    document = document
    typo = typo
    longTypo = longTypo
    Inputs <- MCInputs
    Convertible = {empty, document}
    InputLength <- MCInputLength
    OutputLength <- MCOutputLength
    ErrorLength <- MCErrorLength
    MemoryLimit = 64
    MaxCalls = 4
    Null = Null
SPECIFICATION Spec
INVARIANTS
    TypeOK
    InputFreed
    OnlyOutputsStay
    ErrorIsOfThisCall
    LockedNeverAnswers
CHECK_DEADLOCK FALSE
