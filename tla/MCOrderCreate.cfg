CONSTANTS
    None = None
    c1 = c1
    c2 = c2
    c3 = c3
    c4 = c4
    k1 = k1
    k2 = k2
    x1 = x1
    Requests = {c1, c2, c3, c4}
    Keys = {k1, k2}
    KeyOf <- KeyThree
    Valid = {c1, c2, c4}
    Others = {x1}
SPECIFICATION FairSpec
INVARIANTS
    TypeOK
    CommittedWhole
    AnswersAgree
PROPERTIES
    DuplicateIsFound
    EveryCallAnswered
