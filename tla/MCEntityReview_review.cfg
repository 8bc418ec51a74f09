CONSTANTS
    Null = Null
    d1 = d1
    d2 = d2
    a = a
    b = b
    c = c
    x = x
    k = k
    l = l
    m = m
    n = n
    w = w
    Li = Li
    Wu = Wu
    Phone = Phone
    Card = Card
    Pass = Pass
    Party = Party
    Quoted = Quoted
    Documents = {d1, d2}
    Slots = {a, c, k, l, n, x}
    Texts = {Party}
    Malformed = {Quoted}
    MaxEdits = 3
    Info <- SomeSpans
    Ties <- FieldsOfLi
    Entities <- FourEntities
SPECIFICATION Spec
INVARIANTS
    RulesFollow
    NoGhosts
    ConfirmationBinds
    LinkForAssigned
    ArtifactMatches
    OnlyDetectionBlocks

    
CHECK_DEADLOCK FALSE
