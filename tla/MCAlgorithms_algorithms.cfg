CONSTANTS
    Parties = {"a", "b", "c"}
    Organizations = {"c"}
    Retirable = {"b"}
    MaxCandidates = 3
    MaxFields = 1
    BlockLength = 4
    Digits = {"1", "8"}
    CountryPrefix <- OneDigit
    MobileLength = 2
    CardDigits = 2
    Floor = 2
    Longest = 4
    Slack = 1
    Denylists <- ShortNumbers
    MaxText = 7
    MaxSymbols = 3
    MaxEdits = 1
SPECIFICATION Spec
INVARIANTS
    OrderIrrelevant
    ScanIsExact
    RoundTrip
    OnlyPseudonymsRestored
PROPERTIES
    NoLinkByCompetition
CHECK_DEADLOCK FALSE
