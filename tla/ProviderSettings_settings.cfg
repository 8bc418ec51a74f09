CONSTANTS
    Urls = {u1, u2}
    ValidUrls = {u1}
    Keys = {k1, k2}
    NoKey = NoKey
    Keychains = {"a", "b"}
    MaxRequests = 3
    MaxFaults = 1
    MaxChanges = 1
SPECIFICATION Spec
INVARIANTS
    LastRequestWins
    ForgottenKeyStaysAway
    NoSilentMock
CHECK_DEADLOCK FALSE
