CONSTANTS
    Ranks = {r1, r2}
    NExchanges = 1
    Polled = {}
SPECIFICATION Spec
INVARIANTS ResultsAreTheMessages
