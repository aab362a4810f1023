CONSTANTS
    Ranks = {r1, r2}
    NExchanges = 2
    Polled = {r2}
SPECIFICATION Spec
INVARIANTS ResultsComplete BuffersHeldWhileInUse MessagesNotMixed
PROPERTIES EveryResultArrives
