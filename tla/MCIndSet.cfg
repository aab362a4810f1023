CONSTANTS
    Rank <- MCRank
    Ent <- MCEnt
    Elem <- MCElem
    Up <- MCUp
    Owner <- MCOwner
    ElemsOn <- MCElemsOn
    Qualities = {0, 1}
SPECIFICATION FairSpec
INVARIANTS
    SelectedAreIndependent
    ResultIsGreedy
    CopiesAgree
PROPERTIES
    ImplementsGreedy
    EventuallyStopped
CHECK_DEADLOCK FALSE
