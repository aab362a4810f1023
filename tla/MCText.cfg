CONSTANTS
    Starts = {"doc", "map_scalar"}
    LeafTexts <- TextLeaves
    PlainChars = {"x", "y"}
    MaxItems = 3
    MaxChars = 5
    Blocks <- SomeBlocks
SPECIFICATION Spec
INVARIANTS LanguagesAreRead InputsAreRead
PROPERTIES ReadersEnd
CHECK_DEADLOCK FALSE
