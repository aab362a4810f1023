CONSTANTS
    Dim = 2
    Nents = 3
    MaxVersion = 4
    MaxOrder = 3
SPECIFICATION MeshSpec
INVARIANTS MeshStaysAMesh KeptDataStayTrue MeasuresFresh ChildrenMirrorParents
PROPERTIES AdaptsAndEnds
CHECK_DEADLOCK FALSE
