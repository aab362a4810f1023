SPECIFICATION Spec
INVARIANTS CurvesHaveOneShape CavitiesAreCurved
PROPERTIES CodesAreHandedOn
CHECK_DEADLOCK FALSE
