SPECIFICATION Spec
CONSTANTS
    Resources = {"r1"}
    Groups = {"g1", "g2"}
INVARIANT OneSessionPerResource
CHECK_DEADLOCK FALSE
