SPECIFICATION Spec
CONSTANTS
    Initializers = {p1, p2}
    MaxFaults = 0
SYMMETRY Interchangeable
PROPERTIES
    KnowledgeKept
