SPECIFICATION Spec
CONSTANTS
    s1 = s1
    s2 = s2
    s3 = s3
    g1 = g1
    g2 = g2
    g3 = g3
    g4 = g4
    none = none
    Slots = {s1, s2, s3}
    Guids = {g1, g2, g3, g4}
    Matrices = {0, 1, 2, 3}
    Transforms = {0, 1}
    Clean = {0, 1}
    Identity = 0
    Compose <- Sum
    Inverse <- Negative
    Decomposed <- Unsheared
    Origin <- Unsheared
    Null = none
VIEW WithoutPrevious
SYMMETRY Symmetry
INVARIANTS
    HierarchyConsistent
    Acyclic
    RegistryConsistent
PROPERTIES
    PropagationSettles
    KeepWorldKeeps
    CloneIsFaithful
