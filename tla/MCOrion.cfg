CONSTANTS
    Keywords = {k1, k2}
    Docs = {d1, d2}
    Duplicates = FALSE
SPECIFICATION Spec
INVARIANTS ListsConsistent
PROPERTIES ImplementsIndex
