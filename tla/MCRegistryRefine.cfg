CONSTANTS
    Clients = {c1, c2}
    Repos = {r1}
    Tags = {t1}
    b1 = b1
    b2 = b2
    b3 = b3
    Bodies = {b1, b2, b3}
    Nil = Nil
    IsJson <- MCIsJson
    Entries <- MCEntries
    Subject <- MCSubject
    HasBlobs <- MCHasBlobs
    CanPut = TRUE
SYMMETRY MCSymmetry
SPECIFICATION Spec
PROPERTIES
    AbstractSpec
