CONSTANTS
    Clients = {c1}
    RefClients = {q1}
    Repos = {r1}
    Tags = {}
    b1 = b1
    b2 = b2
    Bodies = {b1, b2}
    Nil = Nil
    IsJson <- MCIsJson
    Entries <- MCEntries
    Subject <- MCSubject
    HasBlobs <- MCHasBlobs
    CanPut = TRUE
SPECIFICATION RSpec
INVARIANT ReferrersComplete
