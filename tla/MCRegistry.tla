----------------------------- MODULE MCRegistry -----------------------------
(***************************************************************************)
(* A small instance of Registry for TLC: two concurrent clients, one or    *)
(* one repository, one tag and three manifest bodies:                    *)
(*   b1  an image manifest;                                                *)
(*   b2  an index listing b1 as an image and b3 as a layer blob;           *)
(*   b3  a body that is no JSON object.                                    *)
(***************************************************************************)
EXTENDS Registry, TLC

CONSTANTS b1, b2, b3

MCIsJson == [b \in Bodies |-> b # b3]

MCEntries == [b \in Bodies |-> IF b = b2 THEN {<<b1, "image">>, <<b3, "layer">>}
                                         ELSE {}]

MCSubject == [b \in Bodies |-> Nil]

MCHasBlobs == [b \in Bodies |-> FALSE]

MCSymmetry == Permutations(Clients)

=============================================================================
