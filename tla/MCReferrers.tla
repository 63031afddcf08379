---------------------------- MODULE MCReferrers ----------------------------
(***************************************************************************)
(* Referrers for TLC.  Two bodies: b1 an image, b2 an image whose subject  *)
(* is b1 (a signature or attestation of b1).  A body that is no JSON is    *)
(* never recorded (checkIncompatibleManifest), and no body is an index:    *)
(* index closure is checked by MCRegistry.                                 *)
(***************************************************************************)
EXTENDS Referrers, TLC

CONSTANTS b1, b2

MCIsJson == [b \in Bodies |-> TRUE]
MCEntries == [b \in Bodies |-> {}]
MCSubject == [b \in Bodies |-> IF b = b2 THEN b1 ELSE Nil]
MCHasBlobs == [b \in Bodies |-> FALSE]

=============================================================================
