-------------------------- MODULE RegistryAbstract --------------------------
(***************************************************************************)
(* What the manifest endpoint promises of the two stores, with requests    *)
(* taken to be atomic: a manifest body's bytes may be stored at any time   *)
(* once the body passed the checks of a PUT, and a manifest is recorded,   *)
(* under its digest and under the target in one step, only when the body  *)
(* is accepted, its bytes are stored and every sub-manifest it requires is *)
(* recorded in the same repository.  Reads change nothing.  Registry       *)
(* implements this specification with the identity refinement mapping.    *)
(***************************************************************************)
CONSTANTS
    Repos,
    Refs,       \* references: tags and digests
    Bodies,     \* manifest bodies, each its own digest
    Kinds,      \* content types a PUT can name
    Accepted,   \* the pairs <<body, content type>> a PUT accepts
    Required,   \* Required[b, ct]: the sub-manifests that must be recorded
    Deps,       \* Deps[b, ct]: the blobs recorded as the manifest's deps
    Nil

VARIABLES store, blobs

avars == <<store, blobs>>

Init ==
    /\ store = [r \in Repos |-> [k \in Refs |-> Nil]]
    /\ blobs = {}

\* The bytes of an accepted body are stored in repository r.
StoreBlob(r, b) ==
    /\ \E ct \in Kinds : <<b, ct>> \in Accepted
    /\ blobs' = blobs \cup {<<r, b>>}
    /\ UNCHANGED store

\* An accepted body whose bytes and sub-manifests are there is recorded
\* under its digest b and under the reference t at once.
Record(r, t, b, ct) ==
    /\ <<b, ct>> \in Accepted
    /\ <<r, b>> \in blobs
    /\ \A ch \in Required[b, ct] : store[r][ch] # Nil
    /\ LET m == [digest |-> b, ctype |-> ct, deps |-> Deps[b, ct]]
       IN  store' = [store EXCEPT ![r] = [@ EXCEPT ![b] = m, ![t] = m]]
    /\ UNCHANGED blobs

Next ==
    \E r \in Repos :
        \/ \E b \in Bodies : StoreBlob(r, b)
        \/ \E t \in Refs, b \in Bodies, ct \in Kinds : Record(r, t, b, ct)

Spec == Init /\ [][Next]_avars

=============================================================================
