------------------------------ MODULE Registry ------------------------------
(***************************************************************************)
(* The manifest endpoint of the distr OCI registry                         *)
(* (src/internal/registry/manifest.go): GET, HEAD and PUT of               *)
(* /v2/<repo>/manifests/<reference>, run by concurrent request goroutines  *)
(* against the shared manifest store (database) and blob store.            *)
(*                                                                         *)
(* Every call to the authorizer, the manifest store, the blob store or the *)
(* auditor is a suspension point of the goroutine; the model takes one     *)
(* step per such call, so that requests of different clients interleave    *)
(* between them.  The stores themselves are outside src/: their contract   *)
(* (spec.md section 6) is modelled, a manifest-store Put as an upsert of   *)
(* (repo, reference) and RunTx as one atomic step.                         *)
(*                                                                         *)
(* Data is abstracted: a manifest body is a model value of Bodies and is   *)
(* its own sha256 digest (sha256 is taken to be collision free), so a      *)
(* digest reference is an element of Bodies and a tag one of Tags.  What   *)
(* JSON parsing finds in a body is given by the constant functions IsJson, *)
(* Entries, Subject and HasBlobs.                                          *)
(***************************************************************************)
EXTENDS FiniteSets

CONSTANTS
    Clients,    \* concurrent HTTP clients, one request goroutine each
    Repos,      \* repository names <org>/<artifact>
    Tags,       \* tag references
    Bodies,     \* manifest bodies, identified with their sha256 digests
    IsJson,     \* IsJson[b]: b decodes as a JSON object
    Entries,    \* Entries[b]: the descriptors <<digest, mediaType>> of an index
    Subject,    \* Subject[b]: the subject digest of b, or Nil
    HasBlobs,   \* HasBlobs[b]: b has a non-empty top-level "blobs" array
    CanPut,     \* the blob handler implements blob.BlobPutHandler
    Nil         \* no record / no value

\* Descriptor media types, abstracted to the classes the handler tells apart.
MediaTypes == {"image", "index", "layer", "foreign"}
\* Content-Type of a PUT: an index type, an image type or anything else.
ContentTypes == {"index", "image", "other"}

Refs == Tags \cup Bodies

\* Outcomes of authz.AuthorizeReference.
AuthzResults == {"ok", "denied", "invalid", "internal"}
PCs == {"idle", "get_blob", "head_stat", "put_blob", "put_tx"}

\* A manifest.Manifest as the manifest store records it, with its deps.
Records == [digest : Bodies, ctype : ContentTypes, deps : SUBSET Bodies]

ASSUME ConstantsAssumption ==
    /\ Tags \cap Bodies = {}
    /\ Nil \notin Refs \cup Records
    /\ IsJson \in [Bodies -> BOOLEAN]
    /\ Entries \in [Bodies -> SUBSET (Bodies \X MediaTypes)]
    /\ Subject \in [Bodies -> Bodies \cup {Nil}]
    /\ HasBlobs \in [Bodies -> BOOLEAN]
    /\ CanPut \in BOOLEAN

VARIABLES
    store,   \* manifest store: store[r][k] is the record of reference k, or Nil
    blobs,   \* blob store: the (repo, digest) pairs whose bytes are stored
    pc,      \* pc[c]: where the goroutine serving client c is
    repo,    \* request-local: repo and target parsed from the path,
    target,
    digest,  \* m.Blob.Digest of the manifest read (GET, HEAD) or put (PUT)
    ctype    \* mf.ContentType of a PUT

local == <<repo, target, digest, ctype>>
vars == <<store, blobs, pc, local>>

-----------------------------------------------------------------------------
(* Helpers translated from the handler.                                    *)

\* types.MediaType.IsDistributable: foreign layers are not.
IsDistributable(mt) == mt # "foreign"
\* types.MediaType.IsImage() || IsIndex()
IsManifestType(mt) == mt \in {"image", "index"}

\* The sub-manifests of an index that handlePut checks and records as deps.
CheckedChildren(b) ==
    {e[1] : e \in {x \in Entries[b] : IsDistributable(x[2]) /\ IsManifestType(x[2])}}

\* The deps of an image manifest: its subject (config and layer blobs are
\* not manifests of this model and are left out).
ImageDeps(b) == IF Subject[b] = Nil THEN {} ELSE {Subject[b]}

\* v1.ParseIndexManifest / v1.ParseManifest fail on a body that is no JSON.
ParseFails(b, ct) == ct \in {"index", "image"} /\ ~IsJson[b]

\* Mutant: the error of the sub-manifest lookup is dropped.
MissingChildIgnored(r, b, ct) == FALSE

\* An index sub-manifest that manifestHandler.Get does not find.
MissingChild(r, b, ct) ==
    ct = "index" /\ \E ch \in CheckedChildren(b) : store[r][ch] = Nil

\* Mutant: whole index descriptors appended to blobs instead of digests.
DepsOfDescriptors(b, ct) ==
    IF ct = "index" THEN Entries[b]
    ELSE IF ct = "image" THEN ImageDeps(b) ELSE {}

\* The blobs collected by handlePut for a body of content type ct.
DepsOf(b, ct) ==
    IF ct = "index" THEN CheckedChildren(b)
    ELSE IF ct = "image" THEN ImageDeps(b) ELSE {}

\* checkIncompatibleManifest: no JSON, or a non-empty "blobs" array.
Incompatible(b) == ~IsJson[b] \/ HasBlobs[b]

\* manifestHandler.Get: ErrNameUnknown when the repository has no
\* reference, ErrManifestUnknown when it has others but not k.
NameKnown(r) == \E k \in Refs : store[r][k] # Nil

\* The request of c ends (with a response or a regError): back to idle.
Finish(c) ==
    /\ pc' = [pc EXCEPT ![c] = "idle"]
    /\ repo' = [repo EXCEPT ![c] = Nil]
    /\ target' = [target EXCEPT ![c] = Nil]
    /\ digest' = [digest EXCEPT ![c] = Nil]
    /\ ctype' = [ctype EXCEPT ![c] = Nil]

\* c's request goes on at `to' with the given locals.
Continue(c, to, r, t, d, ct) ==
    /\ pc' = [pc EXCEPT ![c] = to]
    /\ repo' = [repo EXCEPT ![c] = r]
    /\ target' = [target EXCEPT ![c] = t]
    /\ digest' = [digest EXCEPT ![c] = d]
    /\ ctype' = [ctype EXCEPT ![c] = ct]

-----------------------------------------------------------------------------
Init ==
    /\ store = [r \in Repos |-> [k \in Refs |-> Nil]]
    /\ blobs = {}
    /\ pc = [c \in Clients |-> "idle"]
    /\ repo = [c \in Clients |-> Nil]
    /\ target = [c \in Clients |-> Nil]
    /\ digest = [c \in Clients |-> Nil]
    /\ ctype = [c \in Clients |-> Nil]

(***************************************************************************)
(* handle: a request for /v2/<r>/manifests/<t> arrives.  A method other    *)
(* than GET, HEAD and PUT is METHOD_UNKNOWN; for those three the reference *)
(* is authorized first, and an error of the authorizer (DENIED,            *)
(* NAME_INVALID, INTERNAL) ends the request.  Authorization touches no     *)
(* state of the model, so it is taken in the same step as the handler's    *)
(* first call to a store.                                                  *)
(***************************************************************************)
HandleUnknownMethod(c) ==
    /\ pc[c] = "idle"
    /\ Finish(c)
    /\ UNCHANGED <<store, blobs>>

HandleAuthzError(c) ==
    /\ pc[c] = "idle"
    /\ \E a \in AuthzResults \ {"ok"} : Finish(c)
    /\ UNCHANGED <<store, blobs>>

(***************************************************************************)
(* GET or HEAD, authorized: manifestHandler.Get(repo, target).             *)
(***************************************************************************)
ReadManifest(c, to) ==
    /\ pc[c] = "idle"
    /\ \E r \in Repos, t \in Refs :
         \/ /\ ~NameKnown(r)
            /\ Finish(c)
         \/ /\ NameKnown(r)
            /\ store[r][t] = Nil
            /\ Finish(c)
         \/ /\ store[r][t] # Nil
            /\ Continue(c, to, r, t, store[r][t].digest, Nil)
    /\ UNCHANGED <<store, blobs>>

HandleGet(c) == ReadManifest(c, "get_blob")

HandleHead(c) == ReadManifest(c, "head_stat")

(***************************************************************************)
(* handleGet: blobHandler.Get(repo, digest, true), and the request ends:   *)
(* MANIFEST_UNKNOWN for a missing blob; otherwise a redirect or the bytes  *)
(* copied to the client, then AuditPull (its errors only logged), or       *)
(* INTERNAL when a copy fails.  The auditor's log is outside the model.    *)
(***************************************************************************)
GetBlob(c) ==
    /\ pc[c] = "get_blob"
    /\ Finish(c)
    /\ UNCHANGED <<store, blobs>>

(***************************************************************************)
(* handleHead: INTERNAL without blob.BlobStatHandler; Stat(repo, digest)   *)
(* of a missing blob MANIFEST_UNKNOWN; else AuditPull and 200.             *)
(***************************************************************************)
HeadStat(c) ==
    /\ pc[c] = "head_stat"
    /\ Finish(c)
    /\ UNCHANGED <<store, blobs>>

(***************************************************************************)
(* PUT, authorized: handlePut up to checkIncompatibleManifest.  The body b *)
(* is read (a read error is INTERNAL), parsed for its content type ct and, *)
(* for an index, every image or index sub-manifest is looked up.  The      *)
(* lookups are one step: references are never removed, so a child found   *)
(* by one Get is still there at the last.                                  *)
(***************************************************************************)
HandlePut(c) ==
    /\ pc[c] = "idle"
    /\ \E r \in Repos, t \in Refs, b \in Bodies, ct \in ContentTypes :
         \/ Finish(c)
         \/ /\ ParseFails(b, ct)
            /\ Finish(c)
         \/ /\ ~ParseFails(b, ct)
            /\ MissingChild(r, b, ct)
            /\ Finish(c)
         \/ /\ ~ParseFails(b, ct)
            /\ ~MissingChild(r, b, ct)
            /\ Incompatible(b)
            /\ Finish(c)
         \/ /\ ~ParseFails(b, ct)
            /\ ~MissingChild(r, b, ct)
            /\ ~Incompatible(b)
            /\ Continue(c, "put_blob", r, t, b, ct)
    /\ UNCHANGED <<store, blobs>>

(***************************************************************************)
(* handlePut: BlobPutHandler.Put(repo, digest, contentType, buf).  A blob  *)
(* handler that is no BlobPutHandler, or a failed Put, ends in INTERNAL.   *)
(***************************************************************************)
\* Mutant: the error of BlobPutHandler.Put is ignored.
PutBlobIgnoreError(c) ==
    /\ pc[c] = "put_blob"
    /\ CanPut
    /\ \/ blobs' = blobs \cup {<<repo[c], digest[c]>>}
       \/ UNCHANGED blobs
    /\ pc' = [pc EXCEPT ![c] = "put_tx"]
    /\ UNCHANGED <<local, store>>

PutBlob(c) ==
    /\ pc[c] = "put_blob"
    /\ \/ /\ Finish(c)
          /\ UNCHANGED blobs
       \/ /\ CanPut
          /\ blobs' = blobs \cup {<<repo[c], digest[c]>>}
          /\ pc' = [pc EXCEPT ![c] = "put_tx"]
          /\ UNCHANGED local
    /\ UNCHANGED store

(***************************************************************************)
(* handlePut: db.RunTx putting the manifest under its digest and under the *)
(* target.  The transaction commits both Puts (201 Created) or, on a quota *)
(* or other error, neither.                                                *)
(***************************************************************************)
\* Mutant: the transaction puts the manifest under the target only.
PutTxTargetOnly(c) ==
    /\ pc[c] = "put_tx"
    /\ LET r == repo[c]
           m == [digest |-> digest[c], ctype |-> ctype[c],
                 deps |-> DepsOf(digest[c], ctype[c])]
       IN  \/ store' = [store EXCEPT ![r] = [@ EXCEPT ![target[c]] = m]]
           \/ UNCHANGED store
    /\ Finish(c)
    /\ UNCHANGED blobs

PutTx(c) ==
    /\ pc[c] = "put_tx"
    /\ LET r == repo[c]
           m == [digest |-> digest[c], ctype |-> ctype[c],
                 deps |-> DepsOf(digest[c], ctype[c])]
       IN  \/ store' = [store EXCEPT ![r] = [@ EXCEPT ![digest[c]] = m,
                                                      ![target[c]] = m]]
           \/ UNCHANGED store
    /\ Finish(c)
    /\ UNCHANGED blobs

Next ==
    \E c \in Clients :
        \/ HandleUnknownMethod(c)
        \/ HandleAuthzError(c)
        \/ HandleGet(c)
        \/ HandleHead(c)
        \/ HandlePut(c)
        \/ GetBlob(c)
        \/ HeadStat(c)
        \/ PutBlob(c)
        \/ PutTx(c)

Spec == Init /\ [][Next]_vars

-----------------------------------------------------------------------------
(* Refinement: the concurrent handler implements RegistryAbstract, the     *)
(* stores changed only by atomic, checked PUTs.                            *)

\* The bodies and content types handlePut lets past its checks.
AcceptedPuts ==
    {p \in Bodies \X ContentTypes : ~ParseFails(p[1], p[2]) /\ ~Incompatible(p[1])}

\* The sub-manifests handlePut requires to be recorded.
RequiredChildren ==
    [p \in Bodies \X ContentTypes |->
        IF p[2] = "index" THEN CheckedChildren(p[1]) ELSE {}]

\* The deps handlePut records with the manifest.
DepsTable == [p \in Bodies \X ContentTypes |-> DepsOf(p[1], p[2])]

Abstract == INSTANCE RegistryAbstract
                WITH Kinds <- ContentTypes, Accepted <- AcceptedPuts,
                     Required <- RequiredChildren, Deps <- DepsTable

(***************************************************************************)
(* Every behaviour of the concurrent manifest endpoint is one of the       *)
(* atomic specification: interleaved GETs, HEADs and PUTs change the       *)
(* stores only by storing an accepted body's blob, or by recording an      *)
(* accepted manifest whose blob and sub-manifests are present at commit.   *)
(***************************************************************************)
AbstractSpec == Abstract!Spec

-----------------------------------------------------------------------------
(* Properties.                                                             *)

TypeOK ==
    /\ store \in [Repos -> [Refs -> Records \cup {Nil}]]
    /\ blobs \subseteq Repos \X Bodies
    /\ pc \in [Clients -> PCs]
    /\ repo \in [Clients -> Repos \cup {Nil}]
    /\ target \in [Clients -> Refs \cup {Nil}]
    /\ digest \in [Clients -> Bodies \cup {Nil}]
    /\ ctype \in [Clients -> ContentTypes \cup {Nil}]

(***************************************************************************)
(* A GET or HEAD that found a manifest record finds its blob: handlePut    *)
(* stores the blob before the transaction that records the manifest, so a *)
(* reader racing a PUT, or reading after a PUT whose blob Put failed,      *)
(* never answers MANIFEST_UNKNOWN for a reference the store resolved.      *)
(***************************************************************************)
ReaderFindsBlob ==
    \A c \in Clients :
        pc[c] \in {"get_blob", "head_stat"} => <<repo[c], digest[c]>> \in blobs

(***************************************************************************)
(* Whatever reference a manifest is recorded under, it is also recorded    *)
(* under its own digest: the transaction of handlePut writes both, and no  *)
(* failed transaction or later PUT to the same reference removes the       *)
(* digest reference.                                                       *)
(***************************************************************************)
DigestAliasRecorded ==
    \A r \in Repos, k \in Refs :
        store[r][k] # Nil => store[r][store[r][k].digest] # Nil

(***************************************************************************)
(* A manifest recorded as an index has every distributable image or index  *)
(* sub-manifest recorded in the same repository, although handlePut looks *)
(* the children up before, and outside, the transaction that records it.  *)
(***************************************************************************)
IndexClosure ==
    \A r \in Repos, k \in Refs :
        LET m == store[r][k] IN
        (m # Nil /\ m.ctype = "index") =>
            \A ch \in CheckedChildren(m.digest) : store[r][ch] # Nil

(***************************************************************************)
(* Spec section 8, immutability by digest: a manifest recorded under a     *)
(* digest reference is the manifest with that digest, so GET by digest     *)
(* returns exactly the bytes of that digest.                               *)
(***************************************************************************)
DigestRoundTrip ==
    \A r \in Repos, d \in Bodies :
        store[r][d] # Nil => store[r][d].digest = d

-----------------------------------------------------------------------------
(* The inductive invariant behind the theorems of RegistryProofs.          *)

\* The request-local variables are set exactly while a request is served.
LocalsOK ==
    \A c \in Clients :
        pc[c] # "idle" =>
            /\ repo[c] \in Repos
            /\ target[c] \in Refs
            /\ digest[c] \in Bodies
            /\ (pc[c] \in {"put_blob", "put_tx"} => ctype[c] \in ContentTypes)

\* Every recorded manifest's blob is stored.
BlobBeforeRecord ==
    \A r \in Repos, k \in Refs :
        store[r][k] # Nil => <<r, store[r][k].digest>> \in blobs

\* A PUT past its checks has its children recorded; one about to commit
\* has its blob stored.
PendingPutReady ==
    \A c \in Clients :
        /\ pc[c] \in {"put_blob", "put_tx"} /\ ctype[c] = "index" =>
              \A ch \in CheckedChildren(digest[c]) : store[repo[c]][ch] # Nil
        /\ pc[c] = "put_tx" => <<repo[c], digest[c]>> \in blobs

\* A reader's digest is one a record of its repository has.
ReaderDigestRecorded ==
    \A c \in Clients :
        pc[c] \in {"get_blob", "head_stat"} => store[repo[c]][digest[c]] # Nil

IInv ==
    /\ TypeOK
    /\ LocalsOK
    /\ BlobBeforeRecord
    /\ PendingPutReady
    /\ ReaderDigestRecorded
    /\ ReaderFindsBlob
    /\ DigestAliasRecorded
    /\ IndexClosure

=============================================================================
