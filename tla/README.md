# Formal models of the distr OCI registry

This directory holds TLA+ models of the registry in `src/internal/registry/manifest.go` and their TLC configurations. It also holds TLAPS proofs of the models' safety invariants and of a refinement.

The registry serves the OCI distribution API under `/v2/`. Each HTTP request runs in a goroutine of its own. The goroutines share two stores:

- the **manifest store**, a database reached through `db.RunTx`;
- the **blob store**, which holds manifest bytes.

Neither store is under `src/`. Their contract (spec.md §6) is modelled, not their code.

## 1. Inventory

### Components

| Component | Source | State it keeps | Operations | Status |
|---|---|---|---|---|
| Manifest handler | manifest.go 100–148, 337–526, 541–551 | none of its own; reads and writes both stores | GET, HEAD, PUT of `manifests/<ref>`; DELETE is disabled (`METHOD_UNKNOWN`) | modelled (`Registry`) |
| Manifest store | outside src (spec §6) | (repo, reference) → manifest record (digest, content type, blob deps) | Get, Put (upsert), RunTx, ListTags, ListDigests, List | partly: Get, Put, RunTx and ListDigests |
| Blob store | outside src | stored (repo, digest) bytes | Get (may redirect), Stat, Put | partly: membership, Get, Stat and Put |
| Authorizer | outside src | none that handlers read | AuthorizeReference, AuthorizeName | partly: a nondeterministic outcome |
| Auditor | outside src | the audit log | AuditPull | not modelled (log storage is out of scope, spec §1) |
| URL classifier | manifest.go 60–104 | none | isManifest, isTags, isCatalog, isReferrers, and the repo/target parse | modelled (`Routes`) |
| Tag lister | manifest.go 150–204 | none | `n` / `last` parsing, then ListTags | partly: the parse of `n` (`Routes`) |
| Catalog | manifest.go 206–235 | none | `n` parsing, then List | partly: the parse of `n` (`Routes`) |
| Referrers | manifest.go 238–335 | open blob readers until return | ListDigests, then a Get and a blob Get for each digest | modelled (`Referrers`) |
| User-account db layer | tutorials.ts 210–624 (Go `package db` held in this file) | users, organizations, memberships | create with organization (three inserts), update, delete, queries | not modelled (section 6) |
| UI templates | tutorials.ts 1–209 | none | layout only | not modelled |

### How the parts interact

A PUT takes these steps, in order:

1. It reads and parses the body.
2. For an index, it looks up each image or index child in the manifest store. This happens **outside** any transaction.
3. It rejects incompatible manifests (`checkIncompatibleManifest`).
4. It Puts the bytes into the blob store.
5. Only then does it run one transaction. That transaction Puts the record under the digest and under the target.

A GET or HEAD goes the other way:

1. It authorizes and resolves the reference in the manifest store.
2. It reads or stats the blob named by the record's digest.
3. It audits the pull.

Requests of different clients interleave at every store call.

### Hard behaviours

- Interleaving of PUTs to the same tag with GETs of it, between the blob Put and the transaction.
- A child check that happens long before the commit.
- The double Put that `multierr.Combine` runs even when the first Put fails. The transaction's rollback is what makes it atomic.
- A failing blob Put or transaction, which leaves partial state behind.
- Referrers, which read many records one by one while PUTs commit.
- `defer` inside a loop.

### Properties that make the manifest handler correct

- A reader that resolved a reference finds its blob.
- Every reference resolves to a record that is also recorded under its own digest.
- An index never refers to children that are not in its repository.
- No reference is ever removed, and every reference written holds a manifest that passed the PUT checks.
- GET by a digest returns that digest's bytes (spec §8).

## 2. Modules

### `Registry.tla`: the manifest endpoint

The model takes one step per call to a shared store. The authorizer call is merged into the first store read, because it touches no modelled state.

**Constants**

- `Clients`, `Repos`, `Tags`.
- `Bodies`: manifest bodies, each identified with its sha256 digest, so a digest reference is a body.
- `IsJson`, `Entries`, `Subject`, `HasBlobs`: what parsing finds in a body.
- `CanPut`: whether the blob handler implements `BlobPutHandler`.
- `Nil`.

`ConstantsAssumption` gives their types.

**Variables**

| Variable | Code |
|---|---|
| `store[r][k]` | the manifest record of reference `k` in repository `r`, or `Nil` |
| `blobs` | the stored (repo, digest) pairs |
| `pc[c]` | where client `c`'s goroutine is suspended |
| `repo`, `target`, `digest`, `ctype` | the goroutine's locals |

**Actions**

| Action | Code |
|---|---|
| `HandleUnknownMethod`, `HandleAuthzError` | `handle` 100–148 |
| `HandleGet` / `HandleHead` via `ReadManifest` | `handle` plus `handleGet`/`handleHead` up to the manifest Get: NAME_UNKNOWN, MANIFEST_UNKNOWN, or resolve |
| `GetBlob`, `HeadStat` | the blob read or stat, then the audit |
| `HandlePut` | `handlePut` 420–497: body read error, parse error, missing child, incompatible manifest, or go on |
| `PutBlob` | the blob Put, 499–505 (failure, or the bytes are stored) |
| `PutTx` | `RunTx` 507–525: both Puts commit or nothing does (quota, database error) |

**Helpers**

- `CheckedChildren`, `MissingChild` and `DepsOf` translate the index and image parsing.
- `Incompatible` translates `checkIncompatibleManifest`.

### `MCRegistry.tla`

Instantiates the model for TLC with three bodies:

- `b1`, an image;
- `b2`, an index listing `b1` as an image and `b3` as a layer (the layer is not looked up);
- `b3`, a body that is not JSON.

The clients are symmetric.

### `RegistryAbstract.tla`: what the endpoint promises

The same two stores, with requests taken to be atomic. There are two actions:

- `StoreBlob(r, b)`: the bytes of a body that some PUT accepts are stored.
- `Record(r, t, b, ct)`: an accepted body is recorded under its digest and under `t` in one step. Its bytes must be stored and the sub-manifests it requires must be recorded.

Reads change nothing, so they are stutters. `Registry` instantiates it with the identity mapping on `store` and `blobs` (`Abstract == INSTANCE RegistryAbstract WITH ...`). The abstract constants are tables computed from the detailed helpers:

- `AcceptedPuts`: the pairs that pass the parse and `checkIncompatibleManifest`;
- `RequiredChildren`: the children `handlePut` looks up;
- `DepsTable`: the `blobs` deps `handlePut` records.

### `Referrers.tla`: `handleReferrers` beside the manifest endpoint

The module EXTENDS `Registry`. It adds referrers goroutines `RefClients`, which keep no state between requests. Their steps interleave with GETs, HEADs and PUTs.

| Variable | Code |
|---|---|
| `rpc[q]` | where goroutine `q` is: `idle`, `loop` (between iterations), `blob` (after the manifest Get) |
| `rrepo`, `rtarget` | `repo` and `target` parsed from the path |
| `todo[q]` | the digests of `ListDigests` not visited yet |
| `cur[q]`, `rec[q]` | the listed digest and the record `manifestHandler.Get` returned for it |
| `found[q]` | the digests appended to `im.Manifests` |
| `held[q]` | the blobs whose readers are open (`defer b.Close()` at line 293) |
| `pre[q]` | a history variable: the referrers of the target recorded when the digests were listed |

| Action | Code |
|---|---|
| `RefRejected` | the returns before the loop: method, authorizer, target not a digest, `ListDigests` error |
| `RefList` | `ListDigests` succeeds and the loop starts (244–278) |
| `RefGet` | `manifestHandler.Get` of a listed digest, or INTERNAL (279–283) |
| `RefBlob` | the blob Get (404 on failure), the copy, and the subject test (285–323) |
| `RefRespond` | marshal and write (324–334) |
| `RefFinish` | every return. It closes the readers the deferred `Close` calls hold. |

`ListDigests` is modelled from spec §6 as the set of digest references recorded in the repository. The loop may visit them in any order.

**Fairness** (`LiveSpec`). Each goroutine has weak fairness on its in-flight steps:

- the blob read or stat and the audit of a GET or HEAD;
- the blob Put and the transaction of a PUT;
- every referrers step after `ListDigests`.

A goroutine in the middle of a request is runnable, and each store call it waits on returns, with a result or with the context's error. New requests are never forced: an idle client may stay idle.

### `Routes.tla`: URL classification and the `n` parameter

A path is a sequence of tokens: `/` and path words. `strings.Split` and `strings.Join` are recursive functions over that sequence (`f[i]` is the result for the first `i` tokens or segments), so an empty segment (a doubled slash) is represented. They are written as recursive functions, not RECURSIVE operators or library folds, so that the module can be reasoned about with TLAPS. `WordsAssumption` states that no path word is a slash. The state is one request (`path`, `query`). The path grows one segment at a time, up to `MaxSegs`, and the query may take any value of `NQueries`.

`strconv.Atoi` is modelled by what it does:

- a decimal integer in range gives its value;
- a syntax error gives 0 and an error;
- an out-of-range value gives the int bound in its direction and an error.

`IntWidth` is 32 in the run, because TLC's integers are 32-bit. For the property only the two bounds matter, not which width they are.

### `RegistryProofs.tla`, `RegistryRefinementProofs.tla`, `ReferrersProofs.tla`, `RoutesProofs.tla`

TLAPS proofs for every value of the constants (section 4).

## 3. Runs

| Run | cfg | Checks | Result |
|---|---|---|---|
| `manifest_concurrency` | `MCRegistry.cfg` | `TypeOK`, `ReaderFindsBlob`, `DigestAliasRecorded`, `IndexClosure` | pass: about 3.1M distinct states, about 1 min |
| `digest_target_mismatch` | `MCRegistryDigest.cfg` | `DigestRoundTrip` | violation (finding 1) |
| `refinement` | `MCRegistryRefine.cfg` | `AbstractSpec` | pass: about 3.1M distinct states, about 1.5 min |
| `referrers_concurrency` | `MCReferrers.cfg` | `ReferrersFindBlob`, `RequestsEnd` | pass: about 228K distinct states, under 30 s |
| `referrers_completeness` | `MCReferrersComplete.cfg` | `ReferrersComplete` | violation (finding 2) |
| `route_parse` | `MCRoutes.cfg` | `RouteParse` | pass: about 75K distinct states, a few seconds |
| `classifier_overlap` | `MCRoutesExclusive.cfg` | `ClassifiersExclusive` | violation (finding 3) |
| `empty_repo` | `MCRoutesRepo.cfg` | `RepoNonEmpty` | violation (finding 5) |
| `catalog_n_range` | `MCRoutesCatalogN.cfg` | `CatalogNFallback` | violation (finding 4) |

**Bounds**

- **Manifest endpoint.** Two clients, one repository and one tag. Every body can be PUT by tag or by its own or another digest. That is enough for these cases to happen:
  - two PUTs racing on one tag;
  - a GET interleaved between a PUT's blob Put and its transaction;
  - an index PUT whose child check passes before the child is recorded;
  - each rejection path.

  A second repository only repeats the first, since no step crosses repositories.
- **Referrers.** One manifest client, one referrers goroutine, one repository and no tags. Two JSON bodies: `b2` has subject `b1`. The referrers loop can therefore:
  - list a referrer;
  - see it re-pointed by a concurrent PUT to a digest target;
  - meet a blob Put that fails.

  Non-JSON bodies are never recorded, and tags only add aliases of digest records, which the loop never lists.
- **Routes.** Five words (`a` plus the four resource words), paths up to five segments, and `n` over −1..2 plus the absent, syntax and range cases. Five segments is enough for:
  - the shortest resource path (four elements after the root);
  - a repo of two segments;
  - empty segments at every place.

**Fairness.** `manifest_concurrency`, `refinement` and `referrers_completeness` assume none, so a goroutine may stop at any suspension point (client gone, context cancelled). `referrers_concurrency` checks `RequestsEnd` under `LiveSpec` (section 2). Deadlock checking stays on everywhere: an idle client can always send a new request.

**Findings**

1. **`handlePut` never compares a digest-form target with the computed digest** (line 512).
   - TLC's trace: `PUT manifests/<digest of b2>` with body `b1`, then the blob Put, then the transaction. The transaction records `b1` under `b2`'s digest.
   - A later GET by `b2`'s digest serves `b1`. This breaks spec §8 "immutability by digest".
   - It may still be caught outside `src/`, by the authorizer or the database.
2. **Referrers completeness (spec §8) fails** through the same re-pointing.
   - `handleReferrers` lists `b2`, reads the record now stored under `b2`'s digest (body `b1`, no subject) and leaves `b2` out of the index.
   - The loop reads the record of the listed reference, not the listed manifest.
3. **The classifiers overlap** (spec_gap). `/v2/x/manifests/_catalog` satisfies both `isManifest` and `isCatalog`, and `_catalog` is a legal tag. Spec §4.1 says the classifier yields one kind and does not say which wins.
4. **An out-of-range `n` does not fall back to 0.** `handleCatalog` drops Atoi's error (line 211), and for a range error Atoi returns the int bound, not the 0 spec §4.4 describes.
5. **A routed path can carry an empty repo** (spec_gap).
   - TLC's trace: the path `////manifests/`, four elements `"", "", "manifests", ""`, which `isManifest` accepts.
   - `handle` cuts `repo := strings.Join(elem[1:len(elem)-2], "/")` = `""` (line 104) and passes it to `AuthorizeReference`. `/v2//manifests/t` has the same shape.
   - Spec §3 says a repository name is non-empty. Nothing in `manifest.go` enforces it, so only the authorizer, outside `src/`, can refuse the request with `NAME_INVALID`. `RouteParse` holds on these paths: the parse is exact, and the empty repo is what the path spells.

**Mutants.** Each property of a passing run fails under a plausible bug:

| Mutant | Broken property |
|---|---|
| the child check is dropped | `IndexClosure`, `AbstractSpec` |
| deps are taken from every descriptor | `TypeOK` |
| the blob Put error is ignored | `ReaderFindsBlob`, `ReferrersFindBlob` |
| only the target Put commits | `DigestAliasRecorded` |
| the loop does not move past the digest it visits | `RequestsEnd` |
| the classifier accepts three elements | `RouteParse` |

## 4. Proofs

The proofs assume only `ConstantsAssumption`. Clients, repositories, tags and bodies may be any sets, infinite ones included. The `Routes` proofs assume only `WordsAssumption`: no path word is a slash, which holds of every word `strings.Split` can produce.

**`RegistryProofs.tla`**

- `TypeCorrect`: `Spec => []TypeOK`. It is proved from the step lemma `TypeStep` on `TypeOK /\ LocalsOK`. `LocalsOK` is the typing of a suspended goroutine's locals.
- `InvariantHolds`: `Spec => []IInv`, the inductive invariant the endpoint theorems rest on. The stated properties are not inductive on their own, so `IInv` adds three conjuncts:
  - `BlobBeforeRecord`: every record's blob is stored. This is needed for `ReaderFindsBlob` when a GET resolves.
  - `PendingPutReady`: a PUT suspended before its transaction has its blob stored, and an index PUT still has its children recorded. This is needed for the transaction step.
  - `ReaderDigestRecorded`: a suspended reader's digest stays recorded.

  The step lemma `InvStep` has one case per action. The transaction case has one step per conjunct and uses `CommitEffect`, a lemma that says what the double EXCEPT produces. It also uses the fact that the store only grows.
- `ReaderFindsBlobHolds`, `DigestAliasHolds` and `IndexClosureHolds` follow from `InvariantHolds`.

**`RegistryRefinementProofs.tla`**

- `Refinement`: `Spec => AbstractSpec`. Initial states map to the abstract initial state. `StepRefines` shows that each step maps to an abstract step or a stutter:
  - `PutBlob` maps to `StoreBlob`;
  - a committed `PutTx` maps to `Record`;
  - every other action leaves both stores unchanged.
- The `Record` guard needs `IInv` for the stored blob and the recorded children, plus one more invariant, `PutChecked`. `PutChecked` says that a PUT past its checks carries a body and content type in `AcceptedPuts`; it is proved inductive (`PutCheckedStep`) together with the typing.

**`ReferrersProofs.tla`**

- `ReferrersSafe`: `RSpec => []ReferrersFindBlob`. The inductive invariant is `IInv /\ RefInv`. `RefInv` types the referrers variables and adds `RefLocals`:
  - every digest a loop has yet to visit is recorded;
  - a goroutine after its manifest Get holds a record whose blob is stored.
- The lemmas:
  - `StoresGrow`: endpoint steps never remove a reference or a blob. This keeps `RefLocals` under concurrent PUTs (`EndpointStepRefInv`).
  - `BlobBeforeRecord`, from `IInv`, turns a recorded digest into a stored blob at the Get (`RefGetInv`).
  - A return from anywhere in the loop keeps `RefInv` (`RefFinishInv`).
- `ComposedImpliesEndpoint`: `RSpec => Spec`. Its lemma `EndpointView` says every step of the composed system is a manifest-endpoint step or a stutter of `vars`, because no referrers action writes the stores or the manifest goroutines' locals.
- `ComposedRefinement`: `RSpec => AbstractSpec /\ []IInv`. It follows from `ComposedImpliesEndpoint`, `Refinement` and `InvariantHolds`. The refinement and every invariant of the endpoint therefore hold with referrers requests running beside it.

**`RoutesProofs.tla`**

- `RouteParseHolds`: `Spec => []RouteParse` for every set of words and every `MaxSegs`. The argument:
  - `Split(p)` and `Join(s)` are values of recursive functions, that is, of a CHOOSE over the functions that satisfy the defining equation. `SplitDet(p, v)` says such a function exists and every one ends in `v`; `SplitDetValue` turns it into `Split(p) = v`. `JoinDet` and `JoinDetValue` do the same for `Join`.
  - `SplitAppend` carries `SplitDet` over one more token. The witness is the old function extended by one entry, and any function for the longer path restricts to one for the shorter, which fixes its value. `JoinAppend` does the same for one more segment, and `SplitSegment` for a slash and a segment.
  - The inductive invariant `PathInv` says the path has elements `E` with `SplitDet(path, <<<<>>>> \o E)`. Up to three elements, the path is spelt by them. From four on, it is spelt by the first element, a sequence `r` with `JoinDet` of the elements `handle` joins into the repo, and the last two. `ShapeStep` shows that `AddSegment` keeps this, moving the element before last into `r` (`RepoSliceAppend`, `PreAppend`).
  - `RouteParse` then follows from `PathInv`, the associativity of `\o` (`KindSplice`), and `Elems(path) = E`.
  - The induction over the path's length that a direct proof would need is supplied by the behaviour, which builds the path one segment at a time: each step of the invariance proof unfolds the recursive functions one token further.

**Left to TLC**

- Liveness (`RequestsEnd`) and `ENABLED`.
- What `Split` and `Join` compute on a sequence that no behaviour builds. `RouteParseHolds` covers every path a request can have in the model, because the invariant follows the path as it grows. A statement about all token sequences at once would need induction over sequences: the installed provers cannot instantiate the library's induction theorems, whose predicate is an operator parameter.
- The refinement and the referrers invariants are also checked by TLC on the instances above.

## 5. Not modelled, and why

- **The audit log:** out of scope (spec §1).
- **Response bodies and headers, and the listing results of `ListTags` and `List`:** they are marshalled and written and change no state. Tag and catalog listing are modelled only as far as the parse of `n`.
- **Redirects and backend errors:** outcomes with no state change. They are collapsed into `GetBlob`/`HeadStat`.
- **Garbage collection of orphan blobs:** a non-goal. The refinement allows a stored blob with no record.
- **The user-account db layer** (tutorials.ts 210–624). All of it but `CreateUserAccountWithOrganization` is single SQL statements whose effect the schema decides, and the schema is not in the repository. Whether the three inserts of the creation share a transaction is decided by `internalctx.GetDb`, outside `src/`. Spec §1 puts user and organization management out of scope.
- **The bound on open blob readers in the referrers loop:** there is none in the code. Each visited digest's reader stays open until the handler returns (`defer b.Close()` at line 293), so up to one per digest of the repository is open at once. `RefFinish` empties `held` on every return, as Go's `defer` does; no property states this, since it is one assignment of the model.
- **The lower bound of `n`:** `handleTags` hands any integer, zero and negative included, to `ListTags` (line 168). What the store does with it is outside `src/`, and spec §4.3 sets no bound, so no property checks it. `TagsN` models the parse.
