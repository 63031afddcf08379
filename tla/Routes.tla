------------------------------- MODULE Routes -------------------------------
(***************************************************************************)
(* The request-routing surface of src/internal/registry/manifest.go: the   *)
(* URL classifiers isManifest, isTags, isCatalog and isReferrers, the      *)
(* parse of repo and target the handlers make of the same path, and the    *)
(* parse of the query parameter n by handleTags and handleCatalog.         *)
(*                                                                         *)
(* A URL path is a sequence of tokens: "/" and path words, each word one   *)
(* token.  strings.Split and strings.Join are modelled by what they do on  *)
(* such sequences; a path segment is the sequence of words between two    *)
(* slashes.  The state of the run is the request under consideration.     *)
(***************************************************************************)
EXTENDS Integers, Sequences

CONSTANTS
    Words,      \* path words; "manifests", "tags", "referrers", "_catalog" among them
    MaxSegs,    \* the longest path, in segments after the root slash
    NumValues,  \* the integers a query parameter n may spell
    IntWidth    \* bit width of Go's int in strconv.Atoi

Slash == "/"

\* A path word is the text between two slashes, so none is a slash.
ASSUME WordsAssumption == Slash \notin Words

\* strings.Split(p, "/"): the segments between slashes, in order.  f[i]
\* is the split of the first i tokens.
Split(p) ==
    LET f[i \in 0..Len(p)] ==
          IF i = 0 THEN << << >> >>
          ELSE IF p[i] = Slash THEN Append(f[i - 1], << >>)
          ELSE [f[i - 1] EXCEPT ![Len(f[i - 1])] = Append(@, p[i])]
    IN  f[Len(p)]

\* strings.Join(segs, "/").  g[i] joins the first i segments.
Join(segs) ==
    LET g[i \in 0..Len(segs)] ==
          IF i = 0 THEN << >>
          ELSE IF i = 1 THEN segs[1]
          ELSE g[i - 1] \o <<Slash>> \o segs[i]
    IN  g[Len(segs)]

\* elems := strings.Split(req.URL.Path, "/")[1:]
Elems(p) == Tail(Split(p))

\* A segment that is exactly the word w.
Is(seg, w) == seg = <<w>>

\* Mutant: the length check lets three elements through.
IsResourceShort(p, kind) ==
    LET e == Elems(p) IN Len(e) >= 3 /\ Is(e[Len(e) - 1], kind)

\* isManifest, isTags, isReferrers: at least four elements, the kind of
\* resource in the one before last.
IsResource(p, kind) ==
    LET e == Elems(p) IN Len(e) >= 4 /\ Is(e[Len(e) - 1], kind)

IsManifest(p) == IsResource(p, "manifests")
IsTags(p) == IsResource(p, "tags")
IsReferrers(p) == IsResource(p, "referrers")

\* isCatalog: at least two elements, the last one "_catalog".
IsCatalog(p) ==
    LET e == Elems(p) IN Len(e) >= 2 /\ Is(e[Len(e)], "_catalog")

\* handle, handleReferrers: target := elem[len(elem)-1]
TargetOf(p) == LET e == Elems(p) IN e[Len(e)]

\* handle, handleTags, handleReferrers:
\* repo := strings.Join(elem[1:len(elem)-2], "/")
RepoOf(p) == LET e == Elems(p) IN Join(SubSeq(e, 2, Len(e) - 2))

-----------------------------------------------------------------------------
(* The query parameter n.                                                  *)

\* What the query string holds for n: nothing, a decimal integer in range,
\* text that is no integer, or an integer beyond Go's int.
NQueries ==
    [kind : {"num"}, v : NumValues]
        \cup [kind : {"absent", "syntax", "over", "under"}, v : {0}]

IntMax == 2^(IntWidth - 2) - 1 + 2^(IntWidth - 2)
IntMin == -IntMax - 1

\* strconv.Atoi: the value and whether it reported an error.  A syntax
\* error yields 0; a range error yields the bound of int in that direction.
Atoi(s) ==
    CASE s.kind = "num"    -> [n |-> s.v, err |-> FALSE]
      [] s.kind = "syntax" -> [n |-> 0, err |-> TRUE]
      [] s.kind = "over"   -> [n |-> IntMax, err |-> TRUE]
      [] s.kind = "under"  -> [n |-> IntMin, err |-> TRUE]

DefaultN == 10000

\* handleTags: n passed to ListTags, or BAD_REQUEST when Atoi fails.
TagsN(s) ==
    IF s.kind = "absent" THEN [n |-> DefaultN, err |-> FALSE] ELSE Atoi(s)

\* Mutant: the nStr != "" test is dropped; Atoi("") fails with 0.
CatalogNNoDefault(s) == Atoi(IF s.kind = "absent" THEN [kind |-> "syntax", v |-> 0] ELSE s).n

\* handleCatalog: n, _ = strconv.Atoi(nStr); the error is dropped.
CatalogN(s) == IF s.kind = "absent" THEN DefaultN ELSE Atoi(s).n

-----------------------------------------------------------------------------
(* The request under consideration: its path is built one segment at a     *)
(* time, up to MaxSegs segments of at most one word (an empty segment is a *)
(* doubled slash), and n may take any value of NQueries at any time.       *)
Segments == {<< >>} \cup {<<w>> : w \in Words}

VARIABLES path, query

vars == <<path, query>>

Init ==
    /\ path \in {<<Slash>> \o seg : seg \in Segments}
    /\ query \in NQueries

\* The path gets one more segment.
AddSegment ==
    /\ Len(Elems(path)) < MaxSegs
    /\ \E seg \in Segments : path' = path \o <<Slash>> \o seg
    /\ UNCHANGED query

\* The same path with another value of n.
ChangeQuery ==
    /\ query' \in NQueries
    /\ UNCHANGED path

Next == AddSegment \/ ChangeQuery

Spec == Init /\ [][Next]_vars

-----------------------------------------------------------------------------
(* Properties.                                                             *)

(***************************************************************************)
(* The parse of handle, handleTags and handleReferrers loses nothing and   *)
(* takes nothing from the wrong place: the version root, the repo that     *)
(* strings.Join rebuilds from elem[1:len(elem)-2], the resource kind and   *)
(* the target spell the path again.  So the repo is every segment between *)
(* the root and the kind, none clipped and the kind not among them, and    *)
(* the target is the last segment.  It says nothing of whether the repo is *)
(* empty: see RepoNonEmpty.                                                *)
(***************************************************************************)
RouteParse ==
    \A kind \in {"manifests", "tags", "referrers"} :
        IsResource(path, kind) =>
            path = <<Slash>> \o Elems(path)[1] \o <<Slash>> \o RepoOf(path)
                   \o <<Slash, kind, Slash>> \o TargetOf(path)

(***************************************************************************)
(* Spec section 3: a repository name is non-empty.  So a path isManifest, *)
(* isTags or isReferrers route to handle, handleTags or handleReferrers    *)
(* yields a non-empty repo.                                                *)
(***************************************************************************)
RepoNonEmpty ==
    \A kind \in {"manifests", "tags", "referrers"} :
        IsResource(path, kind) => RepoOf(path) # << >>

(***************************************************************************)
(* Spec section 4.1: the classifier returns one of manifest, tags, catalog *)
(* or referrers, so no path is claimed by two of isManifest, isTags,       *)
(* isCatalog and isReferrers.                                              *)
(***************************************************************************)
ClassifiersExclusive ==
    LET claims == {k \in {"manifest", "tags", "catalog", "referrers"} :
                      \/ k = "manifest" /\ IsManifest(path)
                      \/ k = "tags" /\ IsTags(path)
                      \/ k = "catalog" /\ IsCatalog(path)
                      \/ k = "referrers" /\ IsReferrers(path)}
    IN  \A k1, k2 \in claims : k1 = k2

(***************************************************************************)
(* Spec section 4.4: handleCatalog falls back silently to n = 0 when n     *)
(* does not parse.                                                         *)
(***************************************************************************)
CatalogNFallback ==
    (query.kind # "absent" /\ Atoi(query).err) => CatalogN(query) = 0

=============================================================================
