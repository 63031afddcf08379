------------------------------ MODULE Referrers ------------------------------
(***************************************************************************)
(* handleReferrers (src/internal/registry/manifest.go) composed with the   *)
(* manifest endpoint of Registry: GET /v2/<repo>/referrers/<digest>        *)
(* requests run beside concurrent GETs, HEADs and PUTs.  The handler lists *)
(* the repository's digests once, then for each one Gets the record,       *)
(* reads its blob (deferring the reader's Close to the handler's return)   *)
(* and keeps the digest when the body's subject is the target.  A          *)
(* referrers request is served by a goroutine of RefClients; it keeps no   *)
(* state between requests, so the clients issuing them are a set apart.   *)
(***************************************************************************)
EXTENDS Registry

CONSTANT RefClients   \* goroutines serving referrers requests

VARIABLES
    rpc,      \* rpc[q]: where the referrers goroutine q is
    rrepo,    \* repo and target (the subject digest) parsed from the path
    rtarget,
    todo,     \* digests of ListDigests not yet visited by the loop
    cur,      \* the digest the loop is at
    rec,      \* the manifest record manifestHandler.Get returned for cur
    found,    \* digests appended to im.Manifests
    held,     \* digests whose blob readers are open (defer b.Close())
    pre       \* history: referrers of the target recorded at the listing

refvars == <<rpc, rrepo, rtarget, todo, cur, rec, found, held, pre>>
rvars == <<vars, refvars>>

RPCs == {"idle", "loop", "blob"}

\* The digest references recorded in repository r: ListDigests(repo).
ListDigests(r) == {d \in Bodies : store[r][d] # Nil}

\* The manifest with digest d is recorded as such and has subject s.
ReferrerOf(r, d, s) ==
    store[r][d] # Nil /\ store[r][d].digest = d /\ IsJson[d] /\ Subject[d] = s

\* Mutant: a return path that leaves the readers of the loop open.
RefFinishKeepReaders(q) ==
    /\ rpc' = [rpc EXCEPT ![q] = "idle"]
    /\ rrepo' = [rrepo EXCEPT ![q] = Nil]
    /\ rtarget' = [rtarget EXCEPT ![q] = Nil]
    /\ todo' = [todo EXCEPT ![q] = {}]
    /\ cur' = [cur EXCEPT ![q] = Nil]
    /\ rec' = [rec EXCEPT ![q] = Nil]
    /\ found' = [found EXCEPT ![q] = {}]
    /\ UNCHANGED held
    /\ pre' = [pre EXCEPT ![q] = {}]

\* The request of q returns; its deferred Closes release every reader.
RefFinish(q) ==
    /\ rpc' = [rpc EXCEPT ![q] = "idle"]
    /\ rrepo' = [rrepo EXCEPT ![q] = Nil]
    /\ rtarget' = [rtarget EXCEPT ![q] = Nil]
    /\ todo' = [todo EXCEPT ![q] = {}]
    /\ cur' = [cur EXCEPT ![q] = Nil]
    /\ rec' = [rec EXCEPT ![q] = Nil]
    /\ found' = [found EXCEPT ![q] = {}]
    /\ held' = [held EXCEPT ![q] = {}]
    /\ pre' = [pre EXCEPT ![q] = {}]

RInit ==
    /\ Init
    /\ rpc = [q \in RefClients |-> "idle"]
    /\ rrepo = [q \in RefClients |-> Nil]
    /\ rtarget = [q \in RefClients |-> Nil]
    /\ todo = [q \in RefClients |-> {}]
    /\ cur = [q \in RefClients |-> Nil]
    /\ rec = [q \in RefClients |-> Nil]
    /\ found = [q \in RefClients |-> {}]
    /\ held = [q \in RefClients |-> {}]
    /\ pre = [q \in RefClients |-> {}]

(***************************************************************************)
(* A referrers request that ends before the loop: a method other than GET  *)
(* (METHOD_UNKNOWN), an authorizer error, a target that is no digest       *)
(* (UNSUPPORTED), or ListDigests failing (NAME_UNKNOWN for a repository    *)
(* without references, INTERNAL otherwise).                                *)
(***************************************************************************)
RefRejected(q) ==
    /\ rpc[q] = "idle"
    /\ RefFinish(q)
    /\ UNCHANGED vars

\* Authorized, the target a digest: ListDigests(repo) starts the loop.
RefList(q) ==
    /\ rpc[q] = "idle"
    /\ \E r \in Repos, t \in Bodies :
         /\ NameKnown(r)
         /\ rpc' = [rpc EXCEPT ![q] = "loop"]
         /\ rrepo' = [rrepo EXCEPT ![q] = r]
         /\ rtarget' = [rtarget EXCEPT ![q] = t]
         /\ todo' = [todo EXCEPT ![q] = ListDigests(r)]
         /\ pre' = [pre EXCEPT ![q] = {d \in Bodies : ReferrerOf(r, d, t)}]
    /\ UNCHANGED <<vars, cur, rec, found, held>>

(***************************************************************************)
(* One iteration: manifestHandler.Get(repo, reference) for a listed digest *)
(* (INTERNAL on an error).  ListDigests gives no order the model relies    *)
(* on, so any digest left may be next.                                     *)
(***************************************************************************)
\* Mutant: the loop does not move past the digest it visits.
RefGetNoAdvance(q) ==
    /\ rpc[q] = "loop"
    /\ \E d \in todo[q] :
         /\ rpc' = [rpc EXCEPT ![q] = "blob"]
         /\ cur' = [cur EXCEPT ![q] = d]
         /\ rec' = [rec EXCEPT ![q] = store[rrepo[q]][d]]
         /\ UNCHANGED <<rrepo, rtarget, todo, found, held, pre>>
    /\ UNCHANGED vars

RefGet(q) ==
    /\ rpc[q] = "loop"
    /\ \E d \in todo[q] :
         \/ RefFinish(q)
         \/ /\ rpc' = [rpc EXCEPT ![q] = "blob"]
            /\ todo' = [todo EXCEPT ![q] = @ \ {d}]
            /\ cur' = [cur EXCEPT ![q] = d]
            /\ rec' = [rec EXCEPT ![q] = store[rrepo[q]][d]]
            /\ UNCHANGED <<rrepo, rtarget, found, held, pre>>
    /\ UNCHANGED vars

(***************************************************************************)
(* blobHandler.Get(repo, manifest.Blob.Digest) (a failure answers 404),    *)
(* the copy into a buffer (INTERNAL on an error), and the subject test:    *)
(* the descriptor of the listed reference is appended when the body reads *)
(* as JSON with subject.digest equal to the target.  The reader stays open *)
(* until the handler returns.                                              *)
(***************************************************************************)
RefBlob(q) ==
    /\ rpc[q] = "blob"
    /\ LET b == rec[q].digest IN
         \/ RefFinish(q)
         \/ /\ rpc' = [rpc EXCEPT ![q] = "loop"]
            /\ held' = [held EXCEPT ![q] = @ \cup {b}]
            /\ found' = [found EXCEPT ![q] =
                           IF IsJson[b] /\ Subject[b] = rtarget[q]
                           THEN @ \cup {cur[q]} ELSE @]
            /\ UNCHANGED <<rrepo, rtarget, todo, cur, rec, pre>>
    /\ UNCHANGED vars

\* The loop is over: the index is marshalled and written, and q returns.
RefRespond(q) ==
    /\ rpc[q] = "loop"
    /\ todo[q] = {}
    /\ RefFinish(q)
    /\ UNCHANGED vars

RefNext(q) ==
    \/ RefRejected(q)
    \/ RefList(q)
    \/ RefGet(q)
    \/ RefBlob(q)
    \/ RefRespond(q)

RNext ==
    \/ Next /\ UNCHANGED refvars
    \/ \E q \in RefClients : RefNext(q)

RSpec == RInit /\ [][RNext]_rvars

(***************************************************************************)
(* Fairness.  Every goroutine that is in the middle of a request is        *)
(* runnable, and every call it waits on returns, with a result or with an  *)
(* error of the request's context; so a request that has started keeps     *)
(* taking steps.  Nothing obliges a client to send a new request.          *)
(***************************************************************************)
InFlight(c) ==
    (GetBlob(c) \/ HeadStat(c) \/ PutBlob(c) \/ PutTx(c)) /\ UNCHANGED refvars

RefInFlight(q) == RefGet(q) \/ RefBlob(q) \/ RefRespond(q)

Fairness ==
    /\ \A c \in Clients : WF_rvars(InFlight(c))
    /\ \A q \in RefClients : WF_rvars(RefInFlight(q))

LiveSpec == RSpec /\ Fairness

-----------------------------------------------------------------------------
(* Properties.                                                             *)

(***************************************************************************)
(* The blob read of the referrers loop never fails for want of the blob:   *)
(* whatever PUTs commit between ListDigests, the Get of a record and the   *)
(* blob read, the record's blob is stored, so the loop never aborts the    *)
(* whole listing with 404.                                                 *)
(***************************************************************************)
ReferrersFindBlob ==
    \A q \in RefClients :
        rpc[q] = "blob" => <<rrepo[q], rec[q].digest>> \in blobs

(***************************************************************************)
(* Every request that has started ends: the referrers loop visits each     *)
(* listed digest once, and the PUT, GET and HEAD steps after the first     *)
(* lead to a response, under the fairness of in-flight goroutines.         *)
(***************************************************************************)
RequestsEnd ==
    /\ \A q \in RefClients : rpc[q] # "idle" ~> rpc[q] = "idle"
    /\ \A c \in Clients : pc[c] # "idle" ~> pc[c] = "idle"

(***************************************************************************)
(* Spec section 8, referrers completeness: a manifest with subject D that  *)
(* is recorded in the repository when the referrers request for D lists    *)
(* its digests is in the index the request returns.                        *)
(***************************************************************************)
ReferrersComplete ==
    \A q \in RefClients :
        rpc[q] = "loop" /\ todo[q] = {} => pre[q] \subseteq found[q]

=============================================================================
