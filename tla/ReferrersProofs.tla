--------------------------- MODULE ReferrersProofs ---------------------------
(***************************************************************************)
(* Proofs about the referrers handler running beside the manifest          *)
(* endpoint (Referrers), for all constants satisfying ConstantsAssumption. *)
(* The referrers goroutines only read the stores, so every result proved   *)
(* of the manifest endpoint alone carries over to the composed system.    *)
(***************************************************************************)
EXTENDS Referrers, RegistryRefinementProofs

\* The referrers goroutines' variables are typed.
RefTypeOK ==
    /\ rpc \in [RefClients -> RPCs]
    /\ rrepo \in [RefClients -> Repos \cup {Nil}]
    /\ rtarget \in [RefClients -> Bodies \cup {Nil}]
    /\ todo \in [RefClients -> SUBSET Bodies]
    /\ cur \in [RefClients -> Bodies \cup {Nil}]
    /\ rec \in [RefClients -> Records \cup {Nil}]
    /\ found \in [RefClients -> SUBSET Bodies]
    /\ held \in [RefClients -> SUBSET Bodies]
    /\ pre \in [RefClients -> SUBSET Bodies]

\* What the loop relies on: the digests it has yet to visit are recorded,
\* and the record it has read has its blob stored.
RefLocals ==
    \A q \in RefClients :
        /\ rpc[q] # "idle" =>
              /\ rrepo[q] \in Repos
              /\ \A d \in todo[q] : store[rrepo[q]][d] # Nil
        /\ rpc[q] = "blob" =>
              /\ rec[q] \in Records
              /\ cur[q] \in Bodies
              /\ <<rrepo[q], rec[q].digest>> \in blobs

RefInv == RefTypeOK /\ RefLocals

(***************************************************************************)
(* No step of the manifest endpoint removes a reference or a blob.         *)
(***************************************************************************)
LEMMA StoresGrow ==
    ASSUME TOK, [Next]_vars
    PROVE  Grows /\ blobs \subseteq blobs'
<1>1. CASE UNCHANGED <<store, blobs>>
  BY <1>1 DEF Grows
<1>2. ASSUME NEW c \in Clients, PutBlob(c) PROVE Grows /\ blobs \subseteq blobs'
  BY <1>2 DEF PutBlob, Finish, Grows
<1>3. ASSUME NEW c \in Clients, PutTx(c) PROVE Grows /\ blobs \subseteq blobs'
  <2> DEFINE m == [digest |-> digest[c], ctype |-> ctype[c],
                   deps |-> DepsOf(digest[c], ctype[c])]
  <2>1. pc[c] = "put_tx" /\ UNCHANGED blobs
    BY <1>3 DEF PutTx
  <2>2. repo[c] \in Repos /\ digest[c] \in Bodies /\ target[c] \in Refs
        /\ ctype[c] \in ContentTypes
    BY <2>1 DEF TOK, LocalsOK
  <2>3. m \in Records
    BY <2>2, DepsType DEF Records
  <2>4. CASE Commit(repo[c], digest[c], target[c], m)
    BY <2>1, <2>2, <2>3, <2>4, CommitEffect DEF TOK, Refs
  <2>5. QED
    BY <1>1, <1>3, <2>4 DEF PutTx, Commit
<1>4. QED
  BY <1>1, <1>2, <1>3
     DEF Next, vars, HandleUnknownMethod, HandleAuthzError, HandleGet,
         HandleHead, ReadManifest, HandlePut, GetBlob, HeadStat

(***************************************************************************)
(* A step of the manifest endpoint keeps RefInv: it leaves the referrers   *)
(* goroutines alone and only adds references and blobs.                    *)
(***************************************************************************)
LEMMA EndpointStepRefInv ==
    ASSUME IInv, RefInv, [Next]_vars, UNCHANGED refvars
    PROVE  RefInv'
<1>1. Grows /\ blobs \subseteq blobs'
  BY StoresGrow DEF IInv, TOK
<1>2. RefTypeOK'
  BY DEF RefInv, RefTypeOK, refvars
<1>3. ASSUME NEW q \in RefClients, rpc[q] # "idle", NEW d \in todo[q]
      PROVE  store'[rrepo[q]][d] # Nil
  <2>1. rrepo[q] \in Repos /\ d \in Refs /\ store[rrepo[q]][d] # Nil
    BY <1>3 DEF RefInv, RefLocals, RefTypeOK, Refs
  <2>2. QED
    BY <1>1, <2>1 DEF Grows
<1>4. RefLocals'
  BY <1>1, <1>3 DEF RefInv, RefLocals, refvars
<1>5. QED
  BY <1>2, <1>4 DEF RefInv

(***************************************************************************)
(* The return of a referrers request keeps RefInv.                         *)
(***************************************************************************)
LEMMA RefFinishInv ==
    ASSUME RefInv, NEW q \in RefClients, RefFinish(q), UNCHANGED vars
    PROVE  RefInv'
<1>1. RefTypeOK'
  BY DEF RefInv, RefTypeOK, RefFinish, RPCs
<1>2. /\ rpc'[q] = "idle" /\ held'[q] = {}
      /\ \A x \in RefClients \ {q} :
            /\ rpc'[x] = rpc[x] /\ rrepo'[x] = rrepo[x] /\ todo'[x] = todo[x]
            /\ rec'[x] = rec[x] /\ cur'[x] = cur[x] /\ held'[x] = held[x]
  BY DEF RefInv, RefTypeOK, RefFinish
<1>3. QED
  BY <1>1, <1>2 DEF RefInv, RefLocals, vars

(***************************************************************************)
(* ListDigests starts the loop with recorded digests only.                 *)
(***************************************************************************)
LEMMA RefListInv ==
    ASSUME RefInv, NEW q \in RefClients, RefList(q)
    PROVE  RefInv'
<1>1. PICK r \in Repos, t \in Bodies :
             /\ rpc' = [rpc EXCEPT ![q] = "loop"]
             /\ rrepo' = [rrepo EXCEPT ![q] = r]
             /\ rtarget' = [rtarget EXCEPT ![q] = t]
             /\ todo' = [todo EXCEPT ![q] = ListDigests(r)]
             /\ pre' = [pre EXCEPT ![q] = {d \in Bodies : ReferrerOf(r, d, t)}]
  BY DEF RefList
<1>2. rpc[q] = "idle" /\ UNCHANGED <<vars, cur, rec, found, held>>
  BY DEF RefList
<1>3. RefTypeOK'
  BY <1>1, <1>2 DEF RefInv, RefTypeOK, RPCs, ListDigests
<1>4. /\ rpc'[q] = "loop" /\ rrepo'[q] = r /\ todo'[q] = ListDigests(r)
      /\ \A x \in RefClients \ {q} :
            /\ rpc'[x] = rpc[x] /\ rrepo'[x] = rrepo[x] /\ todo'[x] = todo[x]
  BY <1>1 DEF RefInv, RefTypeOK
<1>5. RefLocals'
  BY <1>2, <1>4 DEF RefInv, RefLocals, ListDigests, vars
<1>6. QED
  BY <1>3, <1>5 DEF RefInv

(***************************************************************************)
(* The Get of a listed digest returns a record whose blob is stored: the   *)
(* digest was recorded at the listing, and a record is never made before   *)
(* its blob nor removed.                                                   *)
(***************************************************************************)
LEMMA RefGetInv ==
    ASSUME IInv, RefInv, NEW q \in RefClients, RefGet(q)
    PROVE  RefInv'
<1>1. rpc[q] = "loop" /\ UNCHANGED vars
  BY DEF RefGet
<1>2. PICK d \in todo[q] :
             \/ RefFinish(q)
             \/ /\ rpc' = [rpc EXCEPT ![q] = "blob"]
                /\ todo' = [todo EXCEPT ![q] = @ \ {d}]
                /\ cur' = [cur EXCEPT ![q] = d]
                /\ rec' = [rec EXCEPT ![q] = store[rrepo[q]][d]]
                /\ UNCHANGED <<rrepo, rtarget, found, held, pre>>
  BY DEF RefGet
<1>3. CASE RefFinish(q)
  BY <1>1, <1>3, RefFinishInv
<1>4. CASE /\ rpc' = [rpc EXCEPT ![q] = "blob"]
           /\ todo' = [todo EXCEPT ![q] = @ \ {d}]
           /\ cur' = [cur EXCEPT ![q] = d]
           /\ rec' = [rec EXCEPT ![q] = store[rrepo[q]][d]]
           /\ UNCHANGED <<rrepo, rtarget, found, held, pre>>
  <2>1. rrepo[q] \in Repos /\ d \in Bodies /\ store[rrepo[q]][d] # Nil
    BY <1>1 DEF RefInv, RefLocals, RefTypeOK
  <2>2. store[rrepo[q]][d] \in Records
    BY <2>1 DEF IInv, TypeOK, Refs
  <2>3. <<rrepo[q], store[rrepo[q]][d].digest>> \in blobs
    BY <2>1 DEF IInv, BlobBeforeRecord, Refs
  <2>4. RefTypeOK'
    BY <1>4, <2>1, <2>2 DEF RefInv, RefTypeOK, RPCs
  <2>5. /\ rpc'[q] = "blob" /\ rec'[q] = store[rrepo[q]][d] /\ cur'[q] = d
        /\ todo'[q] \subseteq todo[q]
        /\ \A x \in RefClients \ {q} :
              /\ rpc'[x] = rpc[x] /\ todo'[x] = todo[x]
              /\ rec'[x] = rec[x] /\ cur'[x] = cur[x]
    BY <1>4 DEF RefInv, RefTypeOK
  <2>6. RefLocals'
    <3> SUFFICES ASSUME NEW x \in RefClients
                 PROVE  /\ rpc'[x] # "idle" =>
                              /\ rrepo'[x] \in Repos
                              /\ \A e \in todo'[x] : store'[rrepo'[x]][e] # Nil
                        /\ rpc'[x] = "blob" =>
                              /\ rec'[x] \in Records
                              /\ cur'[x] \in Bodies
                              /\ <<rrepo'[x], rec'[x].digest>> \in blobs'
      BY DEF RefLocals
    <3>1. rrepo' = rrepo /\ store' = store /\ blobs' = blobs
      BY <1>1, <1>4 DEF vars
    <3>2. CASE x = q
      BY <1>1, <2>1, <2>2, <2>3, <2>5, <3>1, <3>2 DEF RefInv, RefLocals
    <3>3. CASE x # q
      BY <2>5, <3>1, <3>3 DEF RefInv, RefLocals
    <3>4. QED
      BY <3>2, <3>3
  <2>7. QED
    BY <2>4, <2>6 DEF RefInv
<1>5. QED
  BY <1>2, <1>3, <1>4

(***************************************************************************)
(* The blob read either ends the request or returns to the loop with the  *)
(* reader held open.                                                       *)
(***************************************************************************)
LEMMA RefBlobInv ==
    ASSUME RefInv, NEW q \in RefClients, RefBlob(q)
    PROVE  RefInv'
<1> DEFINE b == rec[q].digest
<1>1. rpc[q] = "blob" /\ UNCHANGED vars
  BY DEF RefBlob
<1>2. CASE RefFinish(q)
  BY <1>1, <1>2, RefFinishInv
<1>3. CASE /\ rpc' = [rpc EXCEPT ![q] = "loop"]
           /\ held' = [held EXCEPT ![q] = @ \cup {b}]
           /\ found' = [found EXCEPT ![q] =
                          IF IsJson[b] /\ Subject[b] = rtarget[q]
                          THEN @ \cup {cur[q]} ELSE @]
           /\ UNCHANGED <<rrepo, rtarget, todo, cur, rec, pre>>
  <2>1. b \in Bodies /\ cur[q] \in Bodies
    BY <1>1 DEF RefInv, RefLocals, Records
  <2>2. RefTypeOK'
    BY <1>3, <2>1 DEF RefInv, RefTypeOK, RPCs
  <2>3. /\ rpc'[q] = "loop"
        /\ \A x \in RefClients \ {q} : rpc'[x] = rpc[x] /\ held'[x] = held[x]
    BY <1>3 DEF RefInv, RefTypeOK
  <2>4. RefLocals'
    BY <1>1, <1>3, <2>3 DEF RefInv, RefLocals, vars
  <2>5. QED
    BY <2>2, <2>4 DEF RefInv
<1>4. QED
  BY <1>2, <1>3 DEF RefBlob

(***************************************************************************)
(* The inductive invariant of the composed system: Registry's IInv and     *)
(* RefInv together.                                                        *)
(***************************************************************************)
LEMMA RefInvStep ==
    IInv /\ RefInv /\ [RNext]_rvars => IInv' /\ RefInv'
<1> SUFFICES ASSUME IInv, RefInv, [RNext]_rvars PROVE IInv' /\ RefInv'
  OBVIOUS
<1>1. CASE Next /\ UNCHANGED refvars
  BY <1>1, InvStep, EndpointStepRefInv
<1>2. ASSUME NEW q \in RefClients, RefNext(q) PROVE IInv' /\ RefInv'
  <2>1. UNCHANGED vars
    BY <1>2 DEF RefNext, RefRejected, RefList, RefGet, RefBlob, RefRespond
  <2>2. IInv'
    BY <2>1, InvStep
  <2>3. CASE RefRejected(q) \/ RefRespond(q)
    BY <2>2, <2>3, RefFinishInv DEF RefRejected, RefRespond
  <2>4. QED
    BY <1>2, <2>2, <2>3, RefListInv, RefGetInv, RefBlobInv DEF RefNext
<1>3. CASE UNCHANGED rvars
  BY <1>3, InvStep, EndpointStepRefInv DEF rvars
<1>4. QED
  BY <1>1, <1>2, <1>3 DEF RNext

(***************************************************************************)
(* The blob read of the referrers loop never fails for want of the blob,   *)
(* whatever PUTs commit while the loop runs, for any number of goroutines, *)
(* repositories and manifests.                                             *)
(***************************************************************************)
THEOREM ReferrersSafe == RSpec => []ReferrersFindBlob
<1>1. RInit => IInv /\ RefInv
  <2>1. RInit => IInv
    BY DEF RInit, Init, IInv, TypeOK, LocalsOK, PCs, BlobBeforeRecord,
           PendingPutReady, ReaderDigestRecorded, ReaderFindsBlob,
           DigestAliasRecorded, IndexClosure
  <2>2. RInit => RefInv
    BY DEF RInit, RefInv, RefTypeOK, RefLocals, RPCs
  <2>3. QED
    BY <2>1, <2>2
<1>2. IInv /\ RefInv => ReferrersFindBlob
  BY DEF RefInv, RefLocals, ReferrersFindBlob
<1>3. QED
  BY <1>1, <1>2, RefInvStep, PTL DEF RSpec

(***************************************************************************)
(* Seen from the stores and the manifest goroutines, a step of the         *)
(* composed system is a step of the manifest endpoint or a stutter:        *)
(* handleReferrers never writes a reference or a blob.                     *)
(***************************************************************************)
LEMMA EndpointView == [RNext]_rvars => [Next]_vars
<1> SUFFICES ASSUME [RNext]_rvars PROVE [Next]_vars
  OBVIOUS
<1>1. ASSUME NEW q \in RefClients, RefNext(q) PROVE UNCHANGED vars
  BY <1>1 DEF RefNext, RefRejected, RefList, RefGet, RefBlob, RefRespond
<1>2. QED
  BY <1>1 DEF RNext, rvars

\* The composed system runs the manifest endpoint's specification.
THEOREM ComposedImpliesEndpoint == RSpec => Spec
<1>1. RInit => Init
  BY DEF RInit
<1>2. QED
  BY <1>1, EndpointView, PTL DEF RSpec, Spec

(***************************************************************************)
(* With referrers requests running beside GETs, HEADs and PUTs, the stores *)
(* still change only as the atomic specification RegistryAbstract allows,  *)
(* and the endpoint's inductive invariant still holds.                     *)
(***************************************************************************)
THEOREM ComposedRefinement == RSpec => AbstractSpec /\ []IInv
BY ComposedImpliesEndpoint, Refinement, InvariantHolds, PTL

=============================================================================
