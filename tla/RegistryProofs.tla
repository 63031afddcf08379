--------------------------- MODULE RegistryProofs ---------------------------
(***************************************************************************)
(* Proofs about the manifest endpoint (Registry), for all values of the    *)
(* constants that satisfy ConstantsAssumption.                             *)
(***************************************************************************)
EXTENDS Registry, TLAPS

USE ConstantsAssumption

\* The type invariant together with the shape of the request-local state.
TOK == TypeOK /\ LocalsOK

(***************************************************************************)
(* The deps handlePut records are manifest digests.                        *)
(***************************************************************************)
LEMMA ChildrenType ==
    \A b \in Bodies : CheckedChildren(b) \subseteq Bodies
BY DEF CheckedChildren

LEMMA DepsType ==
    ASSUME NEW b \in Bodies, NEW ct \in ContentTypes
    PROVE  DepsOf(b, ct) \subseteq Bodies
<1>1. ImageDeps(b) \subseteq Bodies
  BY DEF ImageDeps
<1>2. QED
  BY <1>1, ChildrenType DEF DepsOf

(***************************************************************************)
(* Finish and Continue keep the request-local variables typed.             *)
(***************************************************************************)
LEMMA FinishType ==
    ASSUME TOK, NEW c \in Clients, Finish(c), UNCHANGED <<store, blobs>>
    PROVE  TOK'
BY DEF TOK, TypeOK, LocalsOK, Finish, PCs

(***************************************************************************)
(* Every step keeps TypeOK and the shape of the request-local state.       *)
(***************************************************************************)
LEMMA TypeStep == TOK /\ [Next]_vars => TOK'
<1> SUFFICES ASSUME TOK, [Next]_vars PROVE TOK'
  OBVIOUS
<1>1. ASSUME NEW c \in Clients, HandleUnknownMethod(c) PROVE TOK'
  BY <1>1, FinishType DEF HandleUnknownMethod
<1>2. ASSUME NEW c \in Clients, HandleAuthzError(c) PROVE TOK'
  BY <1>2, FinishType DEF HandleAuthzError
<1>3. ASSUME NEW c \in Clients, NEW to \in {"get_blob", "head_stat"},
             ReadManifest(c, to)
      PROVE  TOK'
  <2>1. PICK r \in Repos, t \in Refs :
               \/ ~NameKnown(r) /\ Finish(c)
               \/ NameKnown(r) /\ store[r][t] = Nil /\ Finish(c)
               \/ store[r][t] # Nil /\ Continue(c, to, r, t, store[r][t].digest, Nil)
    BY <1>3 DEF ReadManifest
  <2>2. UNCHANGED <<store, blobs>>
    BY <1>3 DEF ReadManifest
  <2>3. CASE Finish(c)
    BY <2>2, <2>3, FinishType
  <2>4. CASE store[r][t] # Nil /\ Continue(c, to, r, t, store[r][t].digest, Nil)
    <3>1. store[r][t] \in Records
      BY <2>4 DEF TOK, TypeOK
    <3>2. store[r][t].digest \in Bodies
      BY <3>1 DEF Records
    <3>3. QED
      BY <2>2, <2>4, <3>2 DEF TOK, TypeOK, LocalsOK, Continue, PCs
  <2>5. QED
    BY <2>1, <2>3, <2>4
<1>4. ASSUME NEW c \in Clients, HandlePut(c) PROVE TOK'
  <2>1. PICK r \in Repos, t \in Refs, b \in Bodies, ct \in ContentTypes :
               \/ Finish(c)
               \/ Continue(c, "put_blob", r, t, b, ct)
    BY <1>4 DEF HandlePut
  <2>2. UNCHANGED <<store, blobs>>
    BY <1>4 DEF HandlePut
  <2>3. CASE Finish(c)
    BY <2>2, <2>3, FinishType
  <2>4. CASE Continue(c, "put_blob", r, t, b, ct)
    BY <2>2, <2>4 DEF TOK, TypeOK, LocalsOK, Continue, PCs
  <2>5. QED
    BY <2>1, <2>3, <2>4
<1>5. ASSUME NEW c \in Clients, GetBlob(c) \/ HeadStat(c) PROVE TOK'
  BY <1>5, FinishType DEF GetBlob, HeadStat
<1>6. ASSUME NEW c \in Clients, PutBlob(c) PROVE TOK'
  <2>1. CASE Finish(c) /\ UNCHANGED <<store, blobs>>
    BY <2>1, FinishType
  <2>2. CASE /\ blobs' = blobs \cup {<<repo[c], digest[c]>>}
             /\ pc' = [pc EXCEPT ![c] = "put_tx"]
             /\ UNCHANGED <<local, store>>
    <3>1. pc[c] = "put_blob"
      BY <1>6 DEF PutBlob
    <3>2. repo[c] \in Repos /\ digest[c] \in Bodies /\ ctype[c] \in ContentTypes
      BY <3>1 DEF TOK, LocalsOK
    <3>3. QED
      BY <2>2, <3>1, <3>2 DEF TOK, TypeOK, LocalsOK, local, PCs
  <2>3. QED
    BY <1>6, <2>1, <2>2 DEF PutBlob
<1>7. ASSUME NEW c \in Clients, PutTx(c) PROVE TOK'
  <2> DEFINE r == repo[c]
             m == [digest |-> digest[c], ctype |-> ctype[c],
                   deps |-> DepsOf(digest[c], ctype[c])]
  <2>1. pc[c] = "put_tx" /\ Finish(c) /\ UNCHANGED blobs
    BY <1>7 DEF PutTx
  <2>2. r \in Repos /\ digest[c] \in Bodies /\ ctype[c] \in ContentTypes
    BY <2>1 DEF TOK, LocalsOK
  <2>3. m \in Records
    BY <2>2, DepsType DEF Records
  <2>4. CASE store' = [store EXCEPT ![r] = [@ EXCEPT ![digest[c]] = m,
                                                   ![target[c]] = m]]
    <3>1. store' \in [Repos -> [Refs -> Records \cup {Nil}]]
      BY <2>2, <2>3, <2>4 DEF TOK, TypeOK, LocalsOK, Refs
    <3>2. TOK /\ Finish(c) /\ UNCHANGED blobs
      BY <2>1
    <3>3. QED
      BY <3>1, <3>2 DEF TOK, TypeOK, LocalsOK, Finish, PCs
  <2>5. CASE UNCHANGED store
    BY <2>1, <2>5, FinishType
  <2>6. QED
    BY <1>7, <2>4, <2>5 DEF PutTx
<1>8. CASE UNCHANGED vars
  BY <1>8 DEF vars, local, TOK, TypeOK, LocalsOK
<1>9. QED
  BY <1>1, <1>2, <1>3, <1>4, <1>5, <1>6, <1>7, <1>8
     DEF Next, HandleGet, HandleHead

(***************************************************************************)
(* Type correctness: every reachable state satisfies TypeOK.               *)
(***************************************************************************)
THEOREM TypeCorrect == Spec => []TypeOK
<1>1. Init => TOK
  BY DEF Init, TOK, TypeOK, LocalsOK, PCs
<1>2. TOK => TypeOK
  BY DEF TOK
<1>3. QED
  BY <1>1, <1>2, TypeStep, PTL DEF Spec

-----------------------------------------------------------------------------
(***************************************************************************)
(* No step removes a reference: delete is disabled and a committed         *)
(* transaction only sets references.                                       *)
(***************************************************************************)
Grows ==
    \A r \in Repos, k \in Refs : store[r][k] # Nil => store'[r][k] # Nil

\* The commit of PutTx: both references of repository r set to m.
Commit(r, d, t, m) ==
    store' = [store EXCEPT ![r] = [@ EXCEPT ![d] = m, ![t] = m]]

LEMMA CommitEffect ==
    ASSUME TypeOK, NEW r \in Repos, NEW d \in Refs, NEW t \in Refs,
           NEW m \in Records, Commit(r, d, t, m)
    PROVE  /\ store'[r][d] = m
           /\ store'[r][t] = m
           /\ \A r2 \in Repos, k \in Refs :
                 (r2 # r \/ k \notin {d, t}) => store'[r2][k] = store[r2][k]
           /\ Grows
BY DEF Commit, Grows, TypeOK

(***************************************************************************)
(* A step that ends a request without touching the stores keeps IInv.      *)
(***************************************************************************)
LEMMA FinishInv ==
    ASSUME IInv, NEW c \in Clients, Finish(c), UNCHANGED <<store, blobs>>
    PROVE  IInv'
<1>1. TOK'
  BY FinishType DEF IInv, TOK
<1>2. pc'[c] = "idle" /\ \A x \in Clients \ {c} :
        /\ pc'[x] = pc[x] /\ repo'[x] = repo[x]
        /\ digest'[x] = digest[x] /\ ctype'[x] = ctype[x]
  BY DEF Finish, IInv, TypeOK
<1>3. QED
  BY <1>1, <1>2 DEF IInv, TOK, BlobBeforeRecord, PendingPutReady,
                    ReaderDigestRecorded, ReaderFindsBlob,
                    DigestAliasRecorded, IndexClosure

(***************************************************************************)
(* Every step of the endpoint keeps IInv.                                  *)
(***************************************************************************)
LEMMA InvStep == IInv /\ [Next]_vars => IInv'
<1> SUFFICES ASSUME IInv, [Next]_vars PROVE IInv'
  OBVIOUS
<1>0. TOK'
  BY TypeStep DEF IInv, TOK
<1>1. ASSUME NEW c \in Clients,
             HandleUnknownMethod(c) \/ HandleAuthzError(c) \/ GetBlob(c)
             \/ HeadStat(c)
      PROVE  IInv'
  BY <1>1, FinishInv DEF HandleUnknownMethod, HandleAuthzError, GetBlob,
                         HeadStat
<1>2. ASSUME NEW c \in Clients, NEW to \in {"get_blob", "head_stat"},
             ReadManifest(c, to)
      PROVE  IInv'
  <2>1. PICK r \in Repos, t \in Refs :
               \/ Finish(c)
               \/ store[r][t] # Nil /\ Continue(c, to, r, t, store[r][t].digest, Nil)
    BY <1>2 DEF ReadManifest
  <2>2. UNCHANGED <<store, blobs>>
    BY <1>2 DEF ReadManifest
  <2>3. CASE Finish(c)
    BY <2>2, <2>3, FinishInv
  <2>4. CASE store[r][t] # Nil /\ Continue(c, to, r, t, store[r][t].digest, Nil)
    <3> DEFINE d == store[r][t].digest
    <3>1. d \in Bodies /\ store[r][d] # Nil /\ <<r, d>> \in blobs
      BY <2>4 DEF IInv, TypeOK, Records, DigestAliasRecorded, BlobBeforeRecord
    <3>2. /\ pc'[c] = to /\ repo'[c] = r /\ digest'[c] = d
          /\ \A x \in Clients \ {c} :
               /\ pc'[x] = pc[x] /\ repo'[x] = repo[x]
               /\ digest'[x] = digest[x] /\ ctype'[x] = ctype[x]
      BY <2>4 DEF Continue, IInv, TypeOK
    <3>3. BlobBeforeRecord' /\ DigestAliasRecorded' /\ IndexClosure'
      BY <2>2 DEF IInv, BlobBeforeRecord, DigestAliasRecorded, IndexClosure
    <3>4. PendingPutReady'
      BY <2>2, <3>2 DEF IInv, PendingPutReady
    <3>5. ReaderDigestRecorded' /\ ReaderFindsBlob'
      BY <2>2, <3>1, <3>2 DEF IInv, ReaderDigestRecorded, ReaderFindsBlob
    <3>6. QED
      BY <1>0, <3>3, <3>4, <3>5 DEF IInv, TOK
  <2>5. QED
    BY <2>1, <2>3, <2>4
<1>3. ASSUME NEW c \in Clients, HandlePut(c) PROVE IInv'
  <2>1. PICK r \in Repos, t \in Refs, b \in Bodies, ct \in ContentTypes :
               \/ Finish(c)
               \/ ~MissingChild(r, b, ct) /\ Continue(c, "put_blob", r, t, b, ct)
    BY <1>3 DEF HandlePut
  <2>2. UNCHANGED <<store, blobs>>
    BY <1>3 DEF HandlePut
  <2>3. CASE Finish(c)
    BY <2>2, <2>3, FinishInv
  <2>4. CASE ~MissingChild(r, b, ct) /\ Continue(c, "put_blob", r, t, b, ct)
    <3>1. ct = "index" => \A ch \in CheckedChildren(b) : store[r][ch] # Nil
      BY <2>4 DEF MissingChild
    <3>2. /\ pc'[c] = "put_blob" /\ repo'[c] = r /\ digest'[c] = b
          /\ ctype'[c] = ct
          /\ \A x \in Clients \ {c} :
               /\ pc'[x] = pc[x] /\ repo'[x] = repo[x]
               /\ digest'[x] = digest[x] /\ ctype'[x] = ctype[x]
      BY <2>4 DEF Continue, IInv, TypeOK
    <3>3. PendingPutReady'
      <4> SUFFICES ASSUME NEW x \in Clients
                   PROVE  /\ pc'[x] \in {"put_blob", "put_tx"} /\ ctype'[x] = "index" =>
                               \A ch \in CheckedChildren(digest'[x]) :
                                  store'[repo'[x]][ch] # Nil
                          /\ pc'[x] = "put_tx" => <<repo'[x], digest'[x]>> \in blobs'
        BY DEF PendingPutReady
      <4>1. CASE x = c
        BY <2>2, <3>1, <3>2, <4>1
      <4>2. CASE x # c
        BY <2>2, <3>2, <4>2 DEF IInv, PendingPutReady
      <4>3. QED
        BY <4>1, <4>2
    <3>4. ReaderDigestRecorded' /\ ReaderFindsBlob'
      BY <2>2, <3>2 DEF IInv, ReaderDigestRecorded, ReaderFindsBlob
    <3>5. QED
      BY <1>0, <2>2, <3>3, <3>4
         DEF IInv, TOK, BlobBeforeRecord, DigestAliasRecorded, IndexClosure
  <2>5. QED
    BY <2>1, <2>3, <2>4
<1>4. ASSUME NEW c \in Clients, PutBlob(c) PROVE IInv'
  <2>1. CASE Finish(c) /\ UNCHANGED <<store, blobs>>
    BY <2>1, FinishInv
  <2>2. CASE /\ blobs' = blobs \cup {<<repo[c], digest[c]>>}
             /\ pc' = [pc EXCEPT ![c] = "put_tx"]
             /\ UNCHANGED <<local, store>>
    <3>1. pc[c] = "put_blob"
      BY <1>4 DEF PutBlob
    <3>2. /\ pc'[c] = "put_tx"
          /\ \A x \in Clients \ {c} : pc'[x] = pc[x]
      BY <2>2 DEF IInv, TypeOK
    <3>3. PendingPutReady'
      <4> SUFFICES ASSUME NEW x \in Clients
                   PROVE  /\ pc'[x] \in {"put_blob", "put_tx"} /\ ctype'[x] = "index" =>
                               \A ch \in CheckedChildren(digest'[x]) :
                                  store'[repo'[x]][ch] # Nil
                          /\ pc'[x] = "put_tx" => <<repo'[x], digest'[x]>> \in blobs'
        BY DEF PendingPutReady
      <4>1. CASE x = c
        BY <2>2, <3>1, <3>2, <4>1 DEF IInv, PendingPutReady, local
      <4>2. CASE x # c
        BY <2>2, <3>2, <4>2 DEF IInv, PendingPutReady, local
      <4>3. QED
        BY <4>1, <4>2
    <3>4. QED
      BY <1>0, <2>2, <3>2, <3>3
         DEF IInv, TOK, local, BlobBeforeRecord,
             ReaderDigestRecorded, ReaderFindsBlob, DigestAliasRecorded,
             IndexClosure
  <2>3. QED
    BY <1>4, <2>1, <2>2 DEF PutBlob
<1>5. ASSUME NEW c \in Clients, PutTx(c) PROVE IInv'
  <2> DEFINE r == repo[c]
             d == digest[c]
             t == target[c]
             m == [digest |-> digest[c], ctype |-> ctype[c],
                   deps |-> DepsOf(digest[c], ctype[c])]
  <2>1. pc[c] = "put_tx" /\ Finish(c) /\ UNCHANGED blobs
    BY <1>5 DEF PutTx
  <2>2. CASE UNCHANGED store
    BY <2>1, <2>2, FinishInv
  <2>3. CASE Commit(r, d, t, m)
    <3>1. r \in Repos /\ d \in Bodies /\ t \in Refs /\ ctype[c] \in ContentTypes
      BY <2>1 DEF IInv, LocalsOK
    <3>2. m \in Records
      BY <3>1, DepsType DEF Records
    <3>3. /\ store'[r][d] = m
          /\ store'[r][t] = m
          /\ \A r2 \in Repos, k \in Refs :
                (r2 # r \/ k \notin {d, t}) => store'[r2][k] = store[r2][k]
          /\ Grows
      BY <2>3, <3>1, <3>2, CommitEffect DEF IInv, Refs
    <3>4. <<r, d>> \in blobs
      BY <2>1 DEF IInv, PendingPutReady
    <3>5. ctype[c] = "index" => \A ch \in CheckedChildren(d) : store[r][ch] # Nil
      BY <2>1 DEF IInv, PendingPutReady
    <3>6. /\ pc'[c] = "idle"
          /\ \A x \in Clients \ {c} :
               /\ pc'[x] = pc[x] /\ repo'[x] = repo[x]
               /\ digest'[x] = digest[x] /\ ctype'[x] = ctype[x]
      BY <2>1 DEF Finish, IInv, TypeOK
    <3>7. m # Nil
      BY <3>2
    <3>8. BlobBeforeRecord'
      BY <2>1, <3>1, <3>3, <3>4 DEF IInv, BlobBeforeRecord
    <3>9. PendingPutReady'
      <4> SUFFICES ASSUME NEW x \in Clients \ {c}
                   PROVE  /\ pc[x] \in {"put_blob", "put_tx"} /\ ctype[x] = "index" =>
                               \A ch \in CheckedChildren(digest[x]) :
                                  store'[repo[x]][ch] # Nil
                          /\ pc[x] = "put_tx" => <<repo[x], digest[x]>> \in blobs
        BY <2>1, <3>6 DEF PendingPutReady
      <4>1. ASSUME pc[x] \in {"put_blob", "put_tx"}, ctype[x] = "index",
                   NEW ch \in CheckedChildren(digest[x])
            PROVE  store'[repo[x]][ch] # Nil
        <5>1. repo[x] \in Repos /\ digest[x] \in Bodies
          BY <4>1 DEF IInv, LocalsOK
        <5>2. ch \in Refs
          BY <5>1, ChildrenType DEF Refs
        <5>3. store[repo[x]][ch] # Nil
          BY <4>1 DEF IInv, PendingPutReady
        <5>4. QED
          BY <3>3, <5>1, <5>2, <5>3 DEF Grows
      <4>2. QED
        BY <4>1 DEF IInv, PendingPutReady
    <3>10. ReaderDigestRecorded' /\ ReaderFindsBlob'
      <4> SUFFICES ASSUME NEW x \in Clients \ {c}, pc[x] \in {"get_blob", "head_stat"}
                   PROVE  store'[repo[x]][digest[x]] # Nil /\ <<repo[x], digest[x]>> \in blobs
        BY <2>1, <3>6 DEF ReaderDigestRecorded, ReaderFindsBlob
      <4>1. repo[x] \in Repos /\ digest[x] \in Refs
        BY DEF IInv, LocalsOK, Refs
      <4>2. QED
        BY <3>3, <4>1 DEF IInv, ReaderDigestRecorded, ReaderFindsBlob, Grows
    <3>11. DigestAliasRecorded'
      <4> SUFFICES ASSUME NEW r2 \in Repos, NEW k \in Refs, store'[r2][k] # Nil
                   PROVE  store'[r2][store'[r2][k].digest] # Nil
        BY DEF DigestAliasRecorded
      <4>1. CASE r2 = r /\ k \in {d, t}
        BY <3>3, <3>7, <4>1
      <4>2. CASE r2 # r \/ k \notin {d, t}
        <5>1. store[r2][k] # Nil /\ store'[r2][k] = store[r2][k]
          BY <3>3, <4>2
        <5>2. store[r2][k].digest \in Refs
          BY <5>1 DEF IInv, TypeOK, Records, Refs
        <5>3. store[r2][store[r2][k].digest] # Nil
          BY <5>1 DEF IInv, DigestAliasRecorded
        <5>4. QED
          BY <3>3, <5>1, <5>2, <5>3 DEF Grows
      <4>3. QED
        BY <4>1, <4>2
    <3>12. IndexClosure'
      <4> SUFFICES ASSUME NEW r2 \in Repos, NEW k \in Refs, store'[r2][k] # Nil,
                          store'[r2][k].ctype = "index",
                          NEW ch \in CheckedChildren(store'[r2][k].digest)
                   PROVE  store'[r2][ch] # Nil
        BY DEF IndexClosure
      <4>1. CASE r2 = r /\ k \in {d, t}
        <5>1. ctype[c] = "index" /\ ch \in CheckedChildren(d)
          BY <3>3, <4>1
        <5>2. store[r][ch] # Nil /\ ch \in Refs
          BY <3>5, <5>1, <3>1, ChildrenType DEF Refs
        <5>3. QED
          BY <3>3, <4>1, <5>2 DEF Grows
      <4>2. CASE r2 # r \/ k \notin {d, t}
        <5>1. store[r2][k] # Nil /\ store'[r2][k] = store[r2][k]
          BY <3>3, <4>2
        <5>2. store[r2][k].digest \in Bodies
          BY <5>1 DEF IInv, TypeOK, Records
        <5>3. ch \in Refs
          BY <5>1, <5>2, ChildrenType DEF Refs
        <5>4. store[r2][k].ctype = "index" /\ ch \in CheckedChildren(store[r2][k].digest)
          BY <5>1
        <5>5. store[r2][ch] # Nil
          BY <5>1, <5>4 DEF IInv, IndexClosure
        <5>6. QED
          BY <3>3, <5>3, <5>5 DEF Grows
      <4>3. QED
        BY <4>1, <4>2
    <3>13. QED
      BY <1>0, <3>8, <3>9, <3>10, <3>11, <3>12 DEF IInv, TOK
  <2>4. QED
    BY <1>5, <2>2, <2>3 DEF PutTx, Commit
<1>6. CASE UNCHANGED vars
  BY <1>6 DEF vars, local, IInv, TOK, TypeOK, LocalsOK, BlobBeforeRecord,
              PendingPutReady, ReaderDigestRecorded, ReaderFindsBlob,
              DigestAliasRecorded, IndexClosure
<1>9. QED
  BY <1>1, <1>2, <1>3, <1>4, <1>5, <1>6 DEF Next, HandleGet, HandleHead

(***************************************************************************)
(* The main safety theorem: every reachable state satisfies IInv, and so   *)
(* the three properties the TLC run checks: readers find the blob of the   *)
(* record they read, every reference has its digest alias, and indexes     *)
(* are closed under their image and index children.                       *)
(***************************************************************************)
THEOREM InvariantHolds == Spec => []IInv
<1>1. Init => IInv
  BY DEF Init, IInv, TypeOK, LocalsOK, PCs, BlobBeforeRecord, PendingPutReady,
         ReaderDigestRecorded, ReaderFindsBlob, DigestAliasRecorded,
         IndexClosure
<1>2. IInv /\ [Next]_vars => IInv'
  BY InvStep
<1>3. QED
  BY <1>1, <1>2, PTL DEF Spec

(***************************************************************************)
(* A GET or HEAD that resolved a reference always finds the manifest's     *)
(* blob, whatever PUTs run beside it (blob Put before the transaction).    *)
(***************************************************************************)
THEOREM ReaderFindsBlobHolds == Spec => []ReaderFindsBlob
BY InvariantHolds, PTL DEF IInv

(***************************************************************************)
(* Every reference resolves to a manifest that is also recorded under its  *)
(* digest (both Puts in one transaction, nothing removed).                 *)
(***************************************************************************)
THEOREM DigestAliasHolds == Spec => []DigestAliasRecorded
BY InvariantHolds, PTL DEF IInv

(***************************************************************************)
(* Every recorded index has its image and index children recorded in its   *)
(* repository, although the lookups precede the transaction.               *)
(***************************************************************************)
THEOREM IndexClosureHolds == Spec => []IndexClosure
BY InvariantHolds, PTL DEF IInv

=============================================================================
