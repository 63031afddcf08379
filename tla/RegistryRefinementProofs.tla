---------------------- MODULE RegistryRefinementProofs ----------------------
(***************************************************************************)
(* Proof that the concurrent manifest endpoint (Registry) implements the   *)
(* atomic specification RegistryAbstract under the identity mapping of     *)
(* store and blobs, for all constants satisfying ConstantsAssumption.      *)
(***************************************************************************)
EXTENDS RegistryProofs

\* A PUT past its checks carries a body and content type handlePut accepts.
PutChecked ==
    \A c \in Clients :
        pc[c] \in {"put_blob", "put_tx"} => <<digest[c], ctype[c]>> \in AcceptedPuts

RInv == TOK /\ PutChecked

(***************************************************************************)
(* The body and content type a PUT was checked with stay accepted until    *)
(* its transaction: nothing changes them between the checks and commit.    *)
(***************************************************************************)
LEMMA PutCheckedStep == RInv /\ [Next]_vars => RInv'
<1> SUFFICES ASSUME RInv, [Next]_vars PROVE RInv'
  OBVIOUS
<1>0. TOK'
  BY TypeStep DEF RInv
<1> SUFFICES PutChecked'
  BY <1>0 DEF RInv
\* Requests that end, or go on to a GET or HEAD state, leave no new PUT.
<1>1. ASSUME NEW c \in Clients,
             /\ pc'[c] \notin {"put_blob", "put_tx"}
             /\ \A x \in Clients \ {c} :
                  pc'[x] = pc[x] /\ digest'[x] = digest[x] /\ ctype'[x] = ctype[x]
      PROVE  PutChecked'
  BY <1>1 DEF RInv, PutChecked
<1>2. ASSUME NEW c \in Clients, Finish(c) PROVE PutChecked'
  <2>1. pc'[c] = "idle"
    BY <1>2 DEF Finish, RInv, TOK, TypeOK
  <2>2. \A x \in Clients \ {c} :
          pc'[x] = pc[x] /\ digest'[x] = digest[x] /\ ctype'[x] = ctype[x]
    BY <1>2 DEF Finish
  <2>3. QED
    BY <1>1, <2>1, <2>2
<1>3. ASSUME NEW c \in Clients, NEW to \in {"get_blob", "head_stat"},
             ReadManifest(c, to)
      PROVE  PutChecked'
  <2>1. PICK r \in Repos, t \in Refs :
               \/ Finish(c)
               \/ Continue(c, to, r, t, store[r][t].digest, Nil)
    BY <1>3 DEF ReadManifest
  <2>2. CASE Continue(c, to, r, t, store[r][t].digest, Nil)
    <3>1. pc'[c] = to
      BY <2>2 DEF Continue, RInv, TOK, TypeOK
    <3>2. \A x \in Clients \ {c} :
            pc'[x] = pc[x] /\ digest'[x] = digest[x] /\ ctype'[x] = ctype[x]
      BY <2>2 DEF Continue
    <3>3. QED
      BY <1>1, <3>1, <3>2
  <2>3. QED
    BY <1>2, <2>1, <2>2
<1>4. ASSUME NEW c \in Clients, HandlePut(c) PROVE PutChecked'
  <2>1. PICK r \in Repos, t \in Refs, b \in Bodies, ct \in ContentTypes :
               \/ Finish(c)
               \/ /\ ~ParseFails(b, ct) /\ ~Incompatible(b)
                  /\ Continue(c, "put_blob", r, t, b, ct)
    BY <1>4 DEF HandlePut
  <2>2. CASE ~ParseFails(b, ct) /\ ~Incompatible(b)
             /\ Continue(c, "put_blob", r, t, b, ct)
    <3>1. <<b, ct>> \in AcceptedPuts
      BY <2>2 DEF AcceptedPuts
    <3>2. digest'[c] = b /\ ctype'[c] = ct
      BY <2>2 DEF Continue, RInv, TOK, TypeOK
    <3>3. \A x \in Clients \ {c} :
            pc'[x] = pc[x] /\ digest'[x] = digest[x] /\ ctype'[x] = ctype[x]
      BY <2>2 DEF Continue
    <3>4. QED
      BY <3>1, <3>2, <3>3 DEF RInv, PutChecked
  <2>3. QED
    BY <1>2, <2>1, <2>2
<1>5. ASSUME NEW c \in Clients, PutBlob(c) PROVE PutChecked'
  <2>1. CASE pc' = [pc EXCEPT ![c] = "put_tx"] /\ UNCHANGED local
    <3>1. pc[c] = "put_blob"
      BY <1>5 DEF PutBlob
    <3>2. \A x \in Clients : pc'[x] \in {"put_blob", "put_tx"} =>
                               pc[x] \in {"put_blob", "put_tx"}
      BY <2>1, <3>1 DEF RInv, TOK, TypeOK
    <3>3. QED
      BY <2>1, <3>2 DEF RInv, PutChecked, local
  <2>2. QED
    BY <1>5, <1>2, <2>1 DEF PutBlob
<1>6. CASE UNCHANGED vars
  BY <1>6 DEF vars, local, RInv, PutChecked
<1>7. QED
  BY <1>2, <1>3, <1>4, <1>5, <1>6
     DEF Next, HandleUnknownMethod, HandleAuthzError, HandleGet, HandleHead,
         GetBlob, HeadStat, PutTx

-----------------------------------------------------------------------------
(***************************************************************************)
(* Every step of the detailed endpoint is a step of the abstract one or    *)
(* leaves both stores unchanged.                                           *)
(***************************************************************************)
LEMMA StepRefines ==
    IInv /\ RInv /\ [Next]_vars => [Abstract!Next]_(Abstract!avars)
<1> SUFFICES ASSUME IInv, RInv, [Next]_vars
             PROVE  [Abstract!Next]_(Abstract!avars)
  OBVIOUS
\* A step that leaves the stores alone is an abstract stutter.
<1>1. CASE UNCHANGED <<store, blobs>>
  BY <1>1 DEF Abstract!avars
<1>2. ASSUME NEW c \in Clients, PutBlob(c) PROVE [Abstract!Next]_(Abstract!avars)
  <2>1. CASE /\ CanPut
             /\ blobs' = blobs \cup {<<repo[c], digest[c]>>}
             /\ pc' = [pc EXCEPT ![c] = "put_tx"]
             /\ UNCHANGED local
             /\ UNCHANGED store
    <3>1. pc[c] = "put_blob"
      BY <1>2 DEF PutBlob
    <3>2. repo[c] \in Repos /\ digest[c] \in Bodies /\ ctype[c] \in ContentTypes
      BY <3>1 DEF IInv, LocalsOK
    <3>3. <<digest[c], ctype[c]>> \in AcceptedPuts
      BY <3>1 DEF RInv, PutChecked
    <3>4. Abstract!StoreBlob(repo[c], digest[c])
      BY <2>1, <3>2, <3>3 DEF Abstract!StoreBlob
    <3>5. QED
      BY <3>2, <3>4 DEF Abstract!Next
  <2>2. QED
    BY <1>1, <1>2, <2>1 DEF PutBlob, Finish
<1>3. ASSUME NEW c \in Clients, PutTx(c) PROVE [Abstract!Next]_(Abstract!avars)
  <2> DEFINE r == repo[c]
             d == digest[c]
             t == target[c]
             ct == ctype[c]
             m == [digest |-> d, ctype |-> ct, deps |-> DepsOf(d, ct)]
  <2>1. pc[c] = "put_tx" /\ UNCHANGED blobs
    BY <1>3 DEF PutTx
  <2>2. CASE store' = [store EXCEPT ![r] = [@ EXCEPT ![d] = m, ![t] = m]]
    <3>1. r \in Repos /\ d \in Bodies /\ t \in Refs /\ ct \in ContentTypes
      BY <2>1 DEF IInv, LocalsOK
    <3>2. <<d, ct>> \in AcceptedPuts
      BY <2>1 DEF RInv, PutChecked
    <3>3. <<r, d>> \in blobs
      BY <2>1 DEF IInv, PendingPutReady
    <3>4. \A ch \in RequiredChildren[d, ct] : store[r][ch] # Nil
      <4>1. ct = "index" => \A ch \in CheckedChildren(d) : store[r][ch] # Nil
        BY <2>1 DEF IInv, PendingPutReady
      <4>2. QED
        BY <3>1, <4>1 DEF RequiredChildren
    <3>5. DepsTable[d, ct] = DepsOf(d, ct)
      BY <3>1 DEF DepsTable
    <3>6. Abstract!Record(r, t, d, ct)
      BY <2>1, <2>2, <3>2, <3>3, <3>4, <3>5 DEF Abstract!Record
    <3>7. QED
      BY <3>1, <3>6 DEF Abstract!Next
  <2>3. QED
    BY <1>1, <1>3, <2>2 DEF PutTx
<1>4. ASSUME NEW c \in Clients,
             \/ HandleUnknownMethod(c) \/ HandleAuthzError(c)
             \/ HandleGet(c) \/ HandleHead(c) \/ HandlePut(c)
             \/ GetBlob(c) \/ HeadStat(c)
      PROVE  UNCHANGED <<store, blobs>>
  BY <1>4 DEF HandleUnknownMethod, HandleAuthzError, HandleGet, HandleHead,
              ReadManifest, HandlePut, GetBlob, HeadStat
<1>5. CASE UNCHANGED vars
  BY <1>1, <1>5 DEF vars
<1>6. QED
  BY <1>1, <1>2, <1>3, <1>4, <1>5 DEF Next

(***************************************************************************)
(* Refinement: every behaviour of the concurrent manifest endpoint, with   *)
(* its blob Puts and transactions interleaved with other requests, is a    *)
(* behaviour of the atomic specification: the stores change only by       *)
(* storing an accepted body's blob or by recording an accepted manifest    *)
(* whose blob and sub-manifests are present when the transaction commits.  *)
(***************************************************************************)
THEOREM Refinement == Spec => AbstractSpec
<1>1. Init => Abstract!Init
  BY DEF Init, Abstract!Init
<1>2. Init => RInv
  BY DEF Init, RInv, TOK, TypeOK, LocalsOK, PCs, PutChecked
<1>3. Spec => []RInv
  BY <1>2, PutCheckedStep, PTL DEF Spec
<1>4. QED
  BY <1>1, <1>3, InvariantHolds, StepRefines, PTL
     DEF Spec, AbstractSpec, Abstract!Spec

=============================================================================
