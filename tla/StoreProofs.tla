---------------------------- MODULE StoreProofs ----------------------------
(***************************************************************************)
(* Proofs about the Store under any client.                                *)
(***************************************************************************)
EXTENDS Store, FiniteSetTheorems, TLAPS

\* A set of domains is finite, and the batch grows by at most one.
LEMMA BatchGrowsByOne ==
    ASSUME NEW S \in SUBSET Domain, NEW d \in Domain
    PROVE  /\ Cardinality(S) \in Nat
           /\ Cardinality(S \cup {d}) \in Nat
           /\ Cardinality(S \cup {d}) <= Cardinality(S) + 1
<1>1. IsFiniteSet(S)
  BY DomainsFinite, FS_Subset
<1>2. Cardinality(S) \in Nat
  BY <1>1, FS_CardinalityType
<1>3. Cardinality(S \cup {d}) = IF d \in S THEN Cardinality(S) ELSE Cardinality(S) + 1
  BY <1>1, FS_AddElement
<1> QED
  BY <1>2, <1>3

\* The type invariant and the loss window are inductive together.
StoreInv == StoreTypeOK /\ LossWindow

LEMMA StoreInvInit == StoreInit => StoreInv
<1> SUFFICES ASSUME StoreInit PROVE StoreInv
  OBVIOUS
<1>1. NoMarks \in [File -> Status]
  BY DEF NoMarks, Status
<1>2. pending \in 0..BatchSize
  BY BatchSizeAssumption DEF StoreInit
<1>3. StoreTypeOK
  BY <1>1, <1>2 DEF StoreInit, StoreTypeOK
<1> QED
  BY <1>3 DEF StoreInit, StoreInv, LossWindow

LEMMA AddDomainKeepsInv ==
    ASSUME StoreInv, NEW d \in Domain, AddDomain(d)
    PROVE  StoreInv'
<1> DEFINE batch == txRows \cup ({d} \ rows)
           n == Batched + 1
<1>1. /\ rows \subseteq Domain /\ txRows \subseteq Domain
      /\ txRows \cap rows = {}
      /\ pending \in 0..BatchSize /\ Batched \in Nat
      /\ Cardinality(txRows) <= Batched
  <2>1. CASE txOpen
    BY <2>1 DEF StoreInv, StoreTypeOK, LossWindow, Batched
  <2>2. CASE ~txOpen
    BY <2>2, FS_EmptySet DEF StoreInv, StoreTypeOK, LossWindow, Batched
  <2> QED BY <2>1, <2>2 DEF StoreInv, StoreTypeOK
<1>2. /\ batch \subseteq Domain /\ batch \cap rows = {}
      /\ Cardinality(batch) \in Nat /\ Cardinality(batch) <= n
  <2>1. CASE d \in rows
    <3>1. {d} \ rows = {} BY <2>1
    <3>2. batch = txRows BY <3>1
    <3>3. Cardinality(txRows) \in Nat BY <1>1, BatchGrowsByOne
    <3>4. Cardinality(batch) \in Nat /\ Cardinality(batch) <= n BY <1>1, <3>2, <3>3
    <3> QED BY <1>1, <3>2, <3>4
  <2>2. CASE d \notin rows
    <3>1. batch = txRows \cup {d} BY <2>2
    <3>2. Cardinality(txRows \cup {d}) <= Cardinality(txRows) + 1
      BY <1>1, BatchGrowsByOne
    <3>3. Cardinality(txRows) \in Nat /\ Cardinality(txRows \cup {d}) \in Nat
      BY <1>1, BatchGrowsByOne
    <3>4. Cardinality(batch) <= n
      BY <1>1, <3>1, <3>2, <3>3
    <3> QED BY <1>1, <2>2, <3>1, <3>3, <3>4
  <2> QED BY <2>1, <2>2
<1>3. /\ marks' \in [File -> Status]
      /\ disk' \in [rows : SUBSET Domain, marks : [File -> Status]]
  BY DEF AddDomain, StoreInv, StoreTypeOK
<1>4. CASE n >= BatchSize
  <2>1. rows' = rows \cup batch /\ txOpen' = FALSE /\ txRows' = {} /\ pending' = 0
    BY <1>4 DEF AddDomain, DropTx
  <2>2. pending' \in 0..BatchSize
    BY <2>1, BatchSizeAssumption
  <2>3. StoreTypeOK'
    BY <1>1, <1>2, <1>3, <2>1, <2>2 DEF StoreTypeOK
  <2> QED
    BY <2>1, <2>3 DEF StoreInv, LossWindow
<1>5. CASE ~(n >= BatchSize)
  <2>1. rows' = rows /\ txOpen' = TRUE /\ txRows' = batch /\ pending' = n
    BY <1>5 DEF AddDomain
  <2>2. n \in 0..BatchSize /\ n < BatchSize
    BY <1>1, <1>5, BatchSizeAssumption
  <2>3. StoreTypeOK'
    BY <1>1, <1>2, <1>3, <2>1, <2>2 DEF StoreTypeOK
  <2>4. LossWindow'
    BY <1>2, <2>1, <2>2 DEF LossWindow
  <2> QED
    BY <2>3, <2>4 DEF StoreInv
<1> QED
  BY <1>4, <1>5

\* The bookkeeping of s.pending that the failing calls rely on.
LEMMA BatchedBelowBatchSize ==
    ASSUME StoreInv
    PROVE  Batched \in 0..BatchSize /\ Batched < BatchSize
BY BatchSizeAssumption DEF StoreInv, StoreTypeOK, LossWindow, Batched

LEMMA StoreTypeStep ==
    ASSUME StoreInv, [StoreNext]_storeVars
    PROVE  StoreTypeOK'
<1> USE DEF StoreTypeOK
<1>0. StoreTypeOK /\ 0 \in 0..BatchSize
  BY BatchSizeAssumption DEF StoreInv
<1>1. ASSUME NEW d \in Domain, AddDomain(d)
      PROVE  StoreTypeOK'
  BY <1>1, AddDomainKeepsInv DEF StoreInv
<1>2. CASE BeginFails
  BY <1>0, <1>2 DEF BeginFails, storeVars
<1>3. CASE InsertFails
  BY <1>0, <1>3, BatchedBelowBatchSize DEF InsertFails
<1>4. CASE BatchCommitFails
  <2>1. pending' \in 0..BatchSize
    BY <1>4, BatchedBelowBatchSize, BatchSizeAssumption DEF BatchCommitFails
  <2> QED BY <1>0, <1>4, <2>1 DEF BatchCommitFails
<1>5. CASE FlushCommits /\ UNCHANGED marks
  BY <1>0, <1>5 DEF FlushCommits
<1>6. CASE FlushFails /\ UNCHANGED marks
  BY <1>0, <1>6 DEF FlushFails
<1>7. ASSUME NEW f \in File, NEW s \in Status \ {"absent"}, Mark(f, s),
             FlushCommits \/ UNCHANGED <<rows, txVars, disk>>
      PROVE  StoreTypeOK'
  <2>1. marks' \in [File -> Status] BY <1>0, <1>7 DEF Mark
  <2>2. CASE FlushCommits BY <1>0, <2>1, <2>2 DEF FlushCommits
  <2>3. CASE UNCHANGED <<rows, txVars, disk>> BY <1>0, <2>1, <2>3 DEF txVars
  <2> QED BY <1>7, <2>2, <2>3
<1>8. ASSUME NEW fresh \in BOOLEAN, Open(fresh)
      PROVE  StoreTypeOK'
  <2>1. NoMarks \in [File -> Status] BY DEF NoMarks, Status
  <2>2. CASE fresh
    <3>1. /\ txOpen' = FALSE /\ txRows' = {} /\ pending' = 0
          /\ rows' = {} /\ marks' = NoMarks /\ disk' = [rows |-> {}, marks |-> NoMarks]
      BY <1>8, <2>2 DEF Open, DropTx
    <3> QED BY <1>0, <2>1, <3>1
  <2>3. CASE ~fresh BY <1>0, <1>8, <2>3 DEF Open, DropTx
  <2> QED BY <2>2, <2>3
<1>9. CASE WalSync
  BY <1>0, <1>9 DEF WalSync, txVars
<1>10. CASE LosePower
  BY <1>0, <1>10 DEF LosePower, DropTx
<1>11. CASE UNCHANGED storeVars
  BY <1>0, <1>11 DEF storeVars
<1> QED
  BY <1>1, <1>2, <1>3, <1>4, <1>5, <1>6, <1>7, <1>8, <1>9, <1>10, <1>11 DEF StoreNext

LEMMA LossWindowStep ==
    ASSUME StoreInv, [StoreNext]_storeVars
    PROVE  LossWindow'
<1> USE DEF LossWindow
<1>0. LossWindow
  BY DEF StoreInv
<1>1. ASSUME NEW d \in Domain, AddDomain(d)
      PROVE  LossWindow'
  BY <1>1, AddDomainKeepsInv DEF StoreInv
<1>2. CASE BeginFails
  BY <1>0, <1>2 DEF BeginFails, storeVars
<1>3. CASE InsertFails
  <2>1. Cardinality(txRows) <= Batched
    BY <1>0, FS_EmptySet DEF Batched
  <2>2. (txRows \cap rows = {})' /\ txOpen' /\ txRows' = txRows /\ pending' = Batched
    BY <1>0, <1>3 DEF InsertFails
  <2> QED BY <2>1, <2>2, BatchedBelowBatchSize
<1>4. CASE BatchCommitFails
  BY <1>4 DEF BatchCommitFails
<1>5. CASE FlushCommits
  BY <1>5 DEF FlushCommits
<1>6. CASE FlushFails
  BY <1>6 DEF FlushFails
<1>7. CASE UNCHANGED <<rows, txVars, disk>>
  BY <1>0, <1>7 DEF txVars
<1>8. ASSUME NEW fresh \in BOOLEAN, Open(fresh)
      PROVE  LossWindow'
  BY <1>8 DEF Open, DropTx
<1>9. CASE WalSync
  BY <1>0, <1>9 DEF WalSync, txVars
<1>10. CASE LosePower
  BY <1>10 DEF LosePower, DropTx
<1>11. CASE UNCHANGED storeVars
  BY <1>0, <1>11 DEF storeVars
<1> QED
  BY <1>1, <1>2, <1>3, <1>4, <1>5, <1>6, <1>7, <1>8, <1>9, <1>10, <1>11 DEF StoreNext

LEMMA StoreInvariance == StoreSpec => []StoreInv
<1>1. StoreInv /\ [StoreNext]_storeVars => StoreInv'
  BY StoreTypeStep, LossWindowStep DEF StoreInv
<1> QED
  BY <1>1, StoreInvInit, PTL DEF StoreSpec

\* The store's variables keep their types whatever the client does.
THEOREM StoreTypeCorrect == StoreSpec => []StoreTypeOK
<1>1. StoreInv => StoreTypeOK BY DEF StoreInv
<1> QED BY <1>1, StoreInvariance, PTL

\* Whatever the client does and whichever call fails, an open transaction holds
\* only uncommitted rows, fewer than a batch of them (AddDomain, flushLocked).
THEOREM LossWindowHolds == StoreSpec => []LossWindow
<1>1. StoreInv => LossWindow BY DEF StoreInv
<1> QED BY <1>1, StoreInvariance, PTL
=============================================================================
