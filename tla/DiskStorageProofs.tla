-------------------------- MODULE DiskStorageProofs --------------------------
(***************************************************************************)
(* Theorems about DiskStorage, for every set of keys, contents and bounds:  *)
(* type correctness, immutability of committed chunks across crashes, the   *)
(* counter and the quota, need of evictions, and metadata saved at rest.    *)
(***************************************************************************)
EXTENDS DiskStorage, FiniteSetTheorems, TLAPS

\* The expiry of a Store call is a date whatever the envelope says.
LEMMA ExpiryType ==
  ASSUME clock \in Nat, NEW b \in Blobs, NEW s \in ChunkState,
         NEW d \in EnvelopeExpiries(b)
  PROVE  ExpiresAt(s, d) \in Nat
<1>1. Hour \in Nat /\ Day \in Nat
  BY StorageAssumption
<1>2. d \in Nat
  <2>1. CASE BlobAuthor[b] = NoAuthor
    BY <2>1 DEF EnvelopeExpiries
  <2>2. CASE BlobAuthor[b] # NoAuthor
    <3>1. PICK t \in 0..clock : d = t + Day
      BY <2>2 DEF EnvelopeExpiries
    <3> QED
      BY <1>1, <3>1
  <2> QED
    BY <2>1, <2>2
<1>3. QED
  BY <1>1, <1>2 DEF ExpiresAt

\* Sizes are natural numbers, of the entries and of the data stored.
LEMMA SizeType ==
  /\ \A m \in StorageMetadata : SizeOf(m) \in Nat
  /\ \A b \in Blobs : BlobSize[b] \in Nat
BY StorageAssumption DEF SizeOf, StorageMetadata

\* No metadata map is the value that stands for a torn metadata.json.
LEMMA TornMetaIsNoMap ==
  \A m \in [Keys -> StorageMetadata \cup {NoMeta}] : m # TornMeta
BY SentinelAssumption

\* deleteKey keeps the types of the three variables it changes.
LEMMA DeleteType ==
  ASSUME TypeOK, NEW k \in Stored, deleteKey(k)
  PROVE  /\ meta' \in [Keys -> StorageMetadata \cup {NoMeta}]
         /\ file' \in [Keys -> Blobs \cup {NoFile, Torn}]
         /\ currentSize' \in Int
         /\ faults' \in Nat
<1>1. k \in Keys /\ meta[k] \in StorageMetadata
  BY DEF Stored, TypeOK
<1>2. currentSize' \in Int
  BY <1>1, SizeType DEF deleteKey, TypeOK
<1>3. QED
  BY <1>1, <1>2 DEF deleteKey, Fault, NoFault, TypeOK

\* Every variable keeps its type, faults of the disk included.
THEOREM TypeCorrect == Spec => []TypeOK
<1>1. Init => TypeOK
  <2> SUFFICES ASSUME Init PROVE TypeOK
    OBVIOUS
  <2>1. score \in [Authors -> Int] /\ clock \in Nat /\ currentSize \in Int
    BY DEF Init
  <2>2. metaFile \in [Keys -> StorageMetadata \cup {NoMeta}]
    BY DEF Init
  <2> QED
    BY <2>1, <2>2 DEF Init, TypeOK
<1>2. TypeOK /\ [Next]_vars => TypeOK'
  <2> SUFFICES ASSUME TypeOK, [Next]_vars PROVE TypeOK'
    OBVIOUS
  <2> USE DEF memory, disk, environment, history, Fault, NoFault
  <2>1. CASE Store
    <3>1. PICK k \in Keys, b \in Blobs, s0 \in StoreStates :
            \E d \in EnvelopeExpiries(b) : StoreBegin(k, b, EffectiveState(s0), d)
      BY <2>1 DEF Store
    <3>2. PICK d \in EnvelopeExpiries(b) :
            StoreBegin(k, b, EffectiveState(s0), d)
      BY <3>1
    <3> DEFINE s == EffectiveState(s0)
    <3>3. s \in ChunkState
      BY StorageAssumption DEF EffectiveState, ChunkState
    <3>4. ExpiresAt(s, d) \in Nat
      BY <3>3, ExpiryType DEF TypeOK
    <3>5. req' \in Request
      BY <3>2, <3>3, <3>4 DEF StoreBegin, Request
    <3>6. currentSize' \in Int
      BY <3>2, SizeType DEF StoreBegin, Discounted, TypeOK
    <3>7. pc' \in {"evict", "create"}
      BY <3>2 DEF StoreBegin
    <3> QED
      BY <3>2, <3>5, <3>6, <3>7, SentinelAssumption DEF StoreBegin, TypeOK
  <2>2. ASSUME NEW k \in Keys, RetrieveTouch(k) PROVE TypeOK'
    <3>1. meta[k] \in StorageMetadata
      BY <2>2 DEF RetrieveTouch, Stored, TypeOK
    <3>2. meta' \in [Keys -> StorageMetadata \cup {NoMeta}]
      BY <2>2, <3>1 DEF RetrieveTouch, TypeOK, StorageMetadata
    <3> QED
      BY <2>2, <3>2 DEF RetrieveTouch, TypeOK
  <2>3. CASE AsyncSave
    BY <2>3 DEF AsyncSave, TypeOK
  <2>4. CASE CleanBegin
    BY <2>4 DEF CleanBegin, TypeOK
  <2>5. ASSUME NEW k \in Keys, EvictNext(k) PROVE TypeOK'
    <3>1. k \in Stored /\ deleteKey(k)
      BY <2>5 DEF EvictNext, Victims
    <3>2. pc' \in {"evict", "create"}
      BY <2>5 DEF EvictNext
    <3> QED
      BY <2>5, <3>1, <3>2, DeleteType DEF EvictNext, TypeOK
  <2>6. ASSUME NEW k \in Keys, CleanNext(k) PROVE TypeOK'
    <3>1. k \in Stored /\ deleteKey(k)
      BY <2>6 DEF CleanNext, Expired
    <3>2. pc' \in {"clean", "save"}
      BY <2>6 DEF CleanNext
    <3> QED
      BY <2>6, <3>1, <3>2, DeleteType DEF CleanNext, TypeOK
  <2>7. ASSUME NEW k \in Keys, LoadEntry(k) PROVE TypeOK'
    <3>1. metaFile \in [Keys -> StorageMetadata \cup {NoMeta}]
      BY <2>7 DEF LoadEntry, TypeOK
    <3>2. metaFile[k] \in StorageMetadata
      BY <2>7, <3>1 DEF LoadEntry, Unloaded
    <3>3. currentSize' \in Int
      BY <2>7, <3>2, SizeType DEF LoadEntry, TypeOK
    <3>4. pc' \in {"idle", "load"} /\ pc # "idle"
      BY <2>7 DEF LoadEntry
    <3> QED
      BY <2>7, <3>2, <3>3, <3>4 DEF LoadEntry, TypeOK
  <2>8. CASE CreateFile
    BY <2>8 DEF CreateFile, TypeOK
  <2>9. CASE CreateFails
    BY <2>9 DEF CreateFails, Abandon, TypeOK
  <2>10. CASE WriteFails
    BY <2>10 DEF WriteFails, Abandon, TypeOK
  <2>11. CASE WriteChunk
    <3>1. req \in Request
      BY <2>11 DEF WriteChunk, TypeOK
    <3>2. Entry(req) \in StorageMetadata
      BY <3>1 DEF Entry, Request, StorageMetadata, TypeOK
    <3>3. currentSize' \in Int
      BY <2>11, <3>1, SizeType DEF WriteChunk, Request, TypeOK
    <3>4. file' \in [Keys -> Blobs \cup {NoFile, Torn}]
      BY <2>11, <3>1 DEF WriteChunk, Request, TypeOK
    <3>5. faults' \in Nat
      BY <2>11 DEF WriteChunk, TypeOK
    <3>6. meta' \in [Keys -> StorageMetadata \cup {NoMeta}]
      BY <2>11, <3>2 DEF WriteChunk, TypeOK
    <3> HIDE DEF Fault, NoFault
    <3> QED
      BY <2>11, <3>3, <3>4, <3>5, <3>6 DEF WriteChunk, TypeOK
  <2>12. CASE SaveTruncate
    BY <2>12 DEF SaveTruncate, TypeOK
  <2>13. CASE SaveWrite
    BY <2>13 DEF SaveWrite, TypeOK
  <2>14. CASE Crash
    <3>1. meta' \in [Keys -> StorageMetadata \cup {NoMeta}]
      BY <2>14 DEF Crash
    <3>2. crashes' \in Nat /\ currentSize' \in Int /\ saves' \in Nat
      BY <2>14 DEF Crash, TypeOK
    <3>3. up' \in BOOLEAN /\ pc' = "idle" /\ req' = NoReq
      BY <2>14 DEF Crash
    <3> QED
      BY <2>14, <3>1, <3>2, <3>3 DEF Crash, TypeOK
  <2>15. CASE Restart
    <3>1. up' \in BOOLEAN /\ up' = TRUE
      BY <2>15 DEF Restart
    <3>2. pc = "idle" /\ pc' \in {"idle", "load"}
      BY <2>15 DEF Restart, TypeOK
    <3>3. pc' = "load" => metaFile' # TornMeta
      BY <2>15 DEF Restart
    <3> QED
      BY <2>15, <3>1, <3>2, <3>3 DEF Restart, TypeOK
  <2>16. CASE Tick
    BY <2>16 DEF Tick, TypeOK
  <2>17. ASSUME NEW a \in Authors, NEW total \in Scores, AddScore(a, total)
         PROVE  TypeOK'
    <3>1. score' \in [Authors -> Int]
      BY <2>17, StorageAssumption DEF AddScore, TypeOK
    <3> QED
      BY <2>17, <3>1 DEF AddScore, TypeOK
  <2>18. CASE UNCHANGED vars
    BY <2>18 DEF vars, TypeOK
  <2> QED
    BY <2>1, <2>2, <2>3, <2>4, <2>5, <2>6, <2>7, <2>8, <2>9, <2>10, <2>11,
       <2>12, <2>13, <2>14, <2>15, <2>16, <2>17, <2>18 DEF Next, MutexStep
<1>3. QED
  BY <1>1, <1>2, PTL DEF Spec

-----------------------------------------------------------------------------

\* A deletion leaves the surviving entries and their files alone.
LEMMA DeleteIntact ==
  ASSUME TypeOK, IntactParts, NEW k \in Stored, deleteKey(k),
         metaFile' = metaFile, faults = 0, faults' = 0
  PROVE  Intact' /\ DurableIntact'
<1>1. /\ file' = [file EXCEPT ![k] = NoFile]
      /\ meta' = [meta EXCEPT ![k] = NoMeta]
  BY DEF deleteKey, NoFault, Fault
<1>2. Intact'
  BY <1>1 DEF IntactParts, Intact, Committed, CommittedIn, TypeOK
<1>3. DurableIntact'
  BY <1>1 DEF IntactParts, DurableIntact, CommittedIn, TypeOK
<1>4. QED
  BY <1>2, <1>3

\* Nothing happens to IntactParts when the entries keep their content and
\* state, and no file, request or step of the mutex holder changes.
LEMMA QuietIntact ==
  ASSUME IntactParts, pc' = pc, req' = req, up' = up, file' = file,
         metaFile' = metaFile, meta' = meta
  PROVE  IntactParts'
BY DEF IntactParts, Intact, DurableIntact, RequestWritable, InSync,
       Reloading, Committed, CommittedIn

\* A disk error is never forgotten.
LEMMA FaultsGrow ==
  ASSUME TypeOK, [Next]_vars, faults' = 0
  PROVE  faults = 0
BY DEF TypeOK, Next, MutexStep, Store, StoreBegin, EvictNext, CleanNext,
       deleteKey, LoadEntry, CreateFile, CreateFails, WriteFails, WriteChunk,
       SaveTruncate, SaveWrite, RetrieveTouch, AsyncSave, CleanBegin, Crash,
       Restart, Tick, AddScore, Fault, NoFault, history, vars

\* IntactInv, which says the same of metadata.json and of the Store in
\* progress, holds in every state.
LEMMA IntactInvariant == Spec => []IntactInv
<1>1. Init => IntactInv
  BY DEF Init, IntactInv, IntactParts, Intact, DurableIntact,
         RequestWritable, InSync, Reloading, Committed, CommittedIn
<1>2. TypeOK /\ IntactInv /\ [Next]_vars => IntactInv'
  <2> SUFFICES ASSUME TypeOK, IntactInv, [Next]_vars, faults' = 0
               PROVE  IntactParts'
    BY DEF IntactInv
  <2>0. faults = 0 /\ IntactParts
    BY FaultsGrow DEF IntactInv
  <2> USE <2>0 DEF memory, disk, environment, IntactParts
  <2>1. CASE Store
    <3>1. PICK k \in Keys, b \in Blobs, s \in StoreStates :
             \E d \in EnvelopeExpiries(b) : StoreBegin(k, b, EffectiveState(s), d)
      BY <2>1, StorageAssumption DEF Store
    <3>2. /\ meta' = meta /\ file' = file /\ metaFile' = metaFile /\ up' = up
          /\ pc' \in {"evict", "create"} /\ pc = "idle" /\ up
          /\ ~Committed(k) /\ req'.key = k
      BY <3>1 DEF StoreBegin, Writable
    <3>3. Intact' /\ DurableIntact' /\ Reloading' /\ InSync'
      BY <3>2 DEF Intact, DurableIntact, Reloading, InSync, Committed, CommittedIn
    <3>4. RequestWritable'
      BY <3>2 DEF RequestWritable, InSync, Committed, CommittedIn
    <3> QED
      BY <3>3, <3>4
  <2>2. ASSUME NEW k \in Keys, RetrieveTouch(k) PROVE IntactParts'
    <3>1. \A j \in Keys :
            /\ Committed(j)' <=> Committed(j)
            /\ Committed(j) => meta'[j].blob = meta[j].blob
      BY <2>2, SentinelAssumption
      DEF RetrieveTouch, Stored, TypeOK, StorageMetadata, Committed, CommittedIn
    <3>2. up /\ pc = "idle" /\ pc' = pc /\ req' = req /\ up' = up /\ file' = file /\ metaFile' = metaFile
      BY <2>2 DEF RetrieveTouch
    <3>3. Intact'
      BY <3>1, <3>2 DEF Intact
    <3>4. DurableIntact' /\ InSync'
      BY <3>1, <3>2 DEF DurableIntact, InSync, CommittedIn
    <3>5. RequestWritable' /\ Reloading'
      BY <3>2 DEF RequestWritable, Reloading, TypeOK
    <3> QED
      BY <3>3, <3>4, <3>5
  <2>3. CASE AsyncSave \/ CleanBegin
    BY <2>3 DEF AsyncSave, CleanBegin, Intact, DurableIntact, RequestWritable, InSync,
                Reloading, Committed, CommittedIn, TypeOK
  <2>5. ASSUME NEW k \in Keys, EvictNext(k) PROVE IntactParts'
    <3>1. k \in Stored /\ deleteKey(k) /\ metaFile' = metaFile /\ req' = req /\ up' = up
      BY <2>5 DEF EvictNext, Victims
    <3>2. pc = "evict" /\ pc' \in {"evict", "create"}
      BY <2>5 DEF EvictNext
    <3>3. Intact' /\ DurableIntact'
      BY <3>1, DeleteIntact
    <3>4. RequestWritable'
      BY <3>1 DEF RequestWritable, deleteKey, Committed, CommittedIn, TypeOK, Stored
    <3>5. InSync' /\ Reloading'
      BY <3>1, <3>2 DEF InSync, Reloading, TypeOK
    <3> QED
      BY <3>3, <3>4, <3>5
  <2>6. ASSUME NEW k \in Keys, CleanNext(k) PROVE IntactParts'
    <3>1. k \in Stored /\ deleteKey(k) /\ metaFile' = metaFile /\ req' = req /\ up' = up
      BY <2>6 DEF CleanNext, Expired
    <3>2. pc = "clean" /\ pc' \in {"clean", "save"}
      BY <2>6 DEF CleanNext
    <3>3. Intact' /\ DurableIntact'
      BY <3>1, DeleteIntact
    <3>4. RequestWritable' /\ InSync' /\ Reloading'
      BY <3>1, <3>2 DEF RequestWritable, InSync, Reloading, TypeOK
    <3> QED
      BY <3>3, <3>4
  <2>7. ASSUME NEW k \in Keys, LoadEntry(k) PROVE IntactParts'
    <3>1. /\ k \in Unloaded /\ pc = "load" /\ metaFile # TornMeta /\ up /\ req = NoReq
          /\ meta' = [meta EXCEPT ![k] = metaFile[k]]
          /\ file' = file /\ metaFile' = metaFile /\ up' = up /\ req' = req
          /\ pc' = IF Unloaded = {k} THEN "idle" ELSE "load"
      BY <2>7 DEF LoadEntry, TypeOK
    <3>2. Intact' /\ DurableIntact' /\ RequestWritable'
      BY <3>1 DEF Intact, DurableIntact, RequestWritable, Committed, CommittedIn, TypeOK
    <3>3. Reloading'
      BY <3>1 DEF Reloading, TypeOK
    <3>4. InSync'
      <4> SUFFICES ASSUME Unloaded = {k}, NEW j \in Keys, CommittedIn(metaFile, j)
                   PROVE  Committed(j)'
        BY <3>1 DEF InSync, Committed, CommittedIn
      <4>1. CASE j = k
        BY <3>1, <4>1 DEF Committed, CommittedIn, TypeOK
      <4>2. CASE j # k
        <5>1. meta[j] = metaFile[j]
          BY <3>1, <4>2 DEF Unloaded, Reloading, CommittedIn
        <5> QED
          BY <3>1, <4>2, <5>1 DEF Committed, CommittedIn, TypeOK
      <4> QED
        BY <4>1, <4>2
    <3> QED
      BY <3>2, <3>3, <3>4
  <2>8. CASE CreateFile
    <3>1. /\ pc = "create" /\ pc' = "write" /\ req # NoReq /\ up
          /\ file' = [file EXCEPT ![req.key] = Torn]
          /\ meta' = meta /\ metaFile' = metaFile /\ up' = up /\ req' = req
      BY <2>8 DEF CreateFile, TypeOK
    <3>2. \A k \in Keys : k # req.key => file'[k] = file[k]
      BY <3>1 DEF TypeOK
    <3>3. Intact' /\ DurableIntact'
      BY <3>1, <3>2 DEF Intact, DurableIntact, RequestWritable, Committed, CommittedIn
    <3> QED
      BY <3>1, <3>3 DEF RequestWritable, InSync, Reloading, Committed, CommittedIn
  <2>11. CASE WriteChunk
    <3>1. /\ pc = "write" /\ pc' = "save" /\ req \in Request /\ up
          /\ file' = [file EXCEPT ![req.key] = req.blob]
          /\ meta' = [meta EXCEPT ![req.key] = Entry(req)]
          /\ metaFile' = metaFile /\ up' = up /\ req' = NoReq
      BY <2>11 DEF WriteChunk, Fault, TypeOK
    <3>2. req.key \in Keys /\ Entry(req).blob = req.blob /\ req # NoReq
      BY <3>1, SentinelAssumption DEF Request, Entry
    <3>3. Intact'
      BY <3>1, <3>2 DEF Intact, Committed, CommittedIn, TypeOK
    <3>4. DurableIntact'
      BY <3>1, <3>2 DEF DurableIntact, RequestWritable, CommittedIn, TypeOK
    <3> QED
      BY <3>1, <3>3, <3>4 DEF RequestWritable, InSync, Reloading
  <2>12. CASE SaveTruncate
    BY <2>12 DEF SaveTruncate, Fault, Intact, DurableIntact, RequestWritable, InSync,
                 Reloading, Committed, CommittedIn, TypeOK
  <2>13. CASE SaveWrite
    BY <2>13 DEF SaveWrite, Fault, Intact, DurableIntact, RequestWritable, InSync,
                 Reloading, Committed, CommittedIn, TypeOK
  <2>14. CASE Crash
    BY <2>14 DEF Crash, Intact, DurableIntact, RequestWritable, InSync,
                 Reloading, Committed, CommittedIn
  <2>15. CASE Restart
    BY <2>15 DEF Restart, Unloaded, Intact, DurableIntact, RequestWritable, InSync,
                 Reloading, Committed, CommittedIn, TypeOK
  <2>16. CASE Tick
    BY <2>16, QuietIntact DEF Tick
  <2>17. ASSUME NEW a \in Authors, NEW total \in Scores, AddScore(a, total)
         PROVE  IntactParts'
    BY <2>17, QuietIntact DEF AddScore
  <2>18. CASE UNCHANGED vars
    BY <2>18, QuietIntact DEF vars
  <2> QED
    BY <2>1, <2>2, <2>3, <2>5, <2>6, <2>7, <2>8, <2>11,
       <2>12, <2>13, <2>14, <2>15, <2>16, <2>17, <2>18
    DEF Next, MutexStep, CreateFails, WriteFails, Fault
<1>3. QED
  BY <1>1, <1>2, TypeCorrect, PTL DEF Spec

\* Immutability on the disk: for every crash and reload, as long as the disk
\* does not fail, a committed chunk's file keeps its content (storage.go:90).
THEOREM CommittedImmutable == Spec => []CommittedIntact
<1>1. IntactInv => CommittedIntact
  BY DEF IntactInv, IntactParts, CommittedIntact
<1>2. QED
  BY <1>1, IntactInvariant, PTL

-----------------------------------------------------------------------------
(* Sums of sizes *)

\* A map whose entries for S are there: what a sum over S ranges over.
Entries(m, S) == \A k \in S : m[k] \in StorageMetadata

\* Finitely many entries have finitely many bytes.
LEMMA BytesFinite ==
  ASSUME NEW m, NEW S, IsFiniteSet(S), Entries(m, S)
  PROVE  IsFiniteSet(BytesIn(m, S)) /\ SizeIn(m, S) \in Nat
<1> DEFINE bytes(k) == {k} \X (1..SizeOf(m[k]))
           All == {bytes(k) : k \in S}
           f == [k \in S |-> bytes(k)]
<1>1. f \in Surjection(S, All)
  BY DEF Surjection
<1>2. IsFiniteSet(All)
  BY <1>1, FS_Surjection
<1>3. ASSUME NEW k \in S PROVE IsFiniteSet(bytes(k))
  <2>1. SizeOf(m[k]) \in Nat
    BY SizeType DEF Entries
  <2>2. IsFiniteSet({k})
    BY FS_Singleton
  <2>3. IsFiniteSet(1..SizeOf(m[k]))
    BY <2>1, FS_Interval
  <2> QED
    BY <2>2, <2>3, FS_Product
<1>4. \A T \in All : IsFiniteSet(T)
  BY <1>3
<1>5. IsFiniteSet(UNION All)
  BY <1>2, <1>4, FS_UNION
<1> QED
  BY <1>5, FS_CardinalityType DEF BytesIn, SizeIn

\* The sum over no entry is zero.
LEMMA SizeEmpty == \A m : SizeIn(m, {}) = 0
BY FS_EmptySet DEF SizeIn, BytesIn

\* An entry more adds its size.
LEMMA SizeAdd ==
  ASSUME NEW m, NEW S, IsFiniteSet(S), NEW k, k \notin S,
         Entries(m, S \cup {k})
  PROVE  SizeIn(m, S \cup {k}) = SizeIn(m, S) + SizeOf(m[k])
<1> DEFINE bytes(j) == {j} \X (1..SizeOf(m[j]))
<1>1. SizeOf(m[k]) \in Nat
  BY SizeType DEF Entries
<1>2. IsFiniteSet(bytes(k)) /\ Cardinality(bytes(k)) = SizeOf(m[k])
  <2>1. IsFiniteSet({k}) /\ Cardinality({k}) = 1
    BY FS_Singleton
  <2>2. IsFiniteSet(1..SizeOf(m[k])) /\ Cardinality(1..SizeOf(m[k])) = SizeOf(m[k])
    BY <1>1, FS_Interval
  <2>3. /\ IsFiniteSet(bytes(k))
        /\ Cardinality(bytes(k)) = Cardinality({k}) * Cardinality(1..SizeOf(m[k]))
    BY <2>1, <2>2, FS_Product
  <2> QED
    BY <1>1, <2>1, <2>2, <2>3
<1>3. IsFiniteSet(BytesIn(m, S)) /\ SizeIn(m, S) \in Nat
  BY BytesFinite DEF Entries
<1>4. BytesIn(m, S \cup {k}) = BytesIn(m, S) \cup bytes(k)
  BY DEF BytesIn
<1>5. BytesIn(m, S) \cap bytes(k) = {}
  BY DEF BytesIn
<1>6. Cardinality(BytesIn(m, S) \cup bytes(k)) = SizeIn(m, S) + SizeOf(m[k]) - 0
  BY <1>2, <1>3, <1>5, FS_Union, FS_EmptySet DEF SizeIn
<1>7. SizeIn(m, S \cup {k}) = SizeIn(m, S) + SizeOf(m[k]) - 0
  BY <1>4, <1>6 DEF SizeIn
<1> QED
  BY <1>1, <1>3, <1>7

\* A sum depends on the contents of the entries it ranges over.
LEMMA SizeSame ==
  ASSUME NEW m, NEW n, NEW S, \A k \in S : m[k].blob = n[k].blob
  PROVE  SizeIn(m, S) = SizeIn(n, S)
<1>1. \A k \in S : SizeOf(m[k]) = SizeOf(n[k])
  BY DEF SizeOf
<1>2. BytesIn(m, S) = BytesIn(n, S)
  BY <1>1 DEF BytesIn
<1> QED
  BY <1>2 DEF SizeIn

\* Fewer entries have no more bytes.
LEMMA SizeSubset ==
  ASSUME NEW m, NEW S, IsFiniteSet(S), NEW T \in SUBSET S, Entries(m, S)
  PROVE  SizeIn(m, T) <= SizeIn(m, S)
<1>1. IsFiniteSet(BytesIn(m, S))
  BY BytesFinite
<1>2. BytesIn(m, T) \in SUBSET BytesIn(m, S)
  BY DEF BytesIn
<1> QED
  BY <1>1, <1>2, FS_Subset DEF SizeIn

\* An entry less takes its size away.
LEMMA SizeRemove ==
  ASSUME NEW m, NEW S, IsFiniteSet(S), NEW k \in S, Entries(m, S)
  PROVE  SizeIn(m, S \ {k}) = SizeIn(m, S) - SizeOf(m[k])
<1> DEFINE T == S \ {k}
<1>1. IsFiniteSet(T) /\ k \notin T /\ S = T \cup {k} /\ Entries(m, T)
  BY FS_RemoveElement DEF Entries
<1>2. SizeIn(m, S) = SizeIn(m, T) + SizeOf(m[k])
  BY <1>1, SizeAdd
<1>3. SizeOf(m[k]) \in Nat /\ SizeIn(m, T) \in Nat
  BY <1>1, SizeType, BytesFinite DEF Entries
<1> QED
  BY <1>2, <1>3

-----------------------------------------------------------------------------
(* The counter *)

\* The entries are finitely many, and those a sum ranges over are there.
LEMMA StoredEntries ==
  ASSUME TypeOK
  PROVE  /\ IsFiniteSet(Stored) /\ Entries(meta, Stored)
         /\ Kept \subseteq Stored
         /\ IsFiniteSet(Kept) /\ Entries(meta, Kept)
         /\ SizeOfAll(Kept) \in Nat /\ TrueSize \in Nat
<1>1. IsFiniteSet(Stored)
  <2>1. Stored \in SUBSET Keys
    BY DEF Stored
  <2> QED
    BY <2>1, StorageAssumption, FS_Subset
<1>2. Entries(meta, Stored)
  BY DEF Entries, Stored, TypeOK
<1>3. Kept \in SUBSET Stored
  BY DEF Kept
<1>4. IsFiniteSet(Kept) /\ Entries(meta, Kept)
  BY <1>1, <1>2, <1>3, FS_Subset DEF Entries
<1> QED
  BY <1>1, <1>2, <1>3, <1>4, BytesFinite DEF SizeOfAll, TrueSize

\* Only EvictNext sets drifted, and nothing resets it.
LEMMA DriftedStays ==
  ASSUME TypeOK, [Next]_vars, ~drifted'
  PROVE  ~drifted
BY DEF TypeOK, Next, MutexStep, Store, StoreBegin, EvictNext, CleanNext,
       LoadEntry, CreateFile, CreateFails, WriteFails, WriteChunk,
       SaveTruncate, SaveWrite, RetrieveTouch, AsyncSave, CleanBegin, Crash,
       Restart, Tick, AddScore, history, vars

\* A deletion takes the entry's size off the counter and, unless it is the
\* one being overwritten, off the sum.
LEMMA DeleteCounted ==
  ASSUME TypeOK, NEW k \in Stored, deleteKey(k), req' = req
  PROVE  /\ Stored' = Stored \ {k} /\ Kept' = Kept \ {k}
         /\ currentSize' = currentSize - SizeOf(meta[k])
         /\ SizeOf(meta[k]) \in Nat
         /\ k \in Kept =>
              SizeIn(meta', Kept') = SizeIn(meta, Kept) - SizeOf(meta[k])
         /\ k \notin Kept => SizeIn(meta', Kept') = SizeIn(meta, Kept)
<1>1. /\ meta' = [meta EXCEPT ![k] = NoMeta]
      /\ currentSize' = currentSize - SizeOf(meta[k])
      /\ k \in Keys
  BY DEF deleteKey, Stored
<1>2. Stored' = Stored \ {k}
  BY <1>1 DEF Stored, TypeOK
<1>3. Kept' = Kept \ {k}
  BY <1>2 DEF Kept
<1>4. SizeIn(meta', Kept') = SizeIn(meta, Kept \ {k})
  <2>1. \A j \in Kept \ {k} : meta'[j].blob = meta[j].blob
    BY <1>1 DEF Kept, Stored, TypeOK
  <2> QED
    BY <1>3, <2>1, SizeSame
<1>5. k \in Kept => SizeIn(meta, Kept \ {k}) = SizeIn(meta, Kept) - SizeOf(meta[k])
  BY StoredEntries, SizeRemove
<1>6. k \notin Kept => Kept \ {k} = Kept
  OBVIOUS
<1>7. SizeOf(meta[k]) \in Nat
  BY SizeType, StoredEntries DEF Entries
<1> QED
  BY <1>1, <1>2, <1>3, <1>4, <1>5, <1>6, <1>7

\* Steps that leave the entries, the counter and the request alone.
LEMMA QuietCount ==
  ASSUME CountInv, meta' = meta, currentSize' = currentSize, req' = req,
         pc' = "evict" => pc = "evict",
         faults' = 0 => faults = 0, drifted' = drifted
  PROVE  CountInv'
<1>1. SizeOfAll(Kept)' = SizeOfAll(Kept)
  BY DEF Kept, Stored, SizeOfAll
<1> QED
  BY <1>1 DEF CountInv, Counted, EvictingOver

\* The counter never exceeds the entries a Store in progress does not replace,
\* and equals them but for disk errors and Stores that evict what they replace.
LEMMA CountStep ==
  ASSUME TypeOK, TypeOK', CountInv, [Next]_vars
  PROVE  CountInv'
<1> USE DEF memory, disk, environment, history
<1>0. /\ currentSize <= SizeIn(meta, Kept)
      /\ faults = 0 /\ ~drifted => currentSize = SizeIn(meta, Kept)
      /\ SizeIn(meta, Kept) \in Nat
      /\ currentSize \in Int /\ currentSize' \in Int
  BY StoredEntries DEF CountInv, Counted, SizeOfAll, TypeOK
<1>g. faults' = 0 => faults = 0
  BY FaultsGrow
<1>s. ASSUME currentSize' <= SizeIn(meta', Kept'),
             faults' = 0 /\ ~drifted' => currentSize' = SizeIn(meta', Kept')
      PROVE  Counted'
  BY <1>s DEF Counted, SizeOfAll
<1>1. CASE Store
  <2>1. PICK k \in Keys, b \in Blobs, s \in StoreStates :
          \E d \in EnvelopeExpiries(b) : StoreBegin(k, b, EffectiveState(s), d)
    BY <1>1 DEF Store
  <2>2. /\ meta' = meta /\ currentSize' = Discounted(k) /\ req'.key = k
        /\ req'.blob = b /\ pc = "idle" /\ pc' \in {"evict", "create"}
        /\ pc' = "evict" => OverQuota(Discounted(k), b)
        /\ faults' = faults /\ drifted' = drifted
    BY <2>1 DEF StoreBegin
  <2>3. req = NoReq /\ req' # NoReq
    BY <2>2 DEF TypeOK
  <2>4. Kept = Stored /\ Kept' = Stored \ {k}
    BY <2>2, <2>3 DEF Kept, Stored
  <2>5. CASE meta[k] = NoMeta
    <3>1. Stored \ {k} = Stored /\ Discounted(k) = currentSize
      BY <2>5 DEF Stored, Discounted
    <3>2. Counted'
      BY <1>0, <1>s, <2>2, <2>4, <3>1
    <3> QED
      BY <2>2, <3>2 DEF CountInv, EvictingOver
  <2>6. CASE meta[k] # NoMeta
    <3>1. k \in Stored /\ Discounted(k) = currentSize - SizeOf(meta[k])
      BY <2>6 DEF Stored, Discounted
    <3>2. SizeIn(meta, Stored \ {k}) = SizeIn(meta, Stored) - SizeOf(meta[k])
      BY <3>1, StoredEntries, SizeRemove
    <3>3. SizeOf(meta[k]) \in Nat
      BY <3>1, SizeType, StoredEntries DEF Entries
    <3>4. Counted'
      BY <1>0, <1>s, <2>2, <2>4, <3>1, <3>2, <3>3
    <3> QED
      BY <2>2, <3>4 DEF CountInv, EvictingOver
  <2> QED
    BY <2>5, <2>6
<1>2. ASSUME NEW k \in Keys, RetrieveTouch(k) PROVE CountInv'
  <2>1. /\ meta' = [meta EXCEPT ![k].acc = clock] /\ k \in Stored
        /\ currentSize' = currentSize /\ req' = req /\ pc' = pc
        /\ faults' = faults /\ drifted' = drifted
    BY <1>2 DEF RetrieveTouch
  <2>2. \A j \in Keys : j \in Stored' <=> j \in Stored
    BY <2>1, SentinelAssumption DEF Stored, TypeOK, StorageMetadata
  <2>3. Kept' = Kept
    BY <2>1, <2>2 DEF Kept, Stored
  <2>4. \A j \in Kept : meta'[j].blob = meta[j].blob
    BY <2>1 DEF Kept, Stored, TypeOK, StorageMetadata
  <2>5. SizeIn(meta', Kept') = SizeIn(meta, Kept)
    BY <2>3, <2>4, SizeSame
  <2> QED
    BY <1>0, <1>s, <2>1, <2>5 DEF CountInv, EvictingOver
<1>3. ASSUME NEW k \in Keys, EvictNext(k) PROVE CountInv'
  <2>1. /\ k \in Stored /\ deleteKey(k) /\ req' = req
        /\ ~drifted' => ~drifted /\ k # req.key
        /\ pc = "evict"
        /\ pc' = "evict" => OverQuota(currentSize', req'.blob)
    BY <1>3 DEF EvictNext, Victims
  <2>2. req # NoReq
    BY <2>1 DEF TypeOK
  <2>3. k \in Kept <=> k # req.key
    BY <2>1, <2>2 DEF Kept
  <2>d. /\ currentSize' = currentSize - SizeOf(meta[k]) /\ SizeOf(meta[k]) \in Nat
        /\ k \in Kept =>
             SizeIn(meta', Kept') = SizeIn(meta, Kept) - SizeOf(meta[k])
        /\ k \notin Kept => SizeIn(meta', Kept') = SizeIn(meta, Kept)
    BY <2>1, DeleteCounted
  <2>4. Counted'
    <3>1. CASE k \in Kept
      BY <1>0, <1>g, <1>s, <2>1, <2>d, <3>1
    <3>2. CASE k \notin Kept
      BY <1>0, <1>s, <2>1, <2>3, <2>d, <3>2
    <3> QED
      BY <3>1, <3>2
  <2> QED
    BY <2>1, <2>4 DEF CountInv, EvictingOver
<1>4. ASSUME NEW k \in Keys, CleanNext(k) PROVE CountInv'
  <2>1. /\ k \in Stored /\ deleteKey(k) /\ req' = req /\ drifted' = drifted
        /\ pc = "clean" /\ pc' \in {"clean", "save"}
    BY <1>4 DEF CleanNext, Expired
  <2>2. k \in Kept
    BY <2>1 DEF Kept, TypeOK
  <2>3. Counted'
    BY <1>0, <1>g, <1>s, <2>1, <2>2, DeleteCounted
  <2> QED
    BY <2>1, <2>3 DEF CountInv, EvictingOver
<1>5. ASSUME NEW k \in Keys, LoadEntry(k) PROVE CountInv'
  <2>1. /\ pc = "load" /\ k \in Unloaded /\ metaFile # TornMeta
        /\ meta' = [meta EXCEPT ![k] = metaFile[k]]
        /\ currentSize' = currentSize + SizeOf(metaFile[k])
        /\ req' = req /\ req = NoReq /\ pc' \in {"idle", "load"}
        /\ faults' = faults /\ drifted' = drifted
    BY <1>5 DEF LoadEntry, TypeOK
  <2>2. k \notin Stored /\ meta'[k] = metaFile[k] /\ metaFile[k] # NoMeta
    BY <2>1 DEF Stored, Unloaded, TypeOK
  <2>3. Kept = Stored /\ Kept' = Stored \cup {k}
    BY <2>1, <2>2 DEF Kept, Stored, TypeOK
  <2>4. \A j \in Stored : meta'[j] = meta[j]
    BY <2>1, <2>2 DEF Stored, TypeOK
  <2>5. SizeIn(meta', Stored) = SizeIn(meta, Stored)
    BY <2>4, SizeSame
  <2>6. Entries(meta', Stored \cup {k})
    BY <2>3, <2>2, StoredEntries, <2>4 DEF Entries, TypeOK, Stored
  <2>7. SizeIn(meta', Stored \cup {k}) = SizeIn(meta', Stored) + SizeOf(meta'[k])
    BY <2>2, <2>6, StoredEntries, SizeAdd
  <2>8. SizeOf(meta'[k]) \in Nat
    BY <2>6, SizeType DEF Entries
  <2>9. Counted'
    BY <1>0, <1>s, <2>1, <2>2, <2>3, <2>5, <2>7, <2>8
  <2> QED
    BY <2>1, <2>9 DEF CountInv, EvictingOver
<1>6. CASE CreateFails \/ WriteFails
  <2>1. /\ meta' = meta /\ currentSize' = currentSize /\ req' = NoReq
        /\ pc' = "idle" /\ faults' # 0
    BY <1>6 DEF CreateFails, WriteFails, Abandon, Fault, TypeOK
  <2>2. Kept \in SUBSET Stored /\ Kept' = Stored
    BY <2>1 DEF Kept, Stored
  <2>3. SizeIn(meta, Kept) <= SizeIn(meta, Stored)
    BY <2>2, StoredEntries, SizeSubset
  <2>4. SizeIn(meta, Stored) \in Nat
    BY StoredEntries, BytesFinite
  <2>5. Counted'
    BY <1>0, <1>s, <2>1, <2>2, <2>3, <2>4
  <2> QED
    BY <2>1, <2>5 DEF CountInv, EvictingOver
<1>7. CASE WriteChunk
  <2> DEFINE k == req.key
  <2>1. /\ pc = "write" /\ req \in Request /\ pc' = "save" /\ req' = NoReq
        /\ meta' = [meta EXCEPT ![k] = Entry(req)]
        /\ currentSize' = currentSize + BlobSize[req.blob]
        /\ drifted' = drifted /\ req # NoReq
    BY <1>7 DEF WriteChunk, TypeOK
  <2>2. /\ k \in Keys /\ meta'[k] = Entry(req) /\ Entry(req).blob = req.blob
        /\ Entry(req) \in StorageMetadata
    BY <2>1 DEF Request, Entry, StorageMetadata, TypeOK
  <2>3. Kept = Stored \ {k} /\ k \notin Kept
    BY <2>1 DEF Kept
  <2>4. Kept' = Kept \cup {k}
    BY <2>1, <2>2, <2>3, SentinelAssumption DEF Kept, Stored, TypeOK
  <2>5. \A j \in Kept : meta'[j] = meta[j]
    BY <2>1, <2>2, <2>3 DEF Stored, TypeOK
  <2>6. SizeIn(meta', Kept) = SizeIn(meta, Kept)
    BY <2>5, SizeSame
  <2>7. Entries(meta', Kept \cup {k})
    BY <2>2, <2>5, StoredEntries DEF Entries
  <2>8. SizeIn(meta', Kept \cup {k}) = SizeIn(meta', Kept) + SizeOf(meta'[k])
    BY <2>3, <2>7, StoredEntries, SizeAdd
  <2>9. SizeOf(meta'[k]) = BlobSize[req.blob] /\ SizeOf(meta'[k]) \in Nat
    BY <2>2, SizeType DEF SizeOf
  <2>10. Counted'
    BY <1>0, <1>g, <1>s, <2>1, <2>4, <2>6, <2>8, <2>9
  <2> QED
    BY <2>1, <2>10 DEF CountInv, EvictingOver
<1>8. CASE Crash
  <2>1. /\ meta' = [k \in Keys |-> NoMeta] /\ currentSize' = 0
        /\ req' = NoReq /\ pc' = "idle"
    BY <1>8 DEF Crash
  <2>2. Kept' = {}
    BY <2>1 DEF Kept, Stored
  <2>3. Counted'
    BY <1>s, <2>1, <2>2, SizeEmpty
  <2> QED
    BY <2>1, <2>3 DEF CountInv, EvictingOver
<1>9. CASE AsyncSave \/ CleanBegin \/ CreateFile \/ Restart \/ Tick \/ UNCHANGED vars
  BY <1>9, QuietCount
  DEF AsyncSave, CleanBegin, CreateFile, Restart, Tick, vars
<1>10. CASE SaveTruncate \/ SaveWrite
  BY <1>10, <1>g, QuietCount DEF SaveTruncate, SaveWrite
<1>11. ASSUME NEW a \in Authors, NEW total \in Scores, AddScore(a, total)
       PROVE  CountInv'
  BY <1>11, QuietCount DEF AddScore
<1> QED
  BY <1>1, <1>2, <1>3, <1>4, <1>5, <1>6, <1>7, <1>8, <1>9, <1>10, <1>11
  DEF Next, MutexStep

\* The counter of the quota, of all histories of the store.
LEMMA CountInvariant == Spec => [](TypeOK /\ CountInv)
<1>1. Init => CountInv
  <2> SUFFICES ASSUME Init PROVE CountInv
    OBVIOUS
  <2>1. Kept = {}
    BY DEF Init, Kept, Stored
  <2> QED
    BY <2>1, SizeEmpty DEF Init, CountInv, Counted, EvictingOver, SizeOfAll
<1>2. TypeOK /\ TypeOK' /\ CountInv /\ [Next]_vars => CountInv'
  BY CountStep
<1> QED
  BY <1>1, <1>2, TypeCorrect, PTL DEF Spec

\* The counter never exceeds what is stored: on every path through
\* overwriting, eviction, disk errors, crashes and reloads (storage.go:94-150).
THEOREM CounterNeverOver == Spec => []NeverOvercounts
<1>1. TypeOK /\ CountInv => NeverOvercounts
  <2> SUFFICES ASSUME TypeOK, CountInv PROVE NeverOvercounts
    OBVIOUS
  <2>1. SizeIn(meta, Kept) <= SizeIn(meta, Stored)
    BY StoredEntries, SizeSubset
  <2> QED
    BY <2>1, StoredEntries
    DEF CountInv, Counted, NeverOvercounts, TrueSize, SizeOfAll, TypeOK
<1> QED
  BY <1>1, CountInvariant, PTL

\* Between operations the counter is exact, unless the disk failed or a Store
\* has evicted the entry it overwrites (storage.go:94 and 285).
THEOREM CounterExact == Spec => []AccountingExact
<1>1. TypeOK /\ CountInv => AccountingExact
  <2> SUFFICES ASSUME TypeOK, CountInv, pc = "idle" PROVE AccountingExact
    BY DEF AccountingExact
  <2>1. Kept = Stored
    BY DEF Kept, TypeOK
  <2> QED
    BY <2>1 DEF CountInv, Counted, AccountingExact, TrueSize
<1> QED
  BY <1>1, CountInvariant, PTL

\* An entry leaves in an eviction only when the entries the new chunk does not
\* replace do not fit beside it: the store never evicts without need.
THEOREM EvictsOnlyOutOfNeed == Spec => EvictionNeeded
<1> DEFINE Needed ==
      \A k \in Stored :
        pc = "evict" /\ up' /\ meta'[k] = NoMeta =>
          OverQuota(SizeOfAll(Stored \ {req.key}), req.blob)
<1>1. TypeOK /\ CountInv /\ [Next]_vars => Needed
  <2> SUFFICES ASSUME TypeOK, CountInv, pc = "evict" PROVE Needed
    OBVIOUS
  <2>1. req \in Request /\ Kept = Stored \ {req.key}
    BY DEF Kept, TypeOK
  <2>2. currentSize <= SizeOfAll(Kept) /\ OverQuota(currentSize, req.blob)
    BY DEF CountInv, Counted, EvictingOver
  <2>3. SizeOfAll(Kept) \in Nat /\ currentSize \in Int /\ MaxStorage \in Nat
        /\ BlobSize[req.blob] \in Nat
    BY <2>1, StoredEntries, SizeType, StorageAssumption DEF TypeOK, Request
  <2>4. OverQuota(SizeOfAll(Kept), req.blob)
    BY <2>2, <2>3 DEF OverQuota
  <2> QED
    BY <2>1, <2>4
<1>2. TypeOK /\ CountInv /\ [Next]_vars => [Needed]_vars
  BY <1>1
<1> QED
  BY <1>2, CountInvariant, PTL DEF Spec, EvictionNeeded

-----------------------------------------------------------------------------
(* The quota *)

\* No entry at all fits in any quota.
LEMMA FitsEmpty == \A m : FitsIn(m, {})
<1>1. MaxStorage \in Nat
  BY StorageAssumption
<1>2. 0 <= MaxStorage
  BY <1>1
<1> QED
  BY <1>2, SizeEmpty DEF FitsIn

\* What fits still fits when entries leave.
LEMMA FitsSubset ==
  ASSUME NEW m, NEW n, NEW S, NEW T \in SUBSET S, IsFiniteSet(S),
         Entries(m, S), \A k \in T : n[k].blob = m[k].blob, FitsIn(m, S)
  PROVE  FitsIn(n, T)
<1>1. SizeIn(n, T) = SizeIn(m, T)
  BY SizeSame
<1>2. SizeIn(m, T) <= SizeIn(m, S) /\ SizeIn(m, T) \in Nat /\ SizeIn(m, S) \in Nat
  <2>1. IsFiniteSet(T) /\ Entries(m, T)
    BY FS_Subset DEF Entries
  <2> QED
    BY <2>1, SizeSubset, BytesFinite
<1>3. MaxStorage \in Nat
  BY StorageAssumption
<1>4. CASE SizeIn(m, S) <= MaxStorage
  BY <1>1, <1>2, <1>3, <1>4 DEF FitsIn
<1>5. CASE \E k \in S : S = {k}
  <2>1. T = {} \/ T = S
    BY <1>5
  <2>2. CASE T = {}
    BY <2>2, FitsEmpty
  <2>3. CASE T = S
    BY <1>5, <2>3 DEF FitsIn
  <2> QED
    BY <2>1, <2>2, <2>3
<1> QED
  BY <1>4, <1>5 DEF FitsIn

\* Steps that leave what QuotaParts speaks of alone.
LEMMA QuietQuota ==
  ASSUME QuotaParts, meta' = meta, req' = req,
         metaFile' \in {metaFile, meta, TornMeta},
         pc' \in {"create", "write"} => pc \in {"create", "write"}
  PROVE  QuotaParts'
<1>1. Kept' = Kept /\ Stored' = Stored /\ SizeOfAll(Kept)' = SizeOfAll(Kept)
  BY DEF Kept, Stored, SizeOfAll
<1>2. FitsIn(meta, Stored)'
  BY <1>1 DEF QuotaParts, FitsIn
<1>3. (metaFile # TornMeta => FitsIn(metaFile, {k \in Keys : metaFile[k] # NoMeta}))'
  <2>1. CASE metaFile' = metaFile
    BY <2>1 DEF QuotaParts, FitsIn
  <2>2. CASE metaFile' = meta
    BY <2>2 DEF QuotaParts, FitsIn, Stored
  <2>3. CASE metaFile' = TornMeta
    BY <2>3
  <2> QED
    BY <2>1, <2>2, <2>3
<1> QED
  BY <1>1, <1>2, <1>3 DEF QuotaParts

\* The entries fit in the quota or are a single one, as long as the disk does
\* not fail and no Store evicts what it overwrites.
LEMMA QuotaStep ==
  ASSUME TypeOK, TypeOK', CountInv, CountInv', IntactInv, QuotaInv, [Next]_vars
  PROVE  QuotaInv'
<1> USE DEF memory, disk, environment, history
<1> SUFFICES ASSUME MaxStorage > 0, faults' = 0, ~drifted'
             PROVE  QuotaParts'
  BY DEF QuotaInv
<1>0. /\ faults = 0 /\ ~drifted /\ QuotaParts /\ Reloading
      /\ currentSize = SizeIn(meta, Kept)
      /\ currentSize' = SizeIn(meta', Kept')
  BY FaultsGrow, DriftedStays
  DEF QuotaInv, CountInv, Counted, SizeOfAll, IntactInv, IntactParts
<1>1. CASE Store
  <2>1. PICK k \in Keys, b \in Blobs, s \in StoreStates :
          \E d \in EnvelopeExpiries(b) : StoreBegin(k, b, EffectiveState(s), d)
    BY <1>1 DEF Store
  <2>2. /\ meta' = meta /\ metaFile' = metaFile /\ currentSize' = Discounted(k)
        /\ req'.blob = b
        /\ pc' = IF OverQuota(Discounted(k), b) /\ Stored # {}
                 THEN "evict" ELSE "create"
    BY <2>1 DEF StoreBegin
  <2>3. Stored' = Stored /\ Kept' \subseteq Stored
    BY <2>2 DEF Kept, Stored
  <2>4. pc' = "create" =>
          Kept' = {} \/ ~OverQuota(SizeIn(meta', Kept'), req'.blob)
    BY <1>0, <2>2, <2>3
  <2>5. pc' # "write"
    BY <2>2
  <2> QED
    BY <1>0, <2>2, <2>3, <2>4, <2>5 DEF QuotaParts, FitsIn, SizeOfAll
<1>2. ASSUME NEW k \in Keys, RetrieveTouch(k) PROVE QuotaParts'
  <2>1. /\ meta' = [meta EXCEPT ![k].acc = clock] /\ k \in Stored
        /\ metaFile' = metaFile /\ pc' = pc /\ pc = "idle"
    BY <1>2 DEF RetrieveTouch
  <2>2. Stored' = Stored
    BY <2>1, SentinelAssumption DEF Stored, TypeOK, StorageMetadata
  <2>3. \A j \in Stored : meta'[j].blob = meta[j].blob
    BY <2>1 DEF Stored, TypeOK, StorageMetadata
  <2>4. FitsIn(meta', Stored)
    BY <1>0, <2>3, StoredEntries, FitsSubset DEF QuotaParts
  <2> QED
    BY <1>0, <2>1, <2>2, <2>4 DEF QuotaParts
<1>3. ASSUME NEW k \in Keys, EvictNext(k) PROVE QuotaParts'
  <2>1. /\ k \in Stored /\ deleteKey(k) /\ req' = req /\ metaFile' = metaFile
        /\ pc' = IF OverQuota(currentSize', req'.blob) /\ Stored \ {k} # {}
                 THEN "evict" ELSE "create"
    BY <1>3 DEF EvictNext, Victims
  <2>2. Stored' = Stored \ {k} /\ Kept' \subseteq Stored'
    BY <2>1, DeleteCounted DEF Kept
  <2>3. \A j \in Stored' : meta'[j].blob = meta[j].blob
    BY <2>1, <2>2 DEF deleteKey, Stored, TypeOK
  <2>4. FitsIn(meta', Stored')
    BY <1>0, <2>2, <2>3, StoredEntries, FitsSubset DEF QuotaParts
  <2>5. pc' = "create" =>
          Kept' = {} \/ ~OverQuota(SizeIn(meta', Kept'), req'.blob)
    BY <1>0, <2>1, <2>2
  <2>6. pc' # "write"
    BY <2>1
  <2> QED
    BY <1>0, <2>1, <2>4, <2>5, <2>6 DEF QuotaParts, FitsIn, SizeOfAll
<1>4. ASSUME NEW k \in Keys, CleanNext(k) PROVE QuotaParts'
  <2>1. /\ k \in Stored /\ deleteKey(k) /\ req' = req /\ metaFile' = metaFile
        /\ pc' \in {"clean", "save"}
    BY <1>4 DEF CleanNext, Expired
  <2>2. Stored' = Stored \ {k}
    BY <2>1, DeleteCounted
  <2>3. \A j \in Stored' : meta'[j].blob = meta[j].blob
    BY <2>1, <2>2 DEF deleteKey, Stored, TypeOK
  <2>4. FitsIn(meta', Stored')
    BY <1>0, <2>2, <2>3, StoredEntries, FitsSubset DEF QuotaParts
  <2> QED
    BY <1>0, <2>1, <2>4 DEF QuotaParts, FitsIn
<1>5. ASSUME NEW k \in Keys, LoadEntry(k) PROVE QuotaParts'
  <2> DEFINE Saved == {j \in Keys : metaFile[j] # NoMeta}
  <2>1. /\ pc = "load" /\ k \in Unloaded /\ metaFile # TornMeta
        /\ meta' = [meta EXCEPT ![k] = metaFile[k]] /\ metaFile' = metaFile
        /\ pc' \in {"idle", "load"}
    BY <1>5 DEF LoadEntry, TypeOK
  <2>2. metaFile \in [Keys -> StorageMetadata \cup {NoMeta}]
    BY <2>1 DEF TypeOK
  <2>3. \A j \in Keys : meta'[j] \in {NoMeta, metaFile[j]}
    BY <1>0, <2>1 DEF Reloading, TypeOK
  <2>4. Stored' \in SUBSET Saved /\ \A j \in Stored' : meta'[j].blob = metaFile[j].blob
    BY <2>3 DEF Stored
  <2>5. IsFiniteSet(Saved) /\ Entries(metaFile, Saved)
    <3>1. Saved \in SUBSET Keys
      OBVIOUS
    <3> QED
      BY <2>2, <3>1, StorageAssumption, FS_Subset DEF Entries
  <2>6. FitsIn(metaFile, Saved)
    BY <1>0, <2>1 DEF QuotaParts
  <2>7. FitsIn(meta', Stored')
    BY <2>4, <2>5, <2>6, FitsSubset
  <2> QED
    BY <1>0, <2>1, <2>7 DEF QuotaParts, FitsIn
<1>6. CASE WriteChunk
  <2> DEFINE k == req.key
  <2>1. /\ pc = "write" /\ req \in Request /\ pc' = "save"
        /\ req # NoReq /\ req' = NoReq
        /\ meta' = [meta EXCEPT ![k] = Entry(req)] /\ metaFile' = metaFile
        /\ currentSize' = currentSize + BlobSize[req.blob]
    BY <1>6 DEF WriteChunk, TypeOK
  <2>2. Stored' = Kept \cup {k} /\ Kept' = Stored'
    <3>1. k \in Keys /\ Entry(req) \in StorageMetadata
      BY <2>1 DEF Request, Entry, StorageMetadata, TypeOK
    <3> QED
      BY <2>1, <3>1, SentinelAssumption DEF Kept, Stored, TypeOK
  <2>3. FitsIn(meta', Stored')
    <3>1. CASE Kept = {}
      BY <2>2, <3>1 DEF FitsIn
    <3>2. CASE ~OverQuota(SizeIn(meta, Kept), req.blob)
      <4>1. SizeIn(meta, Kept) + BlobSize[req.blob] <= MaxStorage
        <5>1. /\ SizeIn(meta, Kept) \in Nat /\ BlobSize[req.blob] \in Nat
              /\ MaxStorage \in Nat
          BY <2>1, StoredEntries, SizeType, StorageAssumption
          DEF SizeOfAll, Request
        <5> QED
          BY <3>2, <5>1 DEF OverQuota
      <4> QED
        BY <1>0, <2>1, <2>2, <4>1 DEF FitsIn
    <3> QED
      BY <1>0, <2>1, <3>1, <3>2 DEF QuotaParts, SizeOfAll
  <2> QED
    BY <1>0, <2>1, <2>3 DEF QuotaParts, FitsIn
<1>7. CASE Crash
  <2>1. Stored' = {} /\ metaFile' = metaFile /\ pc' = "idle"
    BY <1>7 DEF Crash, Stored
  <2>2. FitsIn(meta', Stored')
    BY <2>1, FitsEmpty
  <2> QED
    BY <1>0, <2>1, <2>2 DEF QuotaParts, FitsIn
<1>8. CASE AsyncSave \/ CleanBegin \/ CreateFile \/ Restart \/ Tick \/ UNCHANGED vars
  BY <1>0, <1>8, QuietQuota
  DEF AsyncSave, CleanBegin, CreateFile, Restart, Tick, vars
<1>9. CASE SaveTruncate \/ SaveWrite
  BY <1>0, <1>9, QuietQuota DEF SaveTruncate, SaveWrite
<1>10. ASSUME NEW a \in Authors, NEW total \in Scores, AddScore(a, total)
       PROVE  QuotaParts'
  BY <1>0, <1>10, QuietQuota DEF AddScore
<1>11. CASE CreateFails \/ WriteFails
  BY <1>11 DEF CreateFails, WriteFails, Fault, TypeOK
<1> QED
  BY <1>1, <1>2, <1>3, <1>4, <1>5, <1>6, <1>7, <1>8, <1>9, <1>10, <1>11
  DEF Next, MutexStep

\* The quota holds of the entries, but for a single one larger than it
\* (storage.go:119-128), across evictions, crashes and reloads.
THEOREM QuotaKept == Spec => []QuotaOrAlone
<1>1. Init => QuotaInv
  <2> SUFFICES ASSUME Init PROVE QuotaParts
    BY DEF QuotaInv
  <2>1. Stored = {} /\ {k \in Keys : metaFile[k] # NoMeta} = {} /\ pc = "idle"
    BY DEF Init, Stored
  <2> QED
    BY <2>1, FitsEmpty DEF QuotaParts
<1>2. /\ TypeOK /\ CountInv /\ IntactInv /\ QuotaInv /\ [Next]_vars
      /\ TypeOK' /\ CountInv'
      => QuotaInv'
  BY QuotaStep
<1>3. TypeOK /\ QuotaInv => QuotaOrAlone
  <2> SUFFICES ASSUME TypeOK, FitsIn(meta, Stored)
               PROVE  TrueSize <= MaxStorage \/ Cardinality(Stored) = 1
    BY DEF QuotaInv, QuotaParts, QuotaOrAlone
  <2> QED
    BY FS_Singleton DEF FitsIn, TrueSize, SizeOfAll
<1> QED
  BY <1>1, <1>2, <1>3, CountInvariant, IntactInvariant, PTL DEF Spec

-----------------------------------------------------------------------------

\* At rest, with no save outstanding and a whole metadata.json, a restart
\* would load what is in memory (saveMetadata is called by whatever changes
\* the entries, and loadMetadata brings back the file).
THEOREM RestIsSaved == Spec => []SavedAtRest
<1> DEFINE SavedInv == faults = 0 => SavedAtRest
<1>1. Init => SavedInv
  BY DEF Init, SavedAtRest
<1>2. TypeOK /\ TypeOK' /\ IntactInv /\ SavedInv /\ [Next]_vars => SavedInv'
  <2> SUFFICES ASSUME TypeOK, TypeOK', IntactInv, SavedInv, [Next]_vars, faults' = 0,
                      pc' = "idle", up', saves' = 0, metaFile' # TornMeta
               PROVE  metaFile' = meta'
    BY DEF SavedAtRest
  <2>0. faults = 0 /\ SavedAtRest /\ Reloading
    BY FaultsGrow DEF IntactInv, IntactParts
  <2> USE DEF memory, disk, environment, history
  <2>1. ASSUME NEW k \in Keys, LoadEntry(k) PROVE metaFile' = meta'
    <3>1. /\ pc = "load" /\ metaFile # TornMeta /\ Unloaded = {k}
          /\ meta' = [meta EXCEPT ![k] = metaFile[k]] /\ metaFile' = metaFile
      BY <2>1 DEF LoadEntry, TypeOK
    <3>2. \A j \in Keys : meta'[j] = metaFile[j]
      BY <2>0, <3>1 DEF Reloading, Unloaded, TypeOK
    <3>3. /\ metaFile \in [Keys -> StorageMetadata \cup {NoMeta}]
          /\ meta' \in [Keys -> StorageMetadata \cup {NoMeta}]
      BY <3>1 DEF TypeOK
    <3> QED
      BY <3>1, <3>2, <3>3
  <2>2. CASE Restart
    <3>1. /\ ~up /\ metaFile # TornMeta /\ Unloaded = {}
          /\ meta' = meta /\ metaFile' = metaFile
      BY <2>2 DEF Restart
    <3>2. \A j \in Keys : meta[j] = metaFile[j]
      BY <2>0, <3>1 DEF Reloading, Unloaded
    <3>3. /\ metaFile \in [Keys -> StorageMetadata \cup {NoMeta}]
          /\ meta \in [Keys -> StorageMetadata \cup {NoMeta}]
      BY <3>1 DEF TypeOK
    <3> QED
      BY <3>1, <3>2, <3>3
  <2>3. CASE SaveTruncate \/ SaveWrite
    BY <2>3, <2>0 DEF SaveTruncate, SaveWrite, Fault
  <2>4. ASSUME NEW k \in Keys, EvictNext(k) \/ CleanNext(k) \/ RetrieveTouch(k)
        PROVE  FALSE
    BY <2>4 DEF EvictNext, CleanNext, RetrieveTouch, TypeOK
  <2>5. CASE Store \/ AsyncSave \/ CleanBegin \/ CreateFile \/ CreateFails
             \/ WriteFails \/ WriteChunk \/ Crash
    BY <2>0, <2>5
    DEF Store, StoreBegin, AsyncSave, CleanBegin, CreateFile, CreateFails,
        WriteFails, WriteChunk, Crash, Fault
  <2>6. CASE Tick \/ UNCHANGED vars
    BY <2>0, <2>6 DEF Tick, vars, SavedAtRest
  <2>7. ASSUME NEW a \in Authors, NEW total \in Scores, AddScore(a, total)
        PROVE  metaFile' = meta'
    BY <2>0, <2>7 DEF AddScore, SavedAtRest
  <2> QED
    BY <2>1, <2>2, <2>3, <2>4, <2>5, <2>6, <2>7 DEF Next, MutexStep
<1>3. SavedInv => SavedAtRest
  BY DEF SavedAtRest
<1> QED
  BY <1>1, <1>2, <1>3, TypeCorrect, IntactInvariant, PTL DEF Spec
=============================================================================
