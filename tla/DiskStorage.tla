----------------------------- MODULE DiskStorage -----------------------------
(***************************************************************************)
(* The chunk store of a node (src/internal/dht/storage.go): an in-memory    *)
(* metadata map, one gzip file per chunk, and metadata.json, which is       *)
(* rewritten as a whole after every change.  Every operation holds the      *)
(* mutex from start to end, so operations do not interleave; what can fall  *)
(* between two of their steps is a crash of the process, which is why an    *)
(* operation is cut here at every write it makes to the disk.               *)
(***************************************************************************)
EXTENDS Integers, FiniteSetsExt

CONSTANTS
  Keys,         \* chunk identifiers (NodeID)
  Blobs,        \* chunk contents
  BlobSize,     \* [Blobs -> Nat \ {0}], len(data)
  BlobAuthor,   \* [Blobs -> Authors \cup {NoAuthor}], pub_key of the envelope
  Authors, NoAuthor,
  MaxStorage,   \* the quota; 0 is "no quota"
  StoreStates,  \* the states callers pass to Store
  Hour, Day,    \* the two TTLs
  Scores,       \* the reputation scores considered
  NoMeta, NoFile, Torn, TornMeta, NoReq,
  MaxClock, MaxCrashes, MaxSaves,  \* bounds of the instance
  MaxFaults,    \* bound: the disk errors that may occur
  MaxDrift      \* bound: how far below zero currentSize may be taken

ChunkState == {"modified", "staged", "committed", "index"}

ASSUME StorageAssumption ==
  /\ BlobSize \in [Blobs -> Nat \ {0}]
  /\ BlobAuthor \in [Blobs -> Authors \cup {NoAuthor}]
  /\ IsFiniteSet(Keys)
  /\ StoreStates \subseteq ChunkState \cup {""}
  /\ MaxStorage \in Nat /\ Hour \in Nat /\ Day \in Nat \ {0}
  /\ Scores \subseteq Int /\ 0 \in Scores
  /\ MaxClock \in Nat /\ MaxCrashes \in Nat /\ MaxSaves \in Nat
  /\ MaxDrift \in Nat /\ MaxFaults \in Nat
  /\ NoFile \notin Blobs /\ Torn \notin Blobs /\ NoFile # Torn

\* A metadata entry.  Its size and author are those of the blob it was
\* written for, so the entry names that blob instead.
StorageMetadata == [blob : Blobs, exp : Nat, acc : Nat, state : ChunkState]
Request == [key : Keys, blob : Blobs, exp : Nat, state : ChunkState]

ASSUME SentinelAssumption ==
  /\ NoMeta \notin StorageMetadata
  /\ NoReq \notin Request
  /\ TornMeta \notin [Keys -> StorageMetadata \cup {NoMeta}]

VARIABLES
  meta,         \* s.metadata
  file,         \* the <key>.gz files: a blob, NoFile, or Torn (unreadable)
  metaFile,     \* metadata.json: the map it holds, or TornMeta (not JSON)
  currentSize,  \* s.currentSize
  clock,        \* time.Now()
  score,        \* the reputation store, as the evictor reads it
  pc,           \* the step the holder of s.mu takes next
  req,          \* the Store call in progress
  saves,        \* goroutines started by Retrieve that wait for s.mu
  up,           \* the process runs
  crashes,      \* crashes so far (bound)
  faults,       \* history: calls of the os package that failed
  drifted       \* history: a Store has evicted the entry it overwrites

vars == <<meta, file, metaFile, currentSize, clock, score, pc, req, saves,
          up, crashes, faults, drifted>>
memory == <<meta, currentSize, saves>>
disk == <<file, metaFile>>
environment == <<clock, score, up, crashes>>
history == <<faults, drifted>>

Stored == {k \in Keys : meta[k] # NoMeta}
SizeOf(m) == BlobSize[m.blob]
CommittedIn(m, k) == m[k] # NoMeta /\ m[k].state = "committed"
Committed(k) == CommittedIn(meta, k)

Init ==
  /\ meta = [k \in Keys |-> NoMeta]
  /\ file = [k \in Keys |-> NoFile]
  /\ metaFile = [k \in Keys |-> NoMeta]
  /\ currentSize = 0
  /\ clock = 0
  /\ score = [a \in Authors |-> 0]
  /\ pc = "idle"
  /\ req = NoReq
  /\ saves = 0
  /\ up = TRUE
  /\ crashes = 0
  /\ faults = 0
  /\ drifted = FALSE

\* A call of the os package fails, or does not.
Fault == faults < MaxFaults /\ faults' = faults + 1
NoFault == faults' = faults

-----------------------------------------------------------------------------
(* Store *)

KeepEmptyState(s) == s   \* mutant: the default is forgotten
EffectiveState(s) == IF s = "" THEN "modified" ELSE s

\* The expiry dates an envelope around b may carry at this moment: a signed
\* chunk expires a day after it was signed, raw data carries no date (0).
EnvelopeExpiries(b) ==
  IF BlobAuthor[b] = NoAuthor THEN {0} ELSE {t + Day : t \in 0..clock}

\* The expiry Store records: the envelope's wins over the state's TTL.
ExpiresAt(s, d) ==
  IF d > 0 THEN d ELSE clock + (IF s = "modified" THEN Hour ELSE Day)

\* mutant: the quota is checked before the new chunk is counted
OverQuotaBefore(size, b) == MaxStorage > 0 /\ size > MaxStorage
OverQuota(size, b) == MaxStorage > 0 /\ size + BlobSize[b] > MaxStorage

NotDiscounted(k) == currentSize   \* mutant: an overwritten chunk counts twice

\* currentSize once the entry about to be overwritten is discounted.
Discounted(k) ==
  IF meta[k] = NoMeta THEN currentSize ELSE currentSize - SizeOf(meta[k])

AnyWritable(k) == TRUE   \* mutant: no immutability check

\* The immutability check, under the lock and before anything changes.
Writable(k) == ~Committed(k)

\* Lines 86-128 up to the call of evict.  A refused Store changes nothing.
StoreBegin(k, b, s, d) ==
  /\ up /\ pc = "idle"
  /\ Writable(k)
  /\ Discounted(k) >= -MaxDrift
  /\ currentSize' = Discounted(k)
  /\ req' = [key |-> k, blob |-> b, exp |-> ExpiresAt(s, d), state |-> s]
  /\ pc' = IF OverQuota(Discounted(k), b) /\ Stored # {}
           THEN "evict" ELSE "create"
  /\ UNCHANGED <<meta, saves, disk, environment, history>>

Reputation(k) ==
  LET a == BlobAuthor[meta[k].blob] IN IF a = NoAuthor THEN 0 ELSE score[a]

\* The order of eviction: lower reputation first, then least recently used.
EvictedBefore(k, j) ==
  \/ Reputation(k) < Reputation(j)
  \/ Reputation(k) = Reputation(j) /\ meta[k].acc < meta[j].acc

Victims == {k \in Stored : \A j \in Stored : ~EvictedBefore(j, k)}

\* mutant: a deletion leaves the counter alone
deleteKeyUncounted(k) ==
  /\ file' = [file EXCEPT ![k] = NoFile] /\ NoFault
  /\ meta' = [meta EXCEPT ![k] = NoMeta]
  /\ UNCHANGED currentSize

\* deleteKey: the file goes, then the entry; a failure to remove is ignored.
deleteKey(k) ==
  /\ \/ file' = [file EXCEPT ![k] = NoFile] /\ NoFault
     \/ file' = file /\ Fault
  /\ currentSize' = currentSize - SizeOf(meta[k])
  /\ meta' = [meta EXCEPT ![k] = NoMeta]

\* One round of the loop of evict; the sorted candidates are all entries,
\* the one being overwritten included.
EvictNext(k) ==
  /\ pc = "evict"
  /\ k \in Victims
  /\ deleteKey(k)
  /\ drifted' = (drifted \/ k = req.key)
  /\ pc' = IF OverQuota(currentSize', req.blob) /\ Stored \ {k} # {}
           THEN "evict" ELSE "create"
  /\ UNCHANGED <<metaFile, req, saves, environment>>

\* os.Create truncates what was there.
CreateFile ==
  /\ pc = "create"
  /\ file' = [file EXCEPT ![req.key] = Torn]
  /\ pc' = "write"
  /\ UNCHANGED <<memory, metaFile, req, environment, history>>

Abandon == pc' = "idle" /\ req' = NoReq

CreateFails ==
  /\ pc = "create" /\ Fault
  /\ Abandon
  /\ UNCHANGED <<memory, disk, environment, drifted>>

WriteFails ==
  /\ pc = "write" /\ Fault
  /\ Abandon
  /\ UNCHANGED <<memory, disk, environment, drifted>>

Entry(r) == [blob |-> r.blob, exp |-> r.exp, acc |-> clock, state |-> r.state]

\* The compressed data reaches the file when the gzip writer is closed; an
\* error of Close is ignored, and the entry is recorded all the same.
WriteChunk ==
  /\ pc = "write"
  /\ \/ file' = [file EXCEPT ![req.key] = req.blob] /\ NoFault
     \/ file' = file /\ Fault
  /\ meta' = [meta EXCEPT ![req.key] = Entry(req)]
  /\ currentSize' = currentSize + BlobSize[req.blob]
  /\ pc' = "save"
  /\ req' = NoReq
  /\ UNCHANGED <<saves, metaFile, environment, drifted>>

-----------------------------------------------------------------------------
(* saveMetadata: os.WriteFile truncates metadata.json, then writes it.  Its *)
(* errors are ignored by every caller.                                      *)

SaveTruncate ==
  /\ pc = "save"
  /\ \/ metaFile' = TornMeta /\ pc' = "saving" /\ NoFault
     \/ metaFile' = metaFile /\ pc' = "idle" /\ Fault
  /\ UNCHANGED <<memory, file, req, environment, drifted>>

SaveWrite ==
  /\ pc = "saving"
  /\ \/ metaFile' = meta /\ NoFault
     \/ metaFile' = metaFile /\ Fault
  /\ pc' = "idle"
  /\ UNCHANGED <<memory, file, req, environment, drifted>>

\* Retrieve touches the entry and leaves the save to a goroutine.
RetrieveTouch(k) ==
  /\ up /\ pc = "idle"
  /\ k \in Stored
  /\ saves < MaxSaves
  /\ meta' = [meta EXCEPT ![k].acc = clock]
  /\ saves' = saves + 1
  /\ UNCHANGED <<currentSize, disk, pc, req, environment, history>>

\* What Retrieve returns: it opens the file, whatever the metadata say.
Retrievable(k) == file[k] \in Blobs

\* mutant: the goroutine gives up instead of saving
AsyncSaveSkipped ==
  /\ up /\ pc = "idle" /\ saves > 0
  /\ saves' = saves - 1
  /\ UNCHANGED <<meta, currentSize, disk, pc, req, environment, history>>

AsyncSave ==
  /\ up /\ pc = "idle"
  /\ saves > 0
  /\ saves' = saves - 1
  /\ pc' = "save"
  /\ UNCHANGED <<meta, currentSize, disk, req, environment, history>>

-----------------------------------------------------------------------------
(* CleanExpired, called every 10 minutes by the garbage collector.          *)

Expired(k) == k \in Stored /\ meta[k].exp > 0 /\ meta[k].exp < clock

\* A sweep that finds nothing expired changes nothing and is left out.
CleanBegin ==
  /\ up /\ pc = "idle"
  /\ \E k \in Keys : Expired(k)
  /\ pc' = "clean"
  /\ UNCHANGED <<memory, disk, req, environment, history>>

CleanNext(k) ==
  /\ pc = "clean"
  /\ Expired(k)
  /\ deleteKey(k)
  /\ pc' = IF \E j \in Keys \ {k} : Expired(j) THEN "clean" ELSE "save"
  /\ UNCHANGED <<metaFile, req, saves, environment, drifted>>

-----------------------------------------------------------------------------
(* The process stops at any moment, and NewDiskStorage loads the metadata.  *)

Crash ==
  /\ up /\ crashes < MaxCrashes
  /\ up' = FALSE
  /\ crashes' = crashes + 1
  /\ meta' = [k \in Keys |-> NoMeta]
  /\ currentSize' = 0
  /\ pc' = "idle"
  /\ req' = NoReq
  /\ saves' = 0
  /\ UNCHANGED <<disk, clock, score, history>>

Unloaded == {k \in Keys : metaFile[k] # NoMeta /\ meta[k] = NoMeta}

\* A metadata.json that cannot be parsed is logged and otherwise ignored.
Restart ==
  /\ ~up
  /\ up' = TRUE
  /\ pc' = IF metaFile = TornMeta \/ Unloaded = {} THEN "idle" ELSE "load"
  /\ UNCHANGED <<memory, disk, req, clock, score, crashes, history>>

\* mutant: loaded entries are not counted
LoadEntryUncounted(k) ==
  /\ pc = "load" /\ k \in Unloaded
  /\ meta' = [meta EXCEPT ![k] = metaFile[k]]
  /\ pc' = IF Unloaded = {k} THEN "idle" ELSE "load"
  /\ UNCHANGED <<currentSize, saves, disk, req, environment, history>>

LoadEntry(k) ==
  /\ pc = "load"
  /\ k \in Unloaded
  /\ meta' = [meta EXCEPT ![k] = metaFile[k]]
  /\ currentSize' = currentSize + SizeOf(metaFile[k])
  /\ pc' = IF Unloaded = {k} THEN "idle" ELSE "load"
  /\ UNCHANGED <<saves, disk, req, environment, history>>

-----------------------------------------------------------------------------
(* The environment: time, and ratings that move an author's score.          *)

Tick ==
  /\ pc = "idle" /\ clock < MaxClock
  /\ clock' = clock + 1
  /\ UNCHANGED <<memory, disk, pc, req, score, up, crashes, history>>

\* A rating moves a score by any amount.  evict reads the scores once, when
\* it collects its candidates.
AddScore(a, total) ==
  /\ up /\ pc # "evict"
  /\ score' = [score EXCEPT ![a] = total]
  /\ UNCHANGED <<memory, disk, pc, req, clock, up, crashes, history>>

Store ==
  \E k \in Keys, b \in Blobs, s \in StoreStates :
    \E d \in EnvelopeExpiries(b) : StoreBegin(k, b, EffectiveState(s), d)

\* The steps of whoever holds the mutex, none of which waits for anything.
MutexStep ==
  \/ \E k \in Keys : EvictNext(k) \/ CleanNext(k) \/ LoadEntry(k)
  \/ CreateFile \/ CreateFails \/ WriteFails \/ WriteChunk
  \/ SaveTruncate \/ SaveWrite

Next ==
  \/ Store
  \/ \E k \in Keys : RetrieveTouch(k)
  \/ AsyncSave
  \/ CleanBegin
  \/ MutexStep
  \/ Crash
  \/ Restart
  \/ Tick
  \/ \E a \in Authors, total \in Scores : AddScore(a, total)

Spec == Init /\ [][Next]_vars

-----------------------------------------------------------------------------
(* Properties *)

\* Every variable has its type; currentSize may be any integer.
TypeOK ==
  /\ meta \in [Keys -> StorageMetadata \cup {NoMeta}]
  /\ file \in [Keys -> Blobs \cup {NoFile, Torn}]
  /\ metaFile \in [Keys -> StorageMetadata \cup {NoMeta}] \cup {TornMeta}
  /\ currentSize \in Int
  /\ clock \in Nat
  /\ score \in [Authors -> Int]
  /\ pc \in {"idle", "evict", "create", "write", "save", "saving",
             "clean", "load"}
  /\ pc = "load" => metaFile # TornMeta
  /\ req \in Request \cup {NoReq}
  /\ (req # NoReq) <=> (pc \in {"evict", "create", "write"})
  /\ saves \in Nat
  /\ up \in BOOLEAN
  /\ ~up => pc = "idle"
  /\ crashes \in Nat
  /\ faults \in Nat /\ drifted \in BOOLEAN

\* Immutability of committed chunks: whatever crashes happen, as long as the
\* disk itself does not fail, the file of an entry that says "committed" is
\* the content it was committed with, or is gone (a deletion whose save was
\* cut short); it is never another content and never half-written.
Intact == \A k \in Keys : Committed(k) => file[k] \in {NoFile, meta[k].blob}
CommittedIntact == faults = 0 => Intact

\* What CommittedIntact needs to be inductive: it holds of metadata.json too;
\* no Store in progress is about a chunk committed in memory or on the disk;
\* at rest, memory knows every chunk that metadata.json calls committed; and
\* a reload brings back what metadata.json holds.
DurableIntact ==
  metaFile # TornMeta =>
    \A k \in Keys : CommittedIn(metaFile, k) => file[k] \in {NoFile, metaFile[k].blob}

RequestWritable ==
  req # NoReq =>
    /\ ~Committed(req.key)
    /\ metaFile # TornMeta => ~CommittedIn(metaFile, req.key)

InSync ==
  up /\ pc = "idle" /\ metaFile # TornMeta =>
    \A k \in Keys : CommittedIn(metaFile, k) => Committed(k)

Reloading ==
  /\ ~up => \A k \in Keys : meta[k] = NoMeta
  /\ pc = "load" => \A k \in Keys : meta[k] \in {NoMeta, metaFile[k]}

IntactParts ==
  Intact /\ DurableIntact /\ RequestWritable /\ InSync /\ Reloading
IntactInv == faults = 0 => IntactParts

\* The sizes of the entries of S in the map m, added up: as many as they have
\* bytes.
BytesIn(m, S) == UNION {{k} \X (1..SizeOf(m[k])) : k \in S}
SizeIn(m, S) == Cardinality(BytesIn(m, S))

SizeOfAll(S) == SizeIn(meta, S)
TrueSize == SizeOfAll(Stored)

\* The counter that stands for the quota never exceeds what is stored, on
\* any path: overwriting, eviction, failed writes, crashes and reloads.
NeverOvercounts == currentSize <= TrueSize

\* The store evicts only out of need: an entry leaves in an eviction only
\* when the entries the new chunk does not replace, together with the new
\* chunk, exceed the quota.
EvictionNeeded ==
  [][\A k \in Stored :
       pc = "evict" /\ up' /\ meta'[k] = NoMeta =>
         OverQuota(SizeOfAll(Stored \ {req.key}), req.blob)]_vars

\* The quota: the entries fit in MaxStorage, except for a single entry
\* larger than the quota, which Store admits once all others are evicted.
\* It is broken only by a Store that evicts the entry it overwrites, whose
\* size is then taken off the counter twice (lines 94 and 285), and by errors
\* of the disk.
QuotaOrAlone ==
  MaxStorage > 0 /\ faults = 0 /\ ~drifted =>
    \/ TrueSize <= MaxStorage
    \/ Cardinality(Stored) = 1

\* At rest, and but for the same two causes, the counter is exact.
AccountingExact ==
  pc = "idle" /\ faults = 0 /\ ~drifted => currentSize = TrueSize

\* What these three need to be inductive.  A Store in progress has taken the
\* entry it overwrites off the counter; it evicts while the chunk does not
\* fit, and writes the chunk once it does; what fits in memory was saved, and
\* is reloaded one entry at a time.
Kept == IF req = NoReq THEN Stored ELSE Stored \ {req.key}

FitsIn(m, S) == SizeIn(m, S) <= MaxStorage \/ \E k \in S : S = {k}

Counted ==
  /\ currentSize <= SizeOfAll(Kept)
  /\ faults = 0 /\ ~drifted => currentSize = SizeOfAll(Kept)

EvictingOver == pc = "evict" => OverQuota(currentSize, req.blob)

QuotaParts ==
  /\ FitsIn(meta, Stored)
  /\ metaFile # TornMeta => FitsIn(metaFile, {k \in Keys : metaFile[k] # NoMeta})
  /\ pc \in {"create", "write"} =>
       Kept = {} \/ ~OverQuota(SizeOfAll(Kept), req.blob)

CountInv == Counted /\ EvictingOver
QuotaInv == MaxStorage > 0 /\ faults = 0 /\ ~drifted => QuotaParts

\* At rest, with no save of Retrieve outstanding, what is in memory is what
\* a restart would load: also after a crash, and unless it tore the file.
SavedAtRest ==
  pc = "idle" /\ up /\ saves = 0 /\ faults = 0 /\ metaFile # TornMeta =>
    metaFile = meta

-----------------------------------------------------------------------------
(* What the sources say of the store, and it does not do (see README.md).   *)

\* storage.go:84: "Store saves data and updates metadata": an entry recorded
\* by a Store that reported success can be read back.
StoredIsReadable ==
  crashes = 0 /\ pc = "idle" => \A k \in Stored : file[k] = meta[k].blob

\* storage.go:84: Store enforces the quota: the chunks on the disk fit.
DiskQuota ==
  LET onDisk == {k \in Keys : Retrievable(k)}
  IN  Cardinality(onDisk) > 1 =>
        MapThenSumSet(LAMBDA k : BlobSize[file[k]], onDisk) <= MaxStorage

\* storage.go:30 and 104: a modified chunk expires within the hour.
ModifiedExpireFast ==
  \A k \in Stored : meta[k].state = "modified" => meta[k].exp <= clock + Hour
=============================================================================
