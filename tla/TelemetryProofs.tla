--------------------------- MODULE TelemetryProofs ---------------------------
(***************************************************************************)
(* Proofs about Telemetry, for every number of threads and identities and  *)
(* every size of the cache.                                                *)
(***************************************************************************)
EXTENDS Telemetry, FiniteSetTheorems, TLAPS

Samples == [from : Targets, base : Targets \union {Free}]

(***************************************************************************)
(* The type invariant with the contents of the cache.                      *)
(***************************************************************************)
TelemetryTyped ==
    /\ target \in Targets /\ {health, counters} \subseteq Targets \union {Free}
    /\ DOMAIN cache \subseteq SampleKeys /\ \A k \in DOMAIN cache : cache[k].sample \in Samples
    /\ IsFiniteSet(DOMAIN cache) /\ Cardinality(DOMAIN cache) <= CacheSize
    /\ DOMAIN owner \subseteq SampleKeys /\ \A k \in DOMAIN owner : owner[k] \in Threads
    /\ reader \in [Threads -> {Free} \union OwningReaders \union WaitingReaders]
    /\ holder \in Threads \union {Free} /\ {mixed, late} \subseteq BOOLEAN
    /\ patches \in [Threads -> {Free} \union Patches]

Owns(t) == At(t, "owns") \/ At(t, "samples")

LEMMA ReaderSorts ==
  ASSUME TelemetryTyped, NEW t \in Threads, reader[t] # Free
  PROVE  /\ reader[t].step \in {"owns", "samples", "waits", "signalled"}
         /\ reader[t].key \in SampleKeys /\ reader[t].wanted \in Targets
         /\ Owns(t) => reader[t] \in OwningReaders
         /\ ~Owns(t) => reader[t] \in WaitingReaders /\ reader[t].for \in Threads
  BY DEF TelemetryTyped, OwningReaders, WaitingReaders, Owns, At

LEMMA WithoutKey ==
  ASSUME NEW f, NEW key
  PROVE  /\ DOMAIN Without(f, key) = DOMAIN f \ {key}
         /\ \A k \in DOMAIN f \ {key} : Without(f, key)[k] = f[k]
  BY DEF Without

LEMMA WithKey ==
  ASSUME NEW f, NEW key, NEW value
  PROVE  DOMAIN With(f, key, value) = DOMAIN f \union {key}
  BY DEF With

LEMMA TelemetryTypedInit == TelemetryInit => TelemetryTyped
<1> SUFFICES ASSUME TelemetryInit PROVE TelemetryTyped
  OBVIOUS
<1>1. DOMAIN cache = {} /\ DOMAIN owner = {}
  BY DEF TelemetryInit
<1>2. IsFiniteSet(DOMAIN cache) /\ Cardinality(DOMAIN cache) = 0
  BY <1>1, FS_EmptySet
<1>3. target \in Targets
  BY DEF TelemetryInit, Targets
<1>4. 0 <= CacheSize
  BY TelemetryAssumption
<1>5. reader \in [Threads -> {Free} \union OwningReaders \union WaitingReaders]
  BY DEF TelemetryInit
<1>6. health \in {Free} /\ counters \in {Free} /\ holder \in {Free} /\ mixed = FALSE /\ late = FALSE
      /\ patches \in [Threads -> {Free} \union Patches]
  BY DEF TelemetryInit
<1> QED
  BY <1>1, <1>2, <1>3, <1>4, <1>5, <1>6 DEF TelemetryTyped

\* Eviction keeps the cache within its size.
LEMMA CacheBounded ==
  ASSUME TelemetryTyped, NEW drop \in Evicted, NEW key, NEW value
  PROVE  LET new == With(Without(cache, drop), key, value)
         IN  IsFiniteSet(DOMAIN new) /\ Cardinality(DOMAIN new) <= CacheSize
<1> DEFINE new == With(Without(cache, drop), key, value)
           n == Cardinality(DOMAIN cache)
           kept == DOMAIN cache \ {drop}
<1>1. DOMAIN new = kept \union {key}
  <2>1. DOMAIN Without(cache, drop) = kept
    BY WithoutKey
  <2> DEFINE old == Without(cache, drop)
  <2> HIDE DEF old, kept
  <2>2. DOMAIN With(old, key, value) = DOMAIN old \union {key}
    BY WithKey
  <2>3. DOMAIN old = kept
    BY <2>1 DEF old
  <2> QED
    BY <2>2, <2>3 DEF old
<1>2. IsFiniteSet(DOMAIN cache) /\ n \in Nat /\ n <= CacheSize /\ CacheSize \in Nat \ {0}
  BY FS_CardinalityType, TelemetryAssumption DEF TelemetryTyped
<1>3. IsFiniteSet(kept) /\ Cardinality(kept) = IF drop \in DOMAIN cache THEN n - 1 ELSE n
  BY <1>2, FS_RemoveElement
<1>4. Cardinality(kept) \in Nat
  BY <1>3, FS_CardinalityType
<1>5. Cardinality(kept) < CacheSize
  <2>1. CASE n >= CacheSize
    BY <1>2, <1>3, <1>4, <2>1 DEF Evicted
  <2>2. CASE ~(n >= CacheSize)
    BY <1>2, <1>3, <1>4, <2>2
  <2> QED
    BY <2>1, <2>2
<1> HIDE DEF kept
<1>6. /\ IsFiniteSet(kept \union {key})
      /\ Cardinality(kept \union {key}) = IF key \in kept THEN Cardinality(kept) ELSE Cardinality(kept) + 1
  BY <1>3, FS_AddElement
<1>7. Cardinality(kept \union {key}) <= CacheSize
  BY <1>2, <1>4, <1>5, <1>6
<1> QED
  BY <1>1, <1>6, <1>7

\* The end of a sampling frees its key and wakes who waited for it.
LEMMA SignalledReaders ==
  ASSUME TelemetryTyped, NEW t \in Threads, reader' = Signalled(t)
  PROVE  /\ reader' \in [Threads -> {Free} \union OwningReaders \union WaitingReaders]
         /\ reader'[t] = Free
         /\ \A s \in Threads \ {t} :
              \/ reader'[s] = reader[s] /\ ~(At(s, "waits") /\ reader[s].for = t)
              \/ /\ reader[s] # Free /\ reader'[s].step = "signalled"
                 /\ reader'[s].key = reader[s].key /\ reader'[s].wanted = reader[s].wanted
<1>1. reader'[t] = Free
  BY DEF Signalled
<1>2. ASSUME NEW s \in Threads \ {t}, At(s, "waits"), NEW q, q = [reader[s] EXCEPT !.step = "signalled"]
      PROVE  /\ q \in WaitingReaders /\ q.step = "signalled"
             /\ q.key = reader[s].key /\ q.wanted = reader[s].wanted
  <2>1. reader[s] \in WaitingReaders
    BY <1>2, ReaderSorts DEF At, Owns
  <2> QED
    BY <1>2, <2>1 DEF WaitingReaders
<1>3. \A s \in Threads \ {t} :
         \/ reader'[s] = reader[s] /\ ~(At(s, "waits") /\ reader[s].for = t)
         \/ At(s, "waits") /\ reader'[s] = [reader[s] EXCEPT !.step = "signalled"]
  BY DEF Signalled
<1>4. \A s \in Threads : reader'[s] \in {Free} \union OwningReaders \union WaitingReaders
  BY <1>1, <1>2, <1>3 DEF TelemetryTyped
<1>5. reader' = [s \in Threads |-> reader'[s]]
  BY DEF Signalled
<1>6. reader' \in [Threads -> {Free} \union OwningReaders \union WaitingReaders]
  BY <1>4, <1>5
<1> QED
  BY <1>1, <1>2, <1>3, <1>6 DEF At

(***************************************************************************)
(* Types are kept, one lemma per action.                                   *)
(***************************************************************************)
LEMMA AsksTyped ==
  ASSUME TelemetryTyped, NEW t \in Threads, NEW f \in Samplers, Asks(t, f)
  PROVE  TelemetryTyped'
<1> DEFINE key == Key(f)
<1>1. key \in SampleKeys /\ target \in Targets
  BY DEF Key, SampleKeys, TelemetryTyped
<1>2. UNCHANGED <<target, health, counters, holder, patches, late>>
  BY DEF Asks
<1>3. mixed' \in BOOLEAN
  BY DEF Asks, Gets, TelemetryTyped
<1>4. CASE UNCHANGED <<reader, owner, cache>>
  BY <1>2, <1>3, <1>4 DEF TelemetryTyped
<1>5. CASE /\ key \in DOMAIN owner
           /\ reader' = [reader EXCEPT ![t] = [step |-> "waits", key |-> key, wanted |-> target, for |-> owner[key]]]
           /\ UNCHANGED <<owner, cache>>
  <2> DEFINE q == [step |-> "waits", key |-> key, wanted |-> target, for |-> owner[key]]
  <2>1. owner[key] \in Threads
    BY <1>5 DEF TelemetryTyped
  <2>2. q \in WaitingReaders
    BY <1>1, <2>1 DEF WaitingReaders
  <2> HIDE DEF q
  <2>3. reader' \in [Threads -> {Free} \union OwningReaders \union WaitingReaders]
    BY <1>5, <2>2 DEF TelemetryTyped, q
  <2> QED
    BY <1>2, <1>3, <1>5, <2>3 DEF TelemetryTyped
<1>6. CASE /\ reader' = [reader EXCEPT ![t] = [step |-> "owns", key |-> key, wanted |-> target]]
           /\ owner' = With(owner, key, t)
           /\ cache' = Without(cache, key)
  <2> DEFINE q == [step |-> "owns", key |-> key, wanted |-> target]
  <2>1. q \in OwningReaders
    BY <1>1 DEF OwningReaders
  <2> HIDE DEF q, key
  <2>2. reader' \in [Threads -> {Free} \union OwningReaders \union WaitingReaders]
    BY <1>6, <2>1 DEF TelemetryTyped, q
  <2>3. /\ DOMAIN With(owner, key, t) = DOMAIN owner \union {key}
        /\ With(owner, key, t)[key] = t
        /\ \A k \in DOMAIN owner \ {key} : With(owner, key, t)[k] = owner[k]
    <3>1. DOMAIN With(owner, key, t) = DOMAIN owner \union {key}
      BY WithKey
    <3>2. With(owner, key, t)[key] = t
      BY DEF With
    <3>3. \A k \in DOMAIN owner \ {key} : With(owner, key, t)[k] = owner[k]
      BY DEF With
    <3> QED
      BY <3>1, <3>2, <3>3
  <2>4. DOMAIN cache' = DOMAIN cache \ {key} /\ \A k \in DOMAIN cache \ {key} : cache'[k] = cache[k]
    BY <1>6, WithoutKey
  <2>5. DOMAIN owner' \subseteq SampleKeys /\ \A k \in DOMAIN owner' : owner'[k] \in Threads
    BY <1>1, <1>6, <2>3 DEF TelemetryTyped
  <2>6. DOMAIN cache' \subseteq SampleKeys /\ \A k \in DOMAIN cache' : cache'[k].sample \in Samples
    BY <2>4 DEF TelemetryTyped
  <2>7. IsFiniteSet(DOMAIN cache') /\ Cardinality(DOMAIN cache') <= CacheSize
    <3> DEFINE n == Cardinality(DOMAIN cache)
    <3>1. IsFiniteSet(DOMAIN cache) /\ n \in Nat /\ n <= CacheSize /\ CacheSize \in Nat
      BY FS_CardinalityType, TelemetryAssumption DEF TelemetryTyped
    <3>2. /\ IsFiniteSet(DOMAIN cache \ {key})
          /\ Cardinality(DOMAIN cache \ {key}) = IF key \in DOMAIN cache THEN n - 1 ELSE n
      BY <3>1, FS_RemoveElement
    <3> HIDE DEF n
    <3> QED
      BY <2>4, <3>1, <3>2
  <2> QED
    BY <1>2, <1>3, <2>2, <2>5, <2>6, <2>7 DEF TelemetryTyped
<1> QED
  BY <1>4, <1>5, <1>6 DEF Asks

LEMMA LocksTyped ==
  ASSUME TelemetryTyped, NEW t \in Threads, Locks(t)
  PROVE  TelemetryTyped'
<1> DEFINE q == [reader[t] EXCEPT !.step = "samples"]
<1>1. reader[t] # Free /\ Owns(t)
  BY DEF Locks, At, Owns
<1>2. q \in OwningReaders
  BY <1>1, ReaderSorts DEF OwningReaders
<1> HIDE DEF q
<1>3. reader' = [reader EXCEPT ![t] = q]
  BY DEF Locks, q
<1>4. reader' \in [Threads -> {Free} \union OwningReaders \union WaitingReaders]
  BY <1>2, <1>3 DEF TelemetryTyped
<1> QED
  BY <1>4 DEF Locks, TelemetryTyped

\* Releasing a key keeps the types of the table of owners.
LEMMA ReleasedTyped ==
  ASSUME TelemetryTyped, NEW key, owner' = Without(owner, key)
  PROVE  DOMAIN owner' \subseteq SampleKeys /\ \A k \in DOMAIN owner' : owner'[k] \in Threads
<1>1. DOMAIN owner' = DOMAIN owner \ {key} /\ \A k \in DOMAIN owner \ {key} : owner'[k] = owner[k]
  BY WithoutKey
<1> QED
  BY <1>1 DEF TelemetryTyped

LEMMA SampleFailsTyped ==
  ASSUME TelemetryTyped, NEW t \in Threads, SampleFails(t)
  PROVE  TelemetryTyped'
<1>1. owner' = Without(owner, reader[t].key) /\ reader' = Signalled(t)
  BY DEF SampleFails, Released
<1>2. reader' \in [Threads -> {Free} \union OwningReaders \union WaitingReaders]
  BY <1>1, SignalledReaders
<1>3. DOMAIN owner' \subseteq SampleKeys /\ \A k \in DOMAIN owner' : owner'[k] \in Threads
  BY <1>1, ReleasedTyped
<1>4. holder' \in Threads \union {Free} /\ UNCHANGED <<target, health, counters, cache, patches, mixed, late>>
  BY DEF SampleFails, TelemetryTyped
<1> QED
  BY <1>2, <1>3, <1>4 DEF TelemetryTyped

\* What a sample holds, and where it goes.
LEMMA SampleStored ==
  ASSUME TelemetryTyped, NEW t \in Threads, SampleEnds(t)
  PROVE  LET q == reader[t]
             sample == [from |-> q.wanted, base |-> Base(q.key.function, q.wanted)]
         IN  /\ Owns(t) /\ q.key \in SampleKeys /\ q.wanted \in Targets
             /\ sample \in Samples /\ sample.base \in {Free, q.wanted}
             /\ \E drop \in Evicted :
                  /\ cache' = With(Without(cache, drop), q.key, [sample |-> sample, fresh |-> TRUE])
                  /\ DOMAIN cache' = (DOMAIN cache \ {drop}) \union {q.key}
                  /\ cache'[q.key].sample = sample
                  /\ \A k \in DOMAIN cache' \ {q.key} : k \in DOMAIN cache /\ cache'[k] = cache[k]
<1> DEFINE q == reader[t]
           sample == [from |-> q.wanted, base |-> Base(q.key.function, q.wanted)]
<1>1. Owns(t) /\ q # Free
  BY DEF SampleEnds, At, Owns
<1>2. q.key \in SampleKeys /\ q.wanted \in Targets
  BY <1>1, ReaderSorts
<1>3. Base(q.key.function, q.wanted) \in {Free, q.wanted}
  BY DEF Base
<1>4. sample \in Samples /\ sample.base \in {Free, q.wanted}
  BY <1>2, <1>3 DEF Samples
<1> DEFINE key == q.key
           stored == [sample |-> sample, fresh |-> TRUE]
<1>5. PICK drop \in Evicted : cache' = With(Without(cache, drop), key, stored)
  BY DEF SampleEnds
<1>6. stored.sample = sample
  OBVIOUS
<1> DEFINE old == Without(cache, drop)
<1>7. DOMAIN old = DOMAIN cache \ {drop} /\ \A k \in DOMAIN cache \ {drop} : old[k] = cache[k]
  BY WithoutKey
<1> HIDE DEF old, stored, key
<1>8. /\ DOMAIN With(old, key, stored) = DOMAIN old \union {key}
      /\ With(old, key, stored)[key] = stored
      /\ \A k \in DOMAIN old \ {key} : With(old, key, stored)[k] = old[k]
  <2>1. DOMAIN With(old, key, stored) = DOMAIN old \union {key}
    BY WithKey
  <2>2. With(old, key, stored)[key] = stored
    BY DEF With
  <2>3. \A k \in DOMAIN old \ {key} : With(old, key, stored)[k] = old[k]
    BY DEF With
  <2> QED
    BY <2>1, <2>2, <2>3
<1>9. cache' = With(old, key, stored)
  BY <1>5 DEF old
<1>10. /\ DOMAIN cache' = (DOMAIN cache \ {drop}) \union {key}
       /\ cache'[key] = stored
       /\ \A k \in DOMAIN cache' \ {key} : k \in DOMAIN cache /\ cache'[k] = cache[k]
  BY <1>7, <1>8, <1>9
<1> HIDE DEF sample
<1>11. cache'[key].sample = sample
  BY <1>6, <1>10
<1> QED
  BY <1>1, <1>2, <1>4, <1>5, <1>10, <1>11 DEF key, stored, sample

LEMMA SampleEndsTyped ==
  ASSUME TelemetryTyped, NEW t \in Threads, SampleEnds(t)
  PROVE  TelemetryTyped'
<1> DEFINE q == reader[t]
           sample == [from |-> q.wanted, base |-> Base(q.key.function, q.wanted)]
<1>1. q.key \in SampleKeys /\ q.wanted \in Targets /\ sample \in Samples
  BY SampleStored
<1>2. PICK drop \in Evicted :
         /\ cache' = With(Without(cache, drop), q.key, [sample |-> sample, fresh |-> TRUE])
         /\ DOMAIN cache' = (DOMAIN cache \ {drop}) \union {q.key}
         /\ cache'[q.key].sample = sample
         /\ \A k \in DOMAIN cache' \ {q.key} : k \in DOMAIN cache /\ cache'[k] = cache[k]
  BY SampleStored
<1>3. IsFiniteSet(DOMAIN cache') /\ Cardinality(DOMAIN cache') <= CacheSize
  BY <1>2, CacheBounded
<1> HIDE DEF sample
<1>4. DOMAIN cache' \subseteq SampleKeys /\ \A k \in DOMAIN cache' : cache'[k].sample \in Samples
  BY <1>1, <1>2 DEF TelemetryTyped
<1>5. owner' = Without(owner, reader[t].key) /\ reader' = Signalled(t)
  BY DEF SampleEnds, Released
<1>6. reader' \in [Threads -> {Free} \union OwningReaders \union WaitingReaders]
  BY <1>5, SignalledReaders
<1>7. DOMAIN owner' \subseteq SampleKeys /\ \A k \in DOMAIN owner' : owner'[k] \in Threads
  BY <1>5, ReleasedTyped
<1>8. {health', counters'} \subseteq Targets \union {Free}
  BY <1>1 DEF SampleEnds, TelemetryTyped
<1>9. mixed' \in BOOLEAN /\ late' \in BOOLEAN
  BY DEF SampleEnds, Gets, TelemetryTyped
<1>10. target' = target /\ patches' = patches /\ holder' = Free
  BY DEF SampleEnds
<1> QED
  BY <1>3, <1>4, <1>6, <1>7, <1>8, <1>9, <1>10 DEF TelemetryTyped

LEMMA WaitEndsTyped ==
  ASSUME TelemetryTyped, NEW t \in Threads, WaitEnds(t)
  PROVE  TelemetryTyped'
<1>1. mixed' \in BOOLEAN
  BY DEF WaitEnds, Gets, TelemetryTyped
<1>2. reader' \in [Threads -> {Free} \union OwningReaders \union WaitingReaders]
  BY DEF WaitEnds, TelemetryTyped
<1> QED
  BY <1>1, <1>2 DEF WaitEnds, TelemetryTyped

\* A sample that is no longer fresh is otherwise what it was.
LEMMA AgesOnly ==
  ASSUME NEW key, Ages(key)
  PROVE  /\ DOMAIN cache' = DOMAIN cache
         /\ \A k \in DOMAIN cache : cache'[k].sample = cache[k].sample
  BY DEF Ages

LEMMA AgesTyped ==
  ASSUME TelemetryTyped, NEW key, Ages(key)
  PROVE  TelemetryTyped'
<1>1. UNCHANGED <<target, health, counters, owner, reader, holder, patches, mixed, late>>
  BY DEF Ages
<1> QED
  BY <1>1, AgesOnly DEF TelemetryTyped

\* The steps of edits of the device or of its credential.
TargetEdits ==
    \/ Rekeys
    \/ \E t \in Threads : PatchCommits(t) \/ PatchFails(t) \/ \E i \in Idents : PatchLoads(t, i)

\* What edits read and leave, apart from the target and the counters.
LEMMA EditsOnly ==
  ASSUME TelemetryTyped, TargetEdits
  PROVE  /\ UNCHANGED <<cache, owner, reader, holder, mixed, late>>
         /\ patches' \in [Threads -> {Free} \union Patches]
         /\ target' \in Targets /\ {health', counters'} \subseteq Targets \union {Free}
<1>1. UNCHANGED <<cache, owner, reader, holder, mixed, late>>
  BY DEF TargetEdits, PatchLoads, PatchCommits, PatchFails, Rekeys
<1>2. {health', counters'} \subseteq Targets \union {Free}
  BY DEF TargetEdits, PatchLoads, PatchCommits, PatchFails, Rekeys, Forgets, Drops, TelemetryTyped
<1>3. ASSUME NEW t \in Threads, NEW i \in Idents, PatchLoads(t, i)
      PROVE  patches' \in [Threads -> {Free} \union Patches] /\ target' \in Targets
  <2> DEFINE p == [to |-> i, had |-> health # Free]
  <2>1. p \in Patches
    BY DEF Patches
  <2> HIDE DEF p
  <2>2. patches' = [patches EXCEPT ![t] = p] /\ target' = target
    BY <1>3 DEF PatchLoads, p
  <2> QED
    BY <2>1, <2>2 DEF TelemetryTyped
<1>4. ASSUME NEW t \in Threads, PatchCommits(t) \/ PatchFails(t)
      PROVE  patches' \in [Threads -> {Free} \union Patches] /\ target' \in Targets
  <2>1. patches[t] \in Patches /\ patches' = [patches EXCEPT ![t] = Free]
    BY <1>4 DEF PatchCommits, PatchFails, TelemetryTyped
  <2>2. patches' \in [Threads -> {Free} \union Patches]
    BY <2>1 DEF TelemetryTyped
  <2>3. target' \in Targets
    BY <1>4, <2>1 DEF PatchCommits, PatchFails, TelemetryTyped, Patches, Targets
  <2> QED
    BY <2>2, <2>3
<1>5. ASSUME Rekeys
      PROVE  patches' \in [Threads -> {Free} \union Patches] /\ target' \in Targets
  <2>1. target' \in Targets /\ patches' = patches
    BY <1>5 DEF Rekeys, TelemetryTyped, Targets
  <2> QED
    BY <2>1 DEF TelemetryTyped
<1> QED
  BY <1>1, <1>2, <1>3, <1>4, <1>5 DEF TargetEdits

LEMMA EditsTyped ==
  ASSUME TelemetryTyped, TargetEdits
  PROVE  TelemetryTyped'
  BY EditsOnly DEF TelemetryTyped

LEMMA TelemetryTypedStep == TelemetryTyped /\ TelemetryNext => TelemetryTyped'
<1> SUFFICES ASSUME TelemetryTyped, TelemetryNext PROVE TelemetryTyped'
  OBVIOUS
<1>1. ASSUME NEW t \in Threads, NEW f \in Samplers, Asks(t, f) PROVE TelemetryTyped'
  BY <1>1, AsksTyped
<1>2. ASSUME TargetEdits PROVE TelemetryTyped'
  BY <1>2, EditsTyped
<1>3. ASSUME NEW t \in Threads, Locks(t) \/ SampleFails(t) \/ SampleEnds(t) \/ WaitEnds(t) PROVE TelemetryTyped'
  BY <1>3, LocksTyped, SampleFailsTyped, SampleEndsTyped, WaitEndsTyped
<1>4. ASSUME NEW key, Ages(key) PROVE TelemetryTyped'
  BY <1>4, AgesTyped
<1> QED
  BY <1>1, <1>2, <1>3, <1>4 DEF TelemetryNext, TargetEdits

(***************************************************************************)
(* Who samples what, of the readers r and the table o of owners.           *)
(***************************************************************************)
Owning(r, t) == r[t] # Free /\ r[t].step \in {"owns", "samples"}

Awaiting(r, t) == r[t] # Free /\ r[t].step = "waits"

Pending(r, o) ==
    /\ \A k \in DOMAIN o : Owning(r, o[k]) /\ r[o[k]].key = k
    /\ \A t \in Threads : Owning(r, t) => r[t].key \in DOMAIN o /\ o[r[t].key] = t
    /\ \A t \in Threads : Awaiting(r, t) => Owning(r, r[t].for) /\ r[r[t].for].key = r[t].key

PendingOK == Pending(reader, owner)

LEMMA OwningIs ==
  ASSUME NEW t
  PROVE  (Owns(t) <=> Owning(reader, t)) /\ (At(t, "waits") <=> Awaiting(reader, t))
  BY DEF Owns, Owning, Awaiting, At

LEMMA PendingInit == TelemetryInit => PendingOK
<1> SUFFICES ASSUME TelemetryInit PROVE PendingOK
  OBVIOUS
<1>1. DOMAIN owner = {} /\ \A t \in Threads : reader[t] = Free
  BY DEF TelemetryInit
<1> QED
  BY <1>1 DEF PendingOK, Owning, At, Pending, Awaiting

\* A step that frees the key of a thread and wakes who waits for it.
LEMMA ReleasePending ==
  ASSUME TelemetryTyped, PendingOK, NEW t \in Threads, Owning(reader, t),
         owner' = Without(owner, reader[t].key), reader' = Signalled(t)
  PROVE  PendingOK'
<1> DEFINE key == reader[t].key
<1>1. /\ reader'[t] = Free
      /\ \A s \in Threads \ {t} :
           \/ reader'[s] = reader[s] /\ ~(Awaiting(reader, s) /\ reader[s].for = t)
           \/ /\ reader[s] # Free /\ reader'[s].step = "signalled"
              /\ reader'[s].key = reader[s].key /\ reader'[s].wanted = reader[s].wanted
  BY SignalledReaders DEF Awaiting, At
<1>2. DOMAIN owner' = DOMAIN owner \ {key} /\ \A k \in DOMAIN owner \ {key} : owner'[k] = owner[k]
  BY WithoutKey
<1>3. \A s \in Threads \ {t} : Owning(reader, s) => reader'[s] = reader[s]
  BY DEF Signalled, At, Owning, At, Awaiting
<1>4. \A k \in DOMAIN owner : owner[k] \in Threads
  BY DEF TelemetryTyped
<1>5. \A s \in Threads : Owning(reader', s) => s # t /\ Owning(reader, s) /\ reader'[s] = reader[s]
  BY <1>1 DEF Owning, Awaiting
<1>6. \A s \in Threads \ {t} : Owning(reader, s) => Owning(reader', s)
  BY <1>3 DEF Owning, Awaiting
<1>7. ASSUME NEW k \in DOMAIN owner' PROVE Owning(reader', owner'[k]) /\ reader'[owner'[k]].key = k
  <2>1. k \in DOMAIN owner /\ k # key /\ owner'[k] = owner[k]
    BY <1>2
  <2>2. Owning(reader, owner[k]) /\ reader[owner[k]].key = k /\ owner[k] \in Threads
    BY <1>4, <2>1 DEF PendingOK, Pending
  <2>3. owner[k] # t
    BY <2>1, <2>2
  <2>4. reader'[owner[k]] = reader[owner[k]]
    BY <1>3, <2>2, <2>3
  <2> QED
    BY <2>1, <2>2, <2>4 DEF Owning, Awaiting
<1>8. ASSUME NEW s \in Threads, Owning(reader', s) PROVE reader'[s].key \in DOMAIN owner' /\ owner'[reader'[s].key] = s
  <2>1. s # t /\ Owning(reader, s) /\ reader'[s] = reader[s]
    BY <1>5, <1>8
  <2>2. reader[s].key \in DOMAIN owner /\ owner[reader[s].key] = s
    BY <2>1 DEF PendingOK, Pending
  <2>3. owner[key] = t
    BY DEF PendingOK, Pending
  <2> QED
    BY <1>2, <2>1, <2>2, <2>3
<1>9. ASSUME NEW s \in Threads, Awaiting(reader', s)
      PROVE  Owning(reader', reader'[s].for) /\ reader'[reader'[s].for].key = reader'[s].key
  <2>1. s # t /\ reader'[s] = reader[s] /\ reader[s].for # t /\ Awaiting(reader, s)
    BY <1>1, <1>9 DEF Awaiting
  <2>2. Owning(reader, reader[s].for) /\ reader[reader[s].for].key = reader[s].key
    BY <2>1 DEF PendingOK, Pending
  <2>3. reader[s].for \in Threads
    BY <2>1, ReaderSorts, OwningIs DEF At, Owning, Awaiting
  <2>4. reader'[reader[s].for] = reader[reader[s].for]
    BY <1>3, <2>1, <2>2, <2>3
  <2> QED
    BY <2>1, <2>2, <2>4 DEF Owning, Awaiting
<1> QED
  BY <1>7, <1>8, <1>9 DEF PendingOK, Pending

LEMMA AsksPending ==
  ASSUME TelemetryTyped, PendingOK, NEW t \in Threads, NEW f \in Samplers, Asks(t, f)
  PROVE  PendingOK'
<1> DEFINE key == Key(f)
<1> HIDE DEF key
<1>1. reader[t] = Free /\ ~Owning(reader, t) /\ ~Awaiting(reader, t)
  BY DEF Asks, Owning, At, Awaiting
<1>2. \A k \in DOMAIN owner : owner[k] \in Threads /\ owner[k] # t
  BY <1>1 DEF TelemetryTyped, PendingOK, Pending
<1>3. \A s \in Threads : Awaiting(reader, s) => reader[s].for \in Threads /\ reader[s].for # t
  BY <1>1, ReaderSorts, OwningIs DEF PendingOK, At, Owning, Pending, Awaiting
<1>4. CASE UNCHANGED <<reader, owner>>
  BY <1>4 DEF PendingOK, Owning, At, Pending, Awaiting
<1>5. CASE /\ key \in DOMAIN owner
           /\ reader' = [reader EXCEPT ![t] = [step |-> "waits", key |-> key, wanted |-> target, for |-> owner[key]]]
           /\ owner' = owner
  <2> DEFINE q == [step |-> "waits", key |-> key, wanted |-> target, for |-> owner[key]]
  <2>1. q.step = "waits" /\ q.key = key /\ q.for = owner[key]
    OBVIOUS
  <2> HIDE DEF q
  <2>2. reader'[t] = q /\ \A s \in Threads \ {t} : reader'[s] = reader[s]
    BY <1>5 DEF TelemetryTyped, q
  <2>3. ~Owning(reader', t)
    BY <2>1, <2>2 DEF Owning, Awaiting
  <2>4. \A s \in Threads \ {t} : (Owning(reader', s) <=> Owning(reader, s)) /\ (Awaiting(reader', s) <=> Awaiting(reader, s))
    BY <2>2 DEF Owning, Awaiting
  <2>5. ASSUME NEW k \in DOMAIN owner' PROVE Owning(reader', owner'[k]) /\ reader'[owner'[k]].key = k
    <3>1. k \in DOMAIN owner /\ owner'[k] = owner[k] /\ owner[k] \in Threads \ {t}
      BY <1>2, <1>5
    <3>2. Owning(reader, owner[k]) /\ reader[owner[k]].key = k
      BY <3>1 DEF PendingOK, Pending
    <3> QED
      BY <2>2, <2>4, <3>1, <3>2
  <2>6. \A s \in Threads : Owning(reader', s) => reader'[s].key \in DOMAIN owner' /\ owner'[reader'[s].key] = s
    BY <1>5, <2>2, <2>3, <2>4 DEF PendingOK, Pending
  <2>7. ASSUME NEW s \in Threads, Awaiting(reader', s)
        PROVE  Owning(reader', reader'[s].for) /\ reader'[reader'[s].for].key = reader'[s].key
    <3>1. CASE s = t
      <4>1. owner[key] \in Threads \ {t} /\ Owning(reader, owner[key]) /\ reader[owner[key]].key = key
        BY <1>2, <1>5 DEF PendingOK, Pending
      <4> QED
        BY <2>1, <2>2, <2>4, <3>1, <4>1
    <3>2. CASE s # t
      <4>1. /\ reader'[s] = reader[s] /\ reader[s].for \in Threads \ {t}
            /\ Owning(reader, reader[s].for) /\ reader[reader[s].for].key = reader[s].key
        BY <1>3, <2>2, <2>4, <2>7, <3>2 DEF PendingOK, Pending
      <4> QED
        BY <2>2, <2>4, <4>1
    <3> QED
      BY <3>1, <3>2
  <2> QED
    BY <2>5, <2>6, <2>7 DEF PendingOK, Pending
<1>6. CASE /\ key \notin DOMAIN owner
           /\ reader' = [reader EXCEPT ![t] = [step |-> "owns", key |-> key, wanted |-> target]]
           /\ owner' = With(owner, key, t)
  <2> DEFINE q == [step |-> "owns", key |-> key, wanted |-> target]
  <2>1. q.step = "owns" /\ q.key = key
    OBVIOUS
  <2> HIDE DEF q
  <2>2. reader'[t] = q /\ \A s \in Threads \ {t} : reader'[s] = reader[s]
    BY <1>6 DEF TelemetryTyped, q
  <2>3. q # Free
    <3>1. q \in OwningReaders
      BY DEF q, key, Key, OwningReaders, SampleKeys, TelemetryTyped
    <3> QED
      BY <3>1, TelemetryAssumption
  <2>4. Owning(reader', t) /\ ~Awaiting(reader', t)
    BY <2>1, <2>2, <2>3 DEF Owning, Awaiting
  <2>5. \A s \in Threads \ {t} : (Owning(reader', s) <=> Owning(reader, s)) /\ (Awaiting(reader', s) <=> Awaiting(reader, s))
    BY <2>2 DEF Owning, Awaiting
  <2>6. DOMAIN owner' = DOMAIN owner \union {key} /\ owner'[key] = t
    BY <1>6 DEF With
  <2>7. \A k \in DOMAIN owner : owner'[k] = owner[k]
    BY <1>6 DEF With
  <2>8. \A k \in DOMAIN owner' : Owning(reader', owner'[k]) /\ reader'[owner'[k]].key = k
    BY <1>2, <2>1, <2>2, <2>4, <2>5, <2>6, <2>7 DEF PendingOK, Pending
  <2>9. \A s \in Threads : Owning(reader', s) => reader'[s].key \in DOMAIN owner' /\ owner'[reader'[s].key] = s
    BY <2>1, <2>2, <2>5, <2>6, <2>7 DEF PendingOK, Pending
  <2>10. \A s \in Threads : Awaiting(reader', s) => Owning(reader', reader'[s].for) /\ reader'[reader'[s].for].key = reader'[s].key
    BY <1>3, <2>2, <2>4, <2>5 DEF PendingOK, Pending
  <2> QED
    BY <2>8, <2>9, <2>10 DEF PendingOK, Pending
<1> QED
  BY <1>4, <1>5, <1>6 DEF Asks, key

LEMMA LocksPending ==
  ASSUME TelemetryTyped, PendingOK, NEW t \in Threads, Locks(t)
  PROVE  PendingOK'
<1> DEFINE q == [reader[t] EXCEPT !.step = "samples"]
<1>1. reader[t] # Free /\ Owning(reader, t) /\ reader[t].step = "owns"
  BY DEF Locks, At, Owning, Awaiting
<1>2. q \in OwningReaders /\ q.step = "samples" /\ q.key = reader[t].key
  BY <1>1, ReaderSorts, OwningIs DEF OwningReaders
<1> HIDE DEF q
<1>3. reader'[t] = q /\ \A s \in Threads \ {t} : reader'[s] = reader[s]
  BY DEF Locks, q, TelemetryTyped
<1>4. q # Free
  BY <1>2, TelemetryAssumption
<1>5. \A s \in Threads :
        (Owning(reader', s) <=> Owning(reader, s)) /\ (Awaiting(reader', s) <=> Awaiting(reader, s)) /\ (reader[s] # Free => reader'[s].key = reader[s].key)
  BY <1>1, <1>2, <1>3, <1>4 DEF Owning, Awaiting
<1>6. \A s \in Threads : Awaiting(reader, s) => reader'[s] = reader[s] /\ reader[s].for \in Threads
  BY <1>1, <1>3, ReaderSorts, OwningIs DEF At, Owning, Awaiting
<1>7. owner' = owner /\ \A k \in DOMAIN owner : owner[k] \in Threads
  BY DEF Locks, TelemetryTyped
<1>8. \A k \in DOMAIN owner' : Owning(reader', owner'[k]) /\ reader'[owner'[k]].key = k
  BY <1>5, <1>7 DEF PendingOK, Owning, At, Pending, Awaiting
<1>9. \A s \in Threads : Owning(reader', s) => reader'[s].key \in DOMAIN owner' /\ owner'[reader'[s].key] = s
  BY <1>5, <1>7 DEF PendingOK, Owning, At, Pending, Awaiting
<1>10. \A s \in Threads : Awaiting(reader', s) => Owning(reader', reader'[s].for) /\ reader'[reader'[s].for].key = reader'[s].key
  BY <1>5, <1>6 DEF PendingOK, Owning, At, Pending, Awaiting
<1> QED
  BY <1>8, <1>9, <1>10 DEF PendingOK, Pending

LEMMA WaitEndsPending ==
  ASSUME TelemetryTyped, PendingOK, NEW t \in Threads, WaitEnds(t)
  PROVE  PendingOK'
<1>1. owner' = owner /\ reader'[t] = Free /\ \A s \in Threads \ {t} : reader'[s] = reader[s]
  BY DEF WaitEnds, TelemetryTyped
<1>2. ~Owning(reader, t)
  BY DEF WaitEnds, At, Owning, Awaiting
<1>3. \A k \in DOMAIN owner : owner[k] \in Threads /\ owner[k] # t
  BY <1>2 DEF TelemetryTyped, PendingOK, Pending
<1>4. \A s \in Threads : Awaiting(reader, s) => reader[s].for \in Threads /\ reader[s].for # t
  BY <1>2, ReaderSorts, OwningIs DEF PendingOK, At, Owning, Pending, Awaiting
<1>5. ~Owning(reader', t) /\ ~Awaiting(reader', t)
  BY <1>1 DEF Owning, Awaiting
<1>6. \A s \in Threads \ {t} : (Owning(reader', s) <=> Owning(reader, s)) /\ (Awaiting(reader', s) <=> Awaiting(reader, s))
  BY <1>1 DEF Owning, Awaiting
<1>7. \A k \in DOMAIN owner' : Owning(reader', owner'[k]) /\ reader'[owner'[k]].key = k
  BY <1>1, <1>3, <1>6 DEF PendingOK, Pending
<1>8. \A s \in Threads : Owning(reader', s) => reader'[s].key \in DOMAIN owner' /\ owner'[reader'[s].key] = s
  BY <1>1, <1>5, <1>6 DEF PendingOK, Pending
<1>9. \A s \in Threads : Awaiting(reader', s) => Owning(reader', reader'[s].for) /\ reader'[reader'[s].for].key = reader'[s].key
  BY <1>1, <1>4, <1>5, <1>6 DEF PendingOK, Pending
<1> QED
  BY <1>7, <1>8, <1>9 DEF PendingOK, Pending

LEMMA PendingStep == TelemetryTyped /\ PendingOK /\ TelemetryNext => PendingOK'
<1> SUFFICES ASSUME TelemetryTyped, PendingOK, TelemetryNext PROVE PendingOK'
  OBVIOUS
<1>1. ASSUME NEW t \in Threads, NEW f \in Samplers, Asks(t, f) PROVE PendingOK'
  BY <1>1, AsksPending
<1>2. ASSUME UNCHANGED <<owner, reader>> PROVE PendingOK'
  BY <1>2 DEF PendingOK, Owning, At, Pending, Awaiting
<1>3. ASSUME TargetEdits PROVE PendingOK'
  BY <1>2, <1>3, EditsOnly
<1>4. ASSUME NEW t \in Threads, SampleFails(t) \/ SampleEnds(t) PROVE PendingOK'
  <2>1. Owning(reader, t) /\ owner' = Without(owner, reader[t].key) /\ reader' = Signalled(t)
    BY <1>4 DEF SampleFails, SampleEnds, Released, Owning, At
  <2> QED
    BY <2>1, ReleasePending
<1>5. ASSUME NEW t \in Threads, Locks(t) \/ WaitEnds(t) PROVE PendingOK'
  BY <1>5, LocksPending, WaitEndsPending
<1> QED
  BY <1>1, <1>2, <1>4, <1>5, <1>3 DEF TelemetryNext, TargetEdits, Ages

LEMMA PendingOwned == TelemetryTyped /\ PendingOK => PendingIsOwned
  BY DEF PendingOK, Pending, PendingIsOwned, Owning, Awaiting, At

(***************************************************************************)
(* What is sampled, cached and given is of the target it is filed under.   *)
(***************************************************************************)
SamplesOK ==
    /\ ~mixed
    /\ \A t \in Threads : reader[t] # Free => reader[t].wanted = reader[t].key.of
    /\ \A k \in DOMAIN cache : cache[k].sample.from = k.of /\ cache[k].sample.base \in {Free, k.of}

LEMMA SamplesInit == TelemetryInit => SamplesOK
<1> SUFFICES ASSUME TelemetryInit PROVE SamplesOK
  OBVIOUS
<1>1. DOMAIN cache = {} /\ ~mixed /\ \A t \in Threads : reader[t] = Free
  BY DEF TelemetryInit
<1> QED
  BY <1>1 DEF SamplesOK

LEMMA AsksSamples ==
  ASSUME TelemetryTyped, SamplesOK, NEW t \in Threads, NEW f \in Samplers, Asks(t, f)
  PROVE  SamplesOK'
<1> DEFINE key == Key(f)
<1>1. key.of = target
  BY DEF Key
<1> HIDE DEF key
<1>2. CASE /\ Fresh(key) /\ Gets(target, cache[key].sample)
           /\ UNCHANGED <<reader, owner, cache>>
  <2>1. cache[key].sample.from = target /\ cache[key].sample.base \in {Free, target}
    BY <1>1, <1>2 DEF SamplesOK, Fresh
  <2>2. ~mixed'
    BY <1>2, <2>1 DEF Gets, SamplesOK
  <2> QED
    BY <1>2, <2>2 DEF SamplesOK
<1>3. CASE /\ reader' = [reader EXCEPT ![t] = [step |-> "waits", key |-> key, wanted |-> target, for |-> owner[key]]]
           /\ UNCHANGED <<owner, cache, mixed>>
  <2> DEFINE q == [step |-> "waits", key |-> key, wanted |-> target, for |-> owner[key]]
  <2>1. q.wanted = q.key.of
    BY <1>1
  <2> HIDE DEF q
  <2>2. reader'[t] = q /\ \A s \in Threads \ {t} : reader'[s] = reader[s]
    BY <1>3 DEF TelemetryTyped, q
  <2> QED
    BY <1>3, <2>1, <2>2 DEF SamplesOK
<1>4. CASE /\ reader' = [reader EXCEPT ![t] = [step |-> "owns", key |-> key, wanted |-> target]]
           /\ cache' = Without(cache, key) /\ UNCHANGED mixed
  <2> DEFINE q == [step |-> "owns", key |-> key, wanted |-> target]
  <2>1. q.wanted = q.key.of
    BY <1>1
  <2> HIDE DEF q
  <2>2. reader'[t] = q /\ \A s \in Threads \ {t} : reader'[s] = reader[s]
    BY <1>4 DEF TelemetryTyped, q
  <2>3. DOMAIN cache' = DOMAIN cache \ {key} /\ \A k \in DOMAIN cache \ {key} : cache'[k] = cache[k]
    BY <1>4, WithoutKey
  <2> QED
    BY <1>4, <2>1, <2>2, <2>3 DEF SamplesOK
<1> QED
  BY <1>2, <1>3, <1>4 DEF Asks, key

LEMMA LocksSamples ==
  ASSUME TelemetryTyped, SamplesOK, NEW t \in Threads, Locks(t)
  PROVE  SamplesOK'
<1> DEFINE q == [reader[t] EXCEPT !.step = "samples"]
<1>1. reader[t] # Free /\ Owns(t)
  BY DEF Locks, At, Owns
<1>2. q.key = reader[t].key /\ q.wanted = reader[t].wanted
  BY <1>1, ReaderSorts DEF OwningReaders
<1> HIDE DEF q
<1>3. reader'[t] = q /\ \A s \in Threads \ {t} : reader'[s] = reader[s]
  BY DEF Locks, q, TelemetryTyped
<1>4. UNCHANGED <<cache, mixed>>
  BY DEF Locks
<1> QED
  BY <1>1, <1>2, <1>3, <1>4 DEF SamplesOK

\* Readers that are freed or woken keep what they wanted.
LEMMA SignalledSamples ==
  ASSUME TelemetryTyped, SamplesOK, NEW t \in Threads, reader' = Signalled(t), NEW s \in Threads, reader'[s] # Free
  PROVE  reader'[s].wanted = reader'[s].key.of
<1>1. /\ reader'[t] = Free
      /\ \A r \in Threads \ {t} :
           \/ reader'[r] = reader[r]
           \/ /\ reader[r] # Free /\ reader'[r].step = "signalled"
              /\ reader'[r].key = reader[r].key /\ reader'[r].wanted = reader[r].wanted
  BY SignalledReaders
<1> QED
  BY <1>1 DEF SamplesOK

LEMMA SampleEndsSamples ==
  ASSUME TelemetryTyped, SamplesOK, NEW t \in Threads, SampleEnds(t)
  PROVE  SamplesOK'
<1> DEFINE q == reader[t]
           sample == [from |-> q.wanted, base |-> Base(q.key.function, q.wanted)]
<1>1. Owns(t) /\ sample.base \in {Free, q.wanted} /\ sample.from = q.wanted
  BY SampleStored
<1>2. PICK drop \in Evicted :
         /\ cache' = With(Without(cache, drop), q.key, [sample |-> sample, fresh |-> TRUE])
         /\ DOMAIN cache' = (DOMAIN cache \ {drop}) \union {q.key}
         /\ cache'[q.key].sample = sample
         /\ \A k \in DOMAIN cache' \ {q.key} : k \in DOMAIN cache /\ cache'[k] = cache[k]
  BY SampleStored
<1>3. Gets(q.wanted, sample) /\ reader' = Signalled(t)
  BY DEF SampleEnds
<1> HIDE DEF sample
<1>4. q.wanted = q.key.of
  BY <1>1 DEF SamplesOK, Owns, At
<1>5. ~mixed'
  BY <1>1, <1>3 DEF Gets, SamplesOK
<1>6. ASSUME NEW k \in DOMAIN cache' PROVE cache'[k].sample.from = k.of /\ cache'[k].sample.base \in {Free, k.of}
  <2>1. CASE k = q.key
    BY <1>1, <1>2, <1>4, <2>1
  <2>2. CASE k # q.key
    <3>1. k \in DOMAIN cache /\ cache'[k] = cache[k]
      BY <1>2, <2>2
    <3> QED
      BY <3>1 DEF SamplesOK
  <2> QED
    BY <2>1, <2>2
<1>7. \A s \in Threads : reader'[s] # Free => reader'[s].wanted = reader'[s].key.of
  BY <1>3, SignalledSamples
<1> QED
  BY <1>5, <1>6, <1>7 DEF SamplesOK

LEMMA WaitEndsSamples ==
  ASSUME TelemetryTyped, SamplesOK, NEW t \in Threads, WaitEnds(t)
  PROVE  SamplesOK'
<1>1. cache' = cache /\ reader'[t] = Free /\ \A s \in Threads \ {t} : reader'[s] = reader[s]
  BY DEF WaitEnds, TelemetryTyped
<1> DEFINE q == reader[t]
<1>2. q # Free
  BY DEF WaitEnds, At
<1>3. q.wanted = q.key.of
  BY <1>2 DEF SamplesOK
<1>4. ~mixed'
  <2>1. CASE Fresh(q.key) /\ Gets(q.wanted, cache[q.key].sample)
    <3>1. cache[q.key].sample.from = q.wanted /\ cache[q.key].sample.base \in {Free, q.wanted}
      BY <1>3, <2>1 DEF SamplesOK, Fresh
    <3> QED
      BY <2>1, <3>1 DEF Gets, SamplesOK
  <2>2. CASE UNCHANGED mixed
    BY <2>2 DEF SamplesOK
  <2> QED
    BY <2>1, <2>2 DEF WaitEnds
<1> QED
  BY <1>1, <1>4 DEF SamplesOK

LEMMA SamplesStep == TelemetryTyped /\ SamplesOK /\ TelemetryNext => SamplesOK'
<1> SUFFICES ASSUME TelemetryTyped, SamplesOK, TelemetryNext PROVE SamplesOK'
  OBVIOUS
<1>1. ASSUME NEW t \in Threads, NEW f \in Samplers, Asks(t, f) PROVE SamplesOK'
  BY <1>1, AsksSamples
<1>2. ASSUME TargetEdits PROVE SamplesOK'
  BY <1>2, EditsOnly DEF SamplesOK
<1>3. ASSUME NEW t \in Threads, SampleFails(t) PROVE SamplesOK'
  <2>1. reader' = Signalled(t) /\ UNCHANGED <<cache, mixed>>
    BY <1>3 DEF SampleFails
  <2>2. \A s \in Threads : reader'[s] # Free => reader'[s].wanted = reader'[s].key.of
    BY <2>1, SignalledSamples
  <2> QED
    BY <2>1, <2>2 DEF SamplesOK
<1>4. ASSUME NEW t \in Threads, Locks(t) \/ SampleEnds(t) \/ WaitEnds(t) PROVE SamplesOK'
  BY <1>4, LocksSamples, SampleEndsSamples, WaitEndsSamples
<1>5. ASSUME NEW key, Ages(key) PROVE SamplesOK'
  <2>1. UNCHANGED <<reader, mixed>>
    BY <1>5 DEF Ages
  <2> QED
    BY <1>5, <2>1, AgesOnly DEF SamplesOK
<1> QED
  BY <1>1, <1>2, <1>3, <1>4, <1>5 DEF TelemetryNext, TargetEdits

LEMMA OwnAnswers == SamplesOK => AnswersAreOwn
  BY DEF SamplesOK, AnswersAreOwn

(***************************************************************************)
(* The health that is shown.                                               *)
(***************************************************************************)
\* An edit that found no health finds none when it commits, as long as nobody was late.
HealthOK ==
    /\ HealthIsCurrent
    /\ ~late => (Overlooked => health = Free)

LEMMA HealthInit == TelemetryInit => HealthOK
  BY DEF TelemetryInit, HealthOK, HealthIsCurrent

LEMMA HealthStep == TelemetryTyped /\ HealthOK /\ TelemetryNext => HealthOK'
<1> SUFFICES ASSUME TelemetryTyped, HealthOK, TelemetryNext PROVE HealthOK'
  OBVIOUS
<1>1. ASSUME UNCHANGED <<health, late, target, patches>> PROVE HealthOK'
  BY <1>1 DEF HealthOK, HealthIsCurrent, Overlooked
<1>2. ASSUME NEW t \in Threads, NEW i \in Idents, PatchLoads(t, i) PROVE HealthOK'
  <2> DEFINE p == [to |-> i, had |-> health # Free]
  <2>1. p.had <=> health # Free
    OBVIOUS
  <2> HIDE DEF p
  <2>2. patches'[t] = p /\ \A s \in Threads \ {t} : patches'[s] = patches[s]
    BY <1>2 DEF PatchLoads, TelemetryTyped, p
  <2>3. UNCHANGED <<health, late, target>>
    BY <1>2 DEF PatchLoads
  <2> QED
    BY <2>1, <2>2, <2>3 DEF HealthOK, HealthIsCurrent, Overlooked
<1>3. ASSUME NEW t \in Threads, PatchCommits(t) PROVE HealthOK'
  <2>1. patches'[t] = Free /\ \A s \in Threads \ {t} : patches'[s] = patches[s]
    BY <1>3 DEF PatchCommits, TelemetryTyped
  <2>2. late' = late /\ (~late => health' = Free)
    <3>1. CASE patches[t].had
      BY <1>3, <3>1 DEF PatchCommits, Forgets
    <3>2. CASE ~patches[t].had
      BY <1>3, <3>2 DEF PatchCommits, Forgets, HealthOK, Overlooked
    <3> QED
      BY <3>1, <3>2
  <2> QED
    BY <2>1, <2>2 DEF HealthOK, HealthIsCurrent
<1>4. ASSUME NEW t \in Threads, PatchFails(t) PROVE HealthOK'
  <2>1. patches'[t] = Free /\ \A s \in Threads \ {t} : patches'[s] = patches[s]
    BY <1>4 DEF PatchFails, TelemetryTyped
  <2>2. UNCHANGED <<health, late, target>>
    BY <1>4 DEF PatchFails
  <2> QED
    BY <2>1, <2>2 DEF HealthOK, HealthIsCurrent, Overlooked
<1>5. ASSUME Rekeys PROVE HealthOK'
  BY <1>5 DEF Rekeys, Forgets, HealthOK, HealthIsCurrent
<1>6. ASSUME NEW t \in Threads, SampleEnds(t) PROVE HealthOK'
  <2>1. CASE reader[t].key.function = "health"
    <3>1. /\ health' = reader[t].wanted /\ UNCHANGED <<target, patches>>
          /\ late' = (late \/ reader[t].wanted # target \/ Overlooked)
      BY <1>6, <2>1 DEF SampleEnds
    <3>2. Overlooked' = Overlooked
      BY <3>1 DEF Overlooked
    <3> QED
      BY <3>1, <3>2 DEF HealthOK, HealthIsCurrent
  <2>2. CASE reader[t].key.function # "health"
    <3>1. UNCHANGED <<health, target, patches>> /\ late' = late
      BY <1>6, <2>2 DEF SampleEnds, TelemetryTyped
    <3> QED
      BY <1>1, <3>1
  <2> QED
    BY <2>1, <2>2
<1> QED
  BY <1>1, <1>2, <1>3, <1>4, <1>5, <1>6 DEF TelemetryNext, Asks, Locks, SampleFails, WaitEnds, Ages

=============================================================================
