----------------------------- MODULE Telemetry -----------------------------
(***************************************************************************)
(* Samples of one device: concurrent readers share them, and edits of the  *)
(* device and of its credential are to end what was sampled before         *)
(* (app/services/telemetry.py; what change_device and credential_item in   *)
(* app/api.py do to samples).                                              *)
(*                                                                         *)
(* Abstractions.                                                           *)
(*   - The target of a sample is the connection identity of the device and *)
(*     the revision of its credential.                                     *)
(*   - A sample is the target it was taken from and, if it has rates, the  *)
(*     target of the counters they were computed from.                     *)
(*   - Four seconds pass, or a wait of thirty ends, at any moment.         *)
(*   - Rates need counters of the same target; the code compares address,  *)
(*     SNMP port, SNMP credential and its revision.                        *)
(*   - An edit of the device writes its whole identity.                    *)
(***************************************************************************)
EXTENDS Accounts

CONSTANTS
    Idents,     \* connection identities of the device
    CacheSize   \* samples the cache holds

Samplers == {"health", "interfaces"}

Targets == [ident : Idents, revision : Nat]

SampleKeys == [function : Samplers, of : Targets]

\* Who samples, and who waits for that.
OwningReaders == [step : {"owns", "samples"}, key : SampleKeys, wanted : Targets]
WaitingReaders == [step : {"waits", "signalled"}, key : SampleKeys, wanted : Targets, for : Threads]

\* An edit of the device that has loaded its row: what it makes of it, and whether there was health.
Patches == [to : Idents, had : BOOLEAN]

ASSUME TelemetryAssumption ==
    /\ CacheSize \in Nat \ {0}
    /\ Free \notin OwningReaders \union WaitingReaders

VARIABLES
    target,    \* identity and credential revision of the device
    health,    \* health_json: the target of the stored sample
    counters,  \* COUNTERS: the target of the last counter sample
    cache,     \* telemetry_samples: samples by key, and whether they are fresh
    owner,     \* telemetry_pending: the thread that samples, by key
    reader,    \* what each thread is doing
    holder,    \* who holds the device lock
    patches,   \* edits of the device that have loaded its row
    mixed,     \* history: a reader got a sample that is not his target's alone
    late       \* history: health was stored after its target had changed, or while an edit
               \*          was under way that does not know of any

telemetryVars == <<target, health, counters, cache, owner, reader, holder, patches, mixed, late>>

TelemetryInit ==
    /\ \E i \in Idents : target = [ident |-> i, revision |-> 0]
    /\ health = Free
    /\ counters = Free
    /\ cache = <<>>
    /\ owner = <<>>
    /\ reader = [t \in Threads |-> Free]
    /\ holder = Free
    /\ patches = [t \in Threads |-> Free]
    /\ mixed = FALSE
    /\ late = FALSE

\* Mutant of Key: profiles are not part of it.
KeyOfDevice(f) == [function |-> f, of |-> [target EXCEPT !.revision = 0]]

Key(f) == [function |-> f, of |-> target]

Fresh(key) == key \in DOMAIN cache /\ cache[key].fresh

Without(f, key) == [k \in DOMAIN f \ {key} |-> f[k]]

With(f, key, value) == [k \in DOMAIN f \union {key} |-> IF k = key THEN value ELSE f[k]]

\* What a reader of the target is given.
Gets(wanted, sample) == mixed' = (mixed \/ sample.from # wanted \/ sample.base \notin {Free, wanted})

\* coalesced_sample up to its first release of SAMPLE_LOCK.
Asks(t, f) ==
    /\ reader[t] = Free
    /\ LET key == Key(f) IN
       IF Fresh(key) THEN /\ Gets(target, cache[key].sample)
                          /\ UNCHANGED <<reader, owner, cache>>
       ELSE /\ IF key \in DOMAIN owner
               THEN /\ reader' = [reader EXCEPT ![t] = [step |-> "waits", key |-> key, wanted |-> target, for |-> owner[key]]]
                    /\ UNCHANGED <<owner, cache>>
               ELSE /\ reader' = [reader EXCEPT ![t] = [step |-> "owns", key |-> key, wanted |-> target]]
                    /\ owner' = With(owner, key, t)
                    /\ cache' = Without(cache, key)
            /\ UNCHANGED mixed
    /\ UNCHANGED <<target, health, counters, holder, patches, late>>

At(t, step) == reader[t] # Free /\ reader[t].step = step

Locks(t) ==
    /\ At(t, "owns") /\ holder = Free
    /\ holder' = t
    /\ reader' = [reader EXCEPT ![t].step = "samples"]
    /\ UNCHANGED <<target, health, counters, cache, owner, patches, mixed, late, used>>

\* Mutant of Released: a sampler that failed leaves its key.
ReleasedIfDone(t, done) == IF done THEN Without(owner, reader[t].key) ELSE owner

\* finally: the key is free again, whatever happened.
Released(t, done) == Without(owner, reader[t].key)

\* The signal is set.
Signalled(t) ==
    [s \in Threads |->
        IF s = t THEN Free
        ELSE IF At(s, "waits") /\ reader[s].for = t THEN [reader[s] EXCEPT !.step = "signalled"]
        ELSE reader[s]]

\* interfaces: rates need counters that were read from the same target.
Base(f, wanted) == IF f = "interfaces" /\ counters = wanted THEN counters ELSE Free

\* The device lock times out, the device or the commit fails.
SampleFails(t) ==
    /\ At(t, "owns") \/ At(t, "samples")
    /\ owner' = Released(t, FALSE)
    /\ reader' = Signalled(t)
    /\ holder' = IF At(t, "samples") THEN Free ELSE holder
    /\ UNCHANGED <<target, health, counters, cache, patches, mixed, late, used>>

\* Mutant of Evicted: one sample too late.
EvictedLate == IF Cardinality(DOMAIN cache) > CacheSize THEN DOMAIN cache ELSE {Free}

\* Whatever is oldest goes when the cache is full.
Evicted == IF Cardinality(DOMAIN cache) >= CacheSize THEN DOMAIN cache ELSE {Free}

\* An edit that found no health does not write that there is none.
Overlooked == \E s \in Threads : patches[s] # Free /\ ~patches[s].had

\* The sample is taken, stored on the device or as its counters, cached and returned.
SampleEnds(t) ==
    /\ At(t, "samples")
    /\ LET q      == reader[t]
           f      == q.key.function
           sample == [from |-> q.wanted, base |-> Base(f, q.wanted)]
       IN /\ health' = IF f = "health" THEN q.wanted ELSE health
          /\ counters' = IF f = "interfaces" THEN q.wanted ELSE counters
          /\ late' = (late \/ (f = "health" /\ (q.wanted # target \/ Overlooked)))
          /\ \E drop \in Evicted : cache' = With(Without(cache, drop), q.key, [sample |-> sample, fresh |-> TRUE])
          /\ Gets(q.wanted, sample)
    /\ owner' = Released(t, TRUE)
    /\ reader' = Signalled(t)
    /\ holder' = Free
    /\ UNCHANGED <<target, patches, used>>

\* A waiter takes what is cached when it is signalled, and fails without it or after 30 seconds.
WaitEnds(t) ==
    /\ At(t, "waits") \/ At(t, "signalled")
    /\ reader' = [reader EXCEPT ![t] = Free]
    /\ IF At(t, "signalled") /\ Fresh(reader[t].key)
       THEN Gets(reader[t].wanted, cache[reader[t].key].sample) ELSE UNCHANGED mixed
    /\ UNCHANGED <<target, health, counters, cache, owner, holder, patches, late, used>>

Ages(key) ==
    /\ Fresh(key)
    /\ cache' = [cache EXCEPT ![key].fresh = FALSE]
    /\ UNCHANGED <<target, health, counters, owner, reader, holder, patches, mixed, late, used>>

-----------------------------------------------------------------------------
(* Edits.                                                                  *)

\* Counters are dropped before the commit: a sample in between leaves some.
Drops == counters' \in {counters, Free}

\* normalize_device: health is assigned nothing; an UPDATE holds what differs from the loaded row.
Forgets(had) == health' = IF had THEN Free ELSE health

\* change_device: the row is loaded, and looked at.
PatchLoads(t, i) ==
    /\ patches[t] = Free
    /\ Served({"ADMIN"})
    /\ i # target.ident
    /\ patches' = [patches EXCEPT ![t] = [to |-> i, had |-> health # Free]]
    /\ UNCHANGED <<target, health, counters, cache, owner, reader, holder, mixed, late>>

PatchCommits(t) ==
    /\ patches[t] # Free
    /\ target' = [target EXCEPT !.ident = patches[t].to]
    /\ Forgets(patches[t].had)
    /\ Drops
    /\ patches' = [patches EXCEPT ![t] = Free]
    /\ UNCHANGED <<cache, owner, reader, holder, mixed, late, used>>

\* The commit fails.
PatchFails(t) ==
    /\ patches[t] # Free
    /\ Drops
    /\ patches' = [patches EXCEPT ![t] = Free]
    /\ UNCHANGED <<target, health, cache, owner, reader, holder, mixed, late, used>>

\* Mutant of Rekeys: devices that use the credential are left alone.
RekeysAlone ==
    /\ Served({"ADMIN"})
    /\ target' = [target EXCEPT !.revision = @ + 1]
    /\ UNCHANGED <<health, counters, cache, owner, reader, holder, patches, mixed, late>>

\* credential_item: its UPDATE of the devices is unconditional, and nobody commits between
\* its first write and its commit.
Rekeys ==
    /\ Served({"ADMIN"})
    /\ target' = [target EXCEPT !.revision = @ + 1]
    /\ Forgets(TRUE)
    /\ Drops
    /\ UNCHANGED <<cache, owner, reader, holder, patches, mixed, late>>

TelemetryNext ==
    \/ /\ Counted("samples")
       /\ \/ \E t \in Threads, f \in Samplers : Asks(t, f)
          \/ \E t \in Threads, i \in Idents : PatchLoads(t, i)
          \/ Rekeys
    \/ \E t \in Threads : Locks(t) \/ SampleFails(t) \/ SampleEnds(t) \/ WaitEnds(t)
    \/ \E t \in Threads : PatchCommits(t) \/ PatchFails(t)
    \/ \E key \in DOMAIN cache : Ages(key)

-----------------------------------------------------------------------------
(* Properties.                                                             *)

TelemetryTypeOK ==
    /\ target \in Targets /\ {health, counters} \subseteq Targets \union {Free}
    /\ DOMAIN cache \union DOMAIN owner \subseteq SampleKeys
    /\ reader \in [Threads -> {Free} \union OwningReaders \union WaitingReaders]
    /\ Cardinality(DOMAIN cache) <= CacheSize
    /\ holder \in Threads \union {Free} /\ {mixed, late} \subseteq BOOLEAN
    /\ patches \in [Threads -> {Free} \union Patches]

\* "Cache identities include the target and credential, so changing either invalidates
\* old samples": whoever asks, waits or samples while the device or its credential
\* changes is only given values, and rates between values, of the target it asked for.
AnswersAreOwn == ~mixed

\* Who waits is waiting for a thread that is still sampling what it asked for, and each
\* key is sampled by one thread: a failed one leaves nobody behind.
PendingIsOwned ==
    /\ \A key \in DOMAIN owner : reader[owner[key]] # Free /\ reader[owner[key]].key = key
    /\ \A t \in Threads : At(t, "waits") =>
            /\ At(reader[t].for, "owns") \/ At(reader[t].for, "samples")
            /\ reader[reader[t].for].key = reader[t].key

\* The health shown of a device was sampled from the device and with the credential it
\* has now, whatever edits of both overlap, unless a sample was stored after its target
\* had changed, or between the load and the commit of an edit that had found none
\* (app/api.py:86: None on a row that holds NULL is no change).
HealthIsCurrent == late \/ health \in {Free, target}
=============================================================================
