----------------------------- MODULE MediaCache -----------------------------
(***************************************************************************)
(* The cache WhatsappEvolutionService keeps of the media it proxies: a Map *)
(* in the order of last use, a counter of its bytes, a budget and a time   *)
(* to live.  Fetches are calls to Evolution, so two of them may be out for *)
(* one key, and a webhook may bring the bytes while they are.              *)
(***************************************************************************)
EXTENDS Integers, Sequences, SequencesExt, Rows

CONSTANTS MediaKeys,   \* connection, message and format
          Sizes,       \* lengths of base64 texts
          MaxBytes,    \* MEDIA_CACHE_MAX_BYTES
          TTL,         \* MEDIA_CACHE_TTL_MS
          MaxTime,     \* bound
          MaxUses      \* bound: entries written or read

ASSUME MediaCacheAssumption ==
    /\ MediaKeys # {} /\ Sizes \subseteq Nat \ {0}
    /\ MaxBytes \in Nat /\ TTL \in Nat \ {0} /\ MaxTime \in Nat /\ MaxUses \in Nat

VARIABLES mediaCache,       \* entries, the least recently used first
          mediaCacheBytes,
          now,
          fetching,         \* key -> calls to Evolution at work for it
          lastUse, uses     \* history: when each key was last written or read

mediaVars == <<mediaCache, mediaCacheBytes, now, fetching, lastUse, uses>>

Entry == [key : MediaKeys, bytes : Sizes, expiresAt : 0 .. MaxTime + TTL]

BytesOf(entries) == Total([i \in DOMAIN entries |-> entries[i].bytes])
Cached(k) == \E i \in DOMAIN mediaCache : mediaCache[i].key = k
PlaceOf(k) == CHOOSE i \in DOMAIN mediaCache : mediaCache[i].key = k
EntryOf(k) == mediaCache[PlaceOf(k)]
Without(k) == IF Cached(k) THEN RemoveAt(mediaCache, PlaceOf(k)) ELSE mediaCache

Uses(k) == /\ uses < MaxUses
           /\ uses' = uses + 1
           /\ lastUse' = [lastUse EXCEPT ![k] = uses + 1]

MediaCacheInit ==
    /\ mediaCache = <<>> /\ mediaCacheBytes = 0
    /\ now = 0
    /\ fetching = [k \in MediaKeys |-> 0]
    /\ lastUse = [k \in MediaKeys |-> 0] /\ uses = 0

\* getMediaBase64: a fresh entry is served and becomes the last used ...
Hit(k) ==
    /\ Cached(k) /\ EntryOf(k).expiresAt > now
    /\ mediaCache' = Append(Without(k), EntryOf(k))
    /\ Uses(k)
    /\ UNCHANGED <<mediaCacheBytes, now, fetching>>
\* ... and without one Evolution is asked, the entry that expired being dropped
Miss(k) ==
    /\ Cached(k) => EntryOf(k).expiresAt <= now
    /\ fetching[k] < 2
    /\ fetching' = [fetching EXCEPT ![k] = @ + 1]
    /\ mediaCache' = Without(k)
    /\ mediaCacheBytes' = mediaCacheBytes - (IF Cached(k) THEN EntryOf(k).bytes ELSE 0)
    /\ UNCHANGED <<now, lastUse, uses>>

\* Mutant: the entry that is replaced stays counted
ReplacedUncounted(k) == 0

Replaced(k) == IF Cached(k) THEN EntryOf(k).bytes ELSE 0

\* how many of the least recently used are evicted while the counter is over the budget
Evicted(entries, counted) ==
    CHOOSE n \in 0 .. Len(entries) :
        /\ counted - BytesOf(SubSeq(entries, 1, n)) <= MaxBytes \/ n = Len(entries)
        /\ \A m \in 0 .. n - 1 : counted - BytesOf(SubSeq(entries, 1, m)) > MaxBytes

\* writeMediaCache: replaces the entry of k and evicts
Write(k, size) ==
    IF size > MaxBytes THEN UNCHANGED <<mediaCache, mediaCacheBytes, lastUse, uses>>
    ELSE LET entries == Append(Without(k), [key |-> k, bytes |-> size, expiresAt |-> now + TTL])
             counted == mediaCacheBytes - Replaced(k) + size
             evicted == Evicted(entries, counted)
         IN /\ mediaCache' = SubSeq(entries, evicted + 1, Len(entries))
            /\ mediaCacheBytes' = counted - BytesOf(SubSeq(entries, 1, evicted))
            /\ Uses(k)

Fetched(k) ==
    /\ fetching[k] > 0
    /\ fetching' = [fetching EXCEPT ![k] = @ - 1]
    /\ \/ \E size \in Sizes : Write(k, size)
       \/ UNCHANGED <<mediaCache, mediaCacheBytes, lastUse, uses>>   \* no media, or an error
    /\ UNCHANGED now
\* the webhook of a message brings its media along
Inline(k) ==
    /\ \E size \in Sizes : Write(k, size)
    /\ UNCHANGED <<now, fetching>>
\* onModuleDestroy, and the calls at work are lost
ClearMedia ==
    /\ mediaCache' = <<>> /\ mediaCacheBytes' = 0
    /\ fetching' = [k \in MediaKeys |-> 0]
    /\ UNCHANGED <<now, lastUse, uses>>
Tick ==
    /\ now < MaxTime
    /\ now' = now + 1
    /\ UNCHANGED <<mediaCache, mediaCacheBytes, fetching, lastUse, uses>>

MediaCacheNext ==
    \/ Tick \/ ClearMedia
    \/ \E k \in MediaKeys : Hit(k) \/ Miss(k) \/ Fetched(k) \/ Inline(k)

MediaCacheSpec == MediaCacheInit /\ [][MediaCacheNext]_mediaVars

----------------------------------------------------------------------------
MediaCacheTypeOK ==
    /\ mediaCache \in Seq(Entry) /\ mediaCacheBytes \in Int
    /\ now \in 0 .. MaxTime
    /\ fetching \in [MediaKeys -> 0 .. 2]
    /\ lastUse \in [MediaKeys -> 0 .. MaxUses] /\ uses \in 0 .. MaxUses

\* The counter of the media cache is the sum of its entries and within the budget, a
\* key has one entry, and what will be evicted next is what was used longest ago:
\* whatever fetches, webhooks and expiries cross each other.
MediaCacheAccounted ==
    /\ mediaCacheBytes = BytesOf(mediaCache) /\ mediaCacheBytes <= MaxBytes
    /\ \A i, k \in DOMAIN mediaCache :
          i < k => lastUse[mediaCache[i].key] < lastUse[mediaCache[k].key]

\* With the types it is inductive: no use is later than the last.
MediaInv ==
    /\ MediaCacheTypeOK /\ MediaCacheAccounted
    /\ \A k \in MediaKeys : lastUse[k] <= uses
=============================================================================
