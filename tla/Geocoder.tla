------------------------------ MODULE Geocoder ------------------------------
(***************************************************************************)
(* GeocodingService: the place of an address is looked for with less and   *)
(* less of it, through a cache, and with a pause between any two requests  *)
(* to Nominatim.  Requests of users and the job in the background call it  *)
(* at the same time.                                                       *)
(***************************************************************************)
EXTENDS Naturals, Sequences, SequencesExt

CONSTANTS Callers,
          Addresses,    \* the queries an address is tried with, in order
          Places,       \* the queries Nominatim finds a place for
          Gap,          \* 1100 ms
          GeoTime       \* bound: time

ASSUME GeocoderAssumption ==
    /\ Gap \in Nat \ {0} /\ GeoTime \in Nat /\ Gap <= GeoTime
    /\ \A a \in Addresses : a \in Seq(STRING) /\ a # <<>>

VARIABLES clock, lastRequestTime,
          cache,      \* query -> "found", "none" (null), or "" (undefined)
          caller,
          requests    \* history: those that went out, with what their callers knew

geocoderVars == <<clock, lastRequestTime, cache, caller, requests>>

Queries == UNION {ToSet(a) : a \in Addresses}
Waiting == [step |-> "idle", address |-> <<>>, at |-> 1, until |-> 0, out |-> 0, known |-> {},
            request |-> 0, failed |-> {}]
Query(c) == caller[c].address[caller[c].at]

GeocoderInit ==
    /\ clock = Gap /\ lastRequestTime = 0
    /\ cache = [q \in Queries |-> ""]
    /\ caller = [c \in Callers |-> Waiting]
    /\ requests = <<>>

\* an attempt is over: the next one, if it found nothing and there is one
Tried(job, found) ==
    IF ~found /\ job.at < Len(job.address) THEN [job EXCEPT !.step = "try", !.at = @ + 1]
    ELSE [job EXCEPT !.step = IF found THEN "found" ELSE "none"]

GeocodeAddress(c, address) ==
    /\ caller[c].step = "idle"
    /\ caller' = [caller EXCEPT ![c] = [Waiting EXCEPT !.step = "try", !.address = address]]
    /\ UNCHANGED <<clock, lastRequestTime, cache, requests>>

\* Mutant: null is as good as undefined
OnlyFound(q) == cache[q] = "found"

IsCached(q) == cache[q] # ""

\* rateLimitedFetch: the cache, or a pause until Gap after the last request there was
LookUp(c) ==
    /\ caller[c].step = "try"
    /\ \/ /\ IsCached(Query(c))
          /\ caller' = [caller EXCEPT ![c] = Tried(@, cache[Query(c)] = "found")]
       \/ /\ ~IsCached(Query(c))
          /\ caller' = [caller EXCEPT ![c] =
               [@ EXCEPT !.step = "pause", !.out = Len(requests),
                  !.until = IF clock < lastRequestTime + Gap THEN lastRequestTime + Gap
                            ELSE clock,
                  !.known = {i \in DOMAIN requests : requests[i].answered}]]
    /\ UNCHANGED <<clock, lastRequestTime, cache, requests>>
\* the request goes out; nothing looks at the last one again
Fetch(c) ==
    /\ caller[c].step = "pause" /\ caller[c].until <= clock
    /\ lastRequestTime' = clock
    /\ requests' = Append(requests, [query |-> Query(c), at |-> clock, out |-> caller[c].out,
                                     known |-> caller[c].known, answered |-> FALSE])
    /\ caller' = [caller EXCEPT ![c].step = "fetch", ![c].request = Len(requests) + 1]
    /\ UNCHANGED <<clock, cache>>
\* the answer: a place or none, which the cache keeps; or an error, which it does not
Answer(c) ==
    /\ caller[c].step = "fetch"
    /\ cache' = [cache EXCEPT ![Query(c)] = IF Query(c) \in Places THEN "found" ELSE "none"]
    /\ requests' = [requests EXCEPT ![caller[c].request].answered = TRUE]
    /\ caller' = [caller EXCEPT ![c] = Tried(@, Query(c) \in Places)]
    /\ UNCHANGED <<clock, lastRequestTime>>
FetchFails(c) ==
    /\ caller[c].step = "fetch"
    /\ LET job == [caller[c] EXCEPT !.failed = @ \union {caller[c].at}] IN
       caller' = [caller EXCEPT ![c] = Tried(job, FALSE)]
    /\ UNCHANGED <<clock, lastRequestTime, cache, requests>>
Elapse ==
    /\ clock < GeoTime /\ clock' = clock + 1
    /\ UNCHANGED <<lastRequestTime, cache, caller, requests>>

GeocoderNext ==
    \/ Elapse
    \/ \E c \in Callers :
          \/ LookUp(c) \/ Fetch(c) \/ Answer(c) \/ FetchFails(c)
          \/ \E a \in Addresses : GeocodeAddress(c, a)

GeocoderSpec == GeocoderInit /\ [][GeocoderNext]_geocoderVars

----------------------------------------------------------------------------
CallerState == [step : {"idle", "try", "pause", "fetch", "found", "none"},
                address : Addresses \union {<<>>}, at : Nat, until : 0 .. GeoTime + Gap,
                out : Nat, known : SUBSET Nat, request : Nat, failed : SUBSET Nat]
Request == [query : Queries, at : 0 .. GeoTime, out : Nat, known : SUBSET Nat,
            answered : BOOLEAN]

GeocoderTypeOK ==
    /\ clock \in 0 .. GeoTime /\ lastRequestTime \in 0 .. GeoTime
    /\ cache \in [Queries -> {"", "found", "none"}]
    /\ caller \in [Callers -> CallerState]
    /\ requests \in Seq(Request)

\* the attempts that find a place
Placed(job) == {n \in DOMAIN job.address : job.address[n] \in Places} \ job.failed

\* Two requests go out closer than the gap only when the later one's caller measured its
\* pause before the earlier one went out; a query goes out again only when its answer was
\* not there yet when the caller looked, or was an error; and an address gets the place of
\* its most precise query that has one, but for those that failed.
GeocoderIsFair ==
    /\ \A i, k \in DOMAIN requests :
          i < k => /\ requests[k].at < requests[i].at + Gap => requests[k].out < i
                   /\ requests[k].query = requests[i].query => i \notin requests[k].known
    /\ \A c \in Callers :
          LET job == caller[c] IN
          /\ job.step = "found" =>
                job.at \in Placed(job) /\ \A n \in Placed(job) : job.at <= n
          /\ job.step = "none" => Placed(job) = {}

----------------------------------------------------------------------------
(* The inductive invariant behind GeocoderIsFair *)

\* No request went out after the last one, and what was answered is in the cache, rightly.
RequestsAreKept ==
    /\ lastRequestTime <= clock
    /\ \A i \in DOMAIN requests :
          /\ requests[i].at <= lastRequestTime
          /\ requests[i].answered => cache[requests[i].query] # ""
    /\ \A q \in Queries : cache[q] # "" => (cache[q] = "found" <=> q \in Places)

\* A caller at work has tried the attempts before this one; its pause is long enough for the
\* requests it knew of, and none of those that were answered is for what it asks; what it
\* sent is what it asks.
CallerTries(c) ==
    LET job == caller[c] IN
    /\ job.step # "idle" => job.address \in Addresses /\ job.at \in DOMAIN job.address
    /\ job.step \in {"try", "pause", "fetch"} =>
          /\ \A n \in Placed(job) : job.at <= n
          /\ \A n \in job.failed : n < job.at
    /\ job.step = "pause" =>
          /\ job.out <= Len(requests)
          /\ \A i \in DOMAIN requests : i <= job.out => requests[i].at + Gap <= job.until
          /\ \A i \in job.known : i \in DOMAIN requests /\ requests[i].query # Query(c)
    /\ job.step = "fetch" =>
          job.request \in DOMAIN requests /\ requests[job.request].query = Query(c)

GeocoderInv ==
    /\ GeocoderTypeOK /\ RequestsAreKept /\ GeocoderIsFair
    /\ \A c \in Callers : CallerTries(c)
=============================================================================
