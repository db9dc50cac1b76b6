------------------------------ MODULE RateLimit ------------------------------
(***************************************************************************)
(* One bucket of the rate limiter (RateLimiter::enforce(),                 *)
(* RateLimitStore::hit()): calls of several requests, counted in fixed     *)
(* windows.  Every hit goes to the object cache if the site has one, to    *)
(* the table imgsig_rate_limits if the cache refuses it or there is none,  *)
(* and to a transient if the table is not there or its query fails; each   *)
(* keeps its own count.  A request works out its window from the clock and *)
(* records its hit later: the window may be over by then.  get() and       *)
(* reset(), which nothing in the plugin calls, are left out.               *)
(***************************************************************************)
EXTENDS Naturals, FiniteSets, FiniteSetsExt

CONSTANTS
    Callers,    \* requests at the same time
    MaxHits,    \* the limit; 0 switches it off before any hit is counted
    MaxWindow,  \* bound on the clock, in windows
    MaxCalls    \* bound on the calls

ASSUME RateLimitAssumption ==
    /\ IsFiniteSet(Callers) /\ MaxHits \in Nat \ {0}
    /\ {MaxWindow, MaxCalls} \subseteq Nat

VARIABLES
    extCache,        \* wp_using_ext_object_cache()
    clock,           \* the present window
    counters,        \* the hits in the cache, one counter for each window
    bucket,          \* the row: its window and hits, no hits when there is no row
    transientState,  \* the transient: the same
    caller,          \* where each request is, and what it has read
    calls,           \* how many calls there were
    byCache,         \* the calls let through for each window: by the cache,
    byTable,         \* by the table,
    byTransient,     \* and by the transient
    fallen,          \* <<what, window>>: it could not count a hit of this window
    crossed,         \* a transient was read between another request's read and write
    late             \* the hits recorded after their window was over

limitVars == <<extCache, clock, counters, bucket, transientState, caller, calls, byCache,
               byTable, byTransient, fallen, crossed, late>>

Windows == 0..MaxWindow
NotCalling == [at |-> "idle", window |-> 0, read |-> 0]
NoHits == [window |-> 0, hits |-> 0]

RateLimitInit ==
    /\ extCache \in BOOLEAN /\ clock = 0
    /\ counters = [w \in Windows |-> 0]
    /\ bucket = NoHits /\ transientState = NoHits
    /\ caller = [c \in Callers |-> NotCalling]
    /\ calls = 0
    /\ byCache = [w \in Windows |-> 0] /\ byTable = [w \in Windows |-> 0]
    /\ byTransient = [w \in Windows |-> 0]
    /\ fallen = {} /\ crossed = FALSE /\ late = 0

WindowPasses ==
    /\ clock < MaxWindow /\ clock' = clock + 1
    /\ UNCHANGED <<extCache, counters, bucket, transientState, caller, calls, byCache, byTable,
                   byTransient, fallen, crossed, late>>

\* hit(): the window is that of now().
Calls(c) ==
    /\ caller[c] = NotCalling
    /\ calls < MaxCalls /\ calls' = calls + 1
    /\ caller' = [caller EXCEPT ![c] = [at |-> IF extCache THEN "cache" ELSE "table",
                                        window |-> clock, read |-> 0]]
    /\ UNCHANGED <<extCache, clock, counters, bucket, transientState, byCache, byTable,
                   byTransient, fallen, crossed, late>>

\* Faulty: one hit too many.
AdmitsAtLimit(by, w, hits) == IF hits <= MaxHits + 1 THEN [by EXCEPT ![w] = @ + 1] ELSE by

\* enforce() lets the call through, or throws.
Admits(by, w, hits) == IF hits <= MaxHits THEN [by EXCEPT ![w] = @ + 1] ELSE by

\* The hit is on record, perhaps when its window is over.
Recorded(c) == late' = IF caller[c].window < clock THEN late + 1 ELSE late

Rests(c) == caller' = [caller EXCEPT ![c] = NotCalling]

\* hit_object_cache(): add and incr.
HitObjectCache(c) ==
    /\ caller[c].at = "cache"
    /\ LET w == caller[c].window
       IN  /\ counters' = [counters EXCEPT ![w] = @ + 1]
           /\ byCache' = Admits(byCache, w, counters[w] + 1)
    /\ Recorded(c) /\ Rests(c)
    /\ UNCHANGED <<extCache, clock, bucket, transientState, calls, byTable, byTransient, fallen,
                   crossed>>

\* "Null when the backend refused the increment."
CacheRefuses(c) ==
    /\ caller[c].at = "cache"
    /\ caller' = [caller EXCEPT ![c].at = "table"]
    /\ fallen' = fallen \cup {<<"cache", caller[c].window>>}
    /\ UNCHANGED <<extCache, clock, counters, bucket, transientState, calls, byCache, byTable,
                   byTransient, crossed, late>>

\* The hits of a window after one more: those of another window do not count.
Increment(b, w) == IF b.window = w THEN b.hits + 1 ELSE 1

\* hit_database(): one statement, which says how many hits there are unless the row is new.
HitDatabase(c) ==
    /\ caller[c].at = "table"
    /\ LET w == caller[c].window
       IN  /\ bucket' = [window |-> w, hits |-> Increment(bucket, w)]
           /\ IF bucket.hits = 0
              THEN caller' = [caller EXCEPT ![c].at = "count"] /\ UNCHANGED byTable
              ELSE Rests(c) /\ byTable' = Admits(byTable, w, Increment(bucket, w))
    /\ Recorded(c)
    /\ UNCHANGED <<extCache, clock, counters, transientState, calls, byCache, byTransient,
                   fallen, crossed>>

\* The hits of a new row are read back, from whatever row there is by then; when
\* there is none, or the query fails, the hit was the first.
ReadBack(c) ==
    /\ caller[c].at = "count"
    /\ \E hits \in {1, bucket.hits} :
          hits # 0 /\ byTable' = Admits(byTable, caller[c].window, hits)
    /\ Rests(c)
    /\ UNCHANGED <<extCache, clock, counters, bucket, transientState, calls, byCache,
                   byTransient, fallen, crossed, late>>

\* "Null when the table is unusable."
TableFails(c) ==
    /\ caller[c].at = "table"
    /\ caller' = [caller EXCEPT ![c].at = "transient"]
    /\ fallen' = fallen \cup {<<"table", caller[c].window>>}
    /\ UNCHANGED <<extCache, clock, counters, bucket, transientState, calls, byCache, byTable,
                   byTransient, crossed, late>>

\* hit_transient(): read,
ReadTransient(c) ==
    /\ caller[c].at = "transient"
    /\ caller' = [caller EXCEPT ![c] = [at |-> "write", window |-> @.window,
                                        read |-> Increment(transientState, @.window)]]
    /\ crossed' = (crossed \/ \E d \in Callers : caller[d].at = "write")
    /\ UNCHANGED <<extCache, clock, counters, bucket, transientState, calls, byCache, byTable,
                   byTransient, fallen, late>>

\* ... and write.
WriteTransient(c) ==
    /\ caller[c].at = "write"
    /\ transientState' = [window |-> caller[c].window, hits |-> caller[c].read]
    /\ byTransient' = Admits(byTransient, caller[c].window, caller[c].read)
    /\ Recorded(c) /\ Rests(c)
    /\ UNCHANGED <<extCache, clock, counters, bucket, calls, byCache, byTable, fallen, crossed>>

\* purge_expired(), the transient and the cache forget windows that are over.
Purge ==
    /\ \/ bucket.window < clock /\ bucket.hits > 0
          /\ bucket' = NoHits /\ UNCHANGED <<counters, transientState>>
       \/ transientState.window < clock /\ transientState.hits > 0
          /\ transientState' = NoHits /\ UNCHANGED <<counters, bucket>>
       \/ \E w \in Windows : /\ w < clock /\ counters[w] > 0
                             /\ counters' = [counters EXCEPT ![w] = 0]
                             /\ UNCHANGED <<bucket, transientState>>
    /\ UNCHANGED <<extCache, clock, caller, calls, byCache, byTable, byTransient, fallen,
                   crossed, late>>

RateLimitNext ==
    \/ WindowPasses \/ Purge
    \/ \E c \in Callers : \/ Calls(c) \/ HitObjectCache(c) \/ CacheRefuses(c)
                          \/ HitDatabase(c) \/ ReadBack(c) \/ TableFails(c)
                          \/ ReadTransient(c) \/ WriteTransient(c)

RateLimitSpec == RateLimitInit /\ [][RateLimitNext]_limitVars

-----------------------------------------------------------------------------
RateLimitTypeOK ==
    /\ extCache \in BOOLEAN /\ clock \in Windows /\ counters \in [Windows -> Nat]
    /\ bucket \in [window : Windows, hits : Nat]
    /\ transientState \in [window : Windows, hits : Nat]
    /\ caller \in [Callers -> [at : {"idle", "cache", "table", "count", "transient", "write"},
                               window : Windows, read : Nat]]
    /\ calls \in 0..MaxCalls /\ late \in Nat
    /\ byCache \in [Windows -> Nat] /\ byTable \in [Windows -> Nat]
    /\ byTransient \in [Windows -> Nat]
    /\ fallen \subseteq {"cache", "table"} \X Windows /\ crossed \in BOOLEAN

\* 1 when a hit of window w fell from here to the next place that counts.
Fell(place, w) == IF <<place, w>> \in fallen THEN 1 ELSE 0

\* A window lets through no more than its limit in each of the places its hits were
\* counted in: a second one if the cache refused one of them, a third if the table
\* failed; and once more for each hit recorded after its window was over, which begins
\* the count of the row again ("no read-modify-write").  The transient is read and
\* written in two steps: nothing is said of what it lets through once two of them crossed.
LimitHolds ==
    \A w \in Windows :
        byCache[w] + byTable[w] + (IF crossed THEN 0 ELSE byTransient[w])
            <= MaxHits * (1 + late + Fell("cache", w) + Fell("table", w))
=============================================================================
