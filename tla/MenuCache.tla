------------------------------ MODULE MenuCache ------------------------------
(***************************************************************************)
(* The memo of cache.js: each isolate keeps, for ten seconds, the promise  *)
(* of its last read of the menu (loadProductsData in index.js). Whoever    *)
(* writes to the catalogue removes the entry of its own isolate and of no  *)
(* other. The settings of the site are kept the same way under another key.*)
(*                                                                         *)
(* What is cached is named by the revision of the catalogue it shows: the  *)
(* number of writes that D1 had applied when it was read. The two queries  *)
(* of getProducts count as one, at the earlier of the two.                 *)
(***************************************************************************)
EXTENDS Integers

CONSTANTS
    Isolates,   \* isolates of the Worker
    Fetches,    \* reads of the menu that may be under way or cached at a time
    NoFetch,
    TTL,        \* MEMO_TTL_MS in ticks of the clock
    MaxEvents   \* bound on what comes from outside: requests, faults and ticks

ASSUME CacheAssumption ==
    /\ NoFetch \notin Fetches
    /\ TTL \in Nat \ {0}
    /\ MaxEvents \in Nat

VARIABLES
    revision,   \* number of writes that D1 has applied to the catalogue
    marks,      \* marks[k]: the revision when the clock last ticked k times ago
    entry,      \* entry[i]: the entry of isolate i and the ticks until it expires
    fetch,      \* fetch[f]: a read of the menu
    settled,    \* settled[i]: the revision when isolate i last removed its entry
    events      \* what has come from outside so far

cacheVars == <<marks, entry, fetch, settled>>

-----------------------------------------------------------------------------
Empty == [fetch |-> NoFetch, left |-> 0]

Unused == [pc |-> "free", isolate |-> NoFetch, data |-> 0]

Event == events < MaxEvents /\ events' = events + 1

\* hit && hit.exp > now
Hit(i) == entry[i].fetch # NoFetch /\ entry[i].left > 0

\* The reads that isolate i keeps the answer of are no longer kept.
Forgotten(i) ==
    [f \in Fetches |-> IF fetch[f].pc = "done" /\ fetch[f].isolate = i THEN Unused ELSE fetch[f]]

CacheInit ==
    /\ revision = 0
    /\ marks = [k \in 1..TTL |-> 0]
    /\ entry = [i \in Isolates |-> Empty]
    /\ fetch = [f \in Fetches |-> Unused]
    /\ settled = [i \in Isolates |-> 0]
    /\ events = 0

\* memo without a hit: the promise is stored before there is anything to read.
\* With a hit nothing changes, whether or not the promise has an answer yet.
Fetch(i, f) ==
    /\ ~Hit(i)
    /\ fetch[f].pc = "free"
    /\ Event
    /\ fetch' = [Forgotten(i) EXCEPT ![f] = [pc |-> "asking", isolate |-> i, data |-> 0]]
    /\ entry' = [entry EXCEPT ![i] = [fetch |-> f, left |-> TTL]]
    /\ UNCHANGED <<revision, marks, settled>>

\* getProducts is answered by D1; the answer is still to reach the isolate.
Query(f) ==
    /\ fetch[f].pc = "asking"
    /\ fetch' = [fetch EXCEPT ![f].pc = "answered", ![f].data = revision]
    /\ UNCHANGED <<revision, marks, entry, settled, events>>

\* Mutant for FreshWithinTTL: the ten seconds count from the answer.
ArriveRenewed(f) ==
    LET i == fetch[f].isolate
    IN  /\ fetch[f].pc = "answered"
        /\ IF entry[i].fetch = f
           THEN /\ fetch' = [fetch EXCEPT ![f].pc = "done"]
                /\ entry' = [entry EXCEPT ![i].left = TTL]
           ELSE fetch' = [fetch EXCEPT ![f] = Unused] /\ UNCHANGED entry
        /\ UNCHANGED <<revision, marks, settled, events>>

\* Mutant for ServesOwnWrites: the answer is stored, not the promise of it.
ArriveStored(f) ==
    LET i == fetch[f].isolate
    IN  /\ fetch[f].pc = "answered"
        /\ fetch' = [fetch EXCEPT ![f].pc = "done"]
        /\ entry' = IF entry[i].fetch = NoFetch
                    THEN [entry EXCEPT ![i] = [fetch |-> f, left |-> TTL]] ELSE entry
        /\ UNCHANGED <<revision, marks, settled, events>>

\* The promise is fulfilled. One that is no longer cached is forgotten.
Arrive(f) ==
    /\ fetch[f].pc = "answered"
    /\ fetch' = IF entry[fetch[f].isolate].fetch = f
                THEN [fetch EXCEPT ![f].pc = "done"] ELSE [fetch EXCEPT ![f] = Unused]
    /\ UNCHANGED <<revision, marks, entry, settled, events>>

\* The query fails, or its answer is lost: the entry goes, even if it is that of
\* a later read by now.
FailFetch(f) ==
    /\ fetch[f].pc \in {"asking", "answered"}
    /\ Event
    /\ entry' = [entry EXCEPT ![fetch[f].isolate] = Empty]
    /\ fetch' = [Forgotten(fetch[f].isolate) EXCEPT ![f] = Unused]
    /\ UNCHANGED <<revision, marks, settled>>

\* invalidateCache, clearMemo.
Invalidate(i) ==
    /\ entry' = [entry EXCEPT ![i] = Empty]
    /\ fetch' = Forgotten(i)
    /\ settled' = [settled EXCEPT ![i] = revision]
    /\ UNCHANGED marks

\* The clock is Date.now(), in ticks.
Tick ==
    /\ Event
    /\ marks' = [k \in 1..TTL |-> IF k = 1 THEN revision ELSE marks[k - 1]]
    /\ entry' = [i \in Isolates |->
                    [entry[i] EXCEPT !.left = IF @ = 0 THEN 0 ELSE @ - 1]]
    /\ UNCHANGED <<revision, fetch, settled>>

CacheNext ==
    \/ \E i \in Isolates, f \in Fetches : Fetch(i, f)
    \/ \E f \in Fetches : Query(f) \/ Arrive(f) \/ FailFetch(f)
    \/ Tick

-----------------------------------------------------------------------------
CacheTypeOK ==
    /\ revision \in Nat
    /\ marks \in [1..TTL -> Nat]
    /\ entry \in [Isolates -> [fetch : Fetches \cup {NoFetch}, left : 0..TTL]]
    /\ fetch \in [Fetches -> [pc : {"free", "asking", "answered", "done"},
                              isolate : Isolates \cup {NoFetch}, data : Nat]]
    /\ settled \in [Isolates -> Nat]
    /\ events \in 0..MaxEvents

\* A request that arrives at isolate i now shares a read that D1 has answered.
Served(i) == Hit(i) /\ fetch[entry[i].fetch].pc \in {"answered", "done"}

\* A request is shown the menu as it was at most TTL before it arrived, however
\* long reads take, whichever fail and whatever other isolates write.
FreshWithinTTL ==
    \A i \in Isolates : Served(i) => fetch[entry[i].fetch].data >= marks[TTL]

\* Once a write has been acknowledged by an isolate, that isolate shows nothing
\* older: not from its entry, nor from a read that was under way.
ServesOwnWrites ==
    \A i \in Isolates : Served(i) => fetch[entry[i].fetch].data >= settled[i]
=============================================================================
