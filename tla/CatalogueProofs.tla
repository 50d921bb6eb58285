--------------------------- MODULE CatalogueProofs ---------------------------
(***************************************************************************)
(* Proofs about MenuCache and Catalogue, for every number of isolates,     *)
(* reads, products, categories, handlers, panels and chats, for every      *)
(* time to live and for every range of prices.                             *)
(***************************************************************************)
EXTENDS Catalogue, TLAPS

-----------------------------------------------------------------------------
(* The menus of the isolates. A read that an isolate keeps the answer of   *)
(* has shown nothing older than the last write that the isolate knows of,  *)
(* nor than the menu of the tick before the read began.                    *)

EntriesKept ==
    \A i \in Isolates : entry[i].fetch # NoFetch =>
        fetch[entry[i].fetch].isolate = i /\ fetch[entry[i].fetch].pc # "free"

UsedTyped == \A f \in Fetches : fetch[f].pc # "free" => fetch[f].isolate \in Isolates

NothingAhead ==
    /\ \A k \in 1..TTL : marks[k] <= revision
    /\ \A i \in Isolates : settled[i] <= revision

Recent(i, f) ==
    /\ fetch[f].data >= settled[i]
    /\ \A k \in 1..TTL : k > TTL - entry[i].left => fetch[f].data >= marks[k]

AnswersRecent ==
    \A i \in Isolates : entry[i].fetch # NoFetch =>
        (fetch[entry[i].fetch].pc \in {"answered", "done"} => Recent(i, entry[i].fetch))

CacheInv == CacheTypeOK /\ EntriesKept /\ UsedTyped /\ NothingAhead /\ AnswersRecent

LEMMA CacheConstants == NoFetch \notin Fetches /\ TTL \in Nat \ {0} /\ MaxEvents \in Nat
  BY CacheAssumption

LEMMA EntryTyped ==
    ASSUME CacheTypeOK, NEW i \in Isolates
    PROVE  entry[i].fetch \in Fetches \cup {NoFetch} /\ entry[i].left \in 0..TTL
  BY DEF CacheTypeOK

LEMMA EventTyped == ASSUME CacheTypeOK, Event PROVE events' \in 0..MaxEvents
  BY CacheConstants DEF Event, CacheTypeOK

LEMMA CacheInitInv == CacheInit => CacheInv
  BY CacheConstants DEF CacheInit, CacheInv, CacheTypeOK, EntriesKept, UsedTyped, NothingAhead,
     AnswersRecent, Empty, Unused

\* Entries of other isolates do not refer to a read of isolate i.
LEMMA ForgottenKeeps ==
    ASSUME CacheInv, NEW i
    PROVE  /\ Forgotten(i) \in [Fetches -> [pc : {"free", "asking", "answered", "done"},
                                            isolate : Isolates \cup {NoFetch}, data : Nat]]
           /\ \A f \in Fetches : Forgotten(i)[f] \in {fetch[f], Unused}
           /\ \A f \in Fetches : fetch[f].isolate # i => Forgotten(i)[f] = fetch[f]
  BY DEF CacheInv, CacheTypeOK, Forgotten, Unused

\* What happens to the entry of isolate i, and to reads that it alone refers to,
\* leaves the other isolates as they are.
LEMMA OthersKept ==
    ASSUME CacheInv, NEW i, NEW j \in Isolates \ {i},
           entry'[j] = entry[j], settled'[j] = settled[j], UNCHANGED marks,
           \A f \in Fetches : fetch[f].isolate = j => fetch'[f] = fetch[f]
    PROVE  entry'[j].fetch # NoFetch =>
             /\ fetch'[entry'[j].fetch].isolate = j /\ fetch'[entry'[j].fetch].pc # "free"
             /\ fetch'[entry'[j].fetch].pc \in {"answered", "done"} => Recent(j, entry[j].fetch)'
<1> SUFFICES ASSUME entry[j].fetch # NoFetch PROVE
             /\ fetch'[entry[j].fetch].isolate = j /\ fetch'[entry[j].fetch].pc # "free"
             /\ fetch'[entry[j].fetch].pc \in {"answered", "done"} => Recent(j, entry[j].fetch)'
  OBVIOUS
<1>1. entry[j].fetch \in Fetches  BY EntryTyped DEF CacheInv
<1>2. fetch[entry[j].fetch].isolate = j  BY DEF CacheInv, EntriesKept
<1>3. fetch'[entry[j].fetch] = fetch[entry[j].fetch]  BY <1>1, <1>2
<1> QED  BY <1>2, <1>3 DEF CacheInv, EntriesKept, AnswersRecent, Recent

\* What is to be shown of isolate i after a step.
EntryFine(i) ==
    entry[i].fetch # NoFetch =>
        /\ fetch[entry[i].fetch].isolate = i /\ fetch[entry[i].fetch].pc # "free"
        /\ fetch[entry[i].fetch].pc \in {"answered", "done"} => Recent(i, entry[i].fetch)

LEMMA FetchKept ==
    ASSUME CacheInv, NEW i \in Isolates, NEW f \in Fetches, Fetch(i, f)
    PROVE  CacheInv'
<1>1. /\ fetch[f].pc = "free" /\ fetch' = [Forgotten(i) EXCEPT ![f] = [pc |-> "asking", isolate |-> i, data |-> 0]]
      /\ entry' = [entry EXCEPT ![i] = [fetch |-> f, left |-> TTL]]
      /\ Event /\ UNCHANGED <<revision, marks, settled>>
  BY DEF Fetch
<1>2. CacheTypeOK'
  <2>1. entry' \in [Isolates -> [fetch : Fetches \cup {NoFetch}, left : 0..TTL]]
    BY <1>1, CacheConstants DEF CacheInv, CacheTypeOK
  <2>2. fetch' \in [Fetches -> [pc : {"free", "asking", "answered", "done"},
                               isolate : Isolates \cup {NoFetch}, data : Nat]]
    BY <1>1, ForgottenKeeps
  <2>3. events' \in 0..MaxEvents  BY <1>1, EventTyped DEF CacheInv
  <2> QED  BY <1>1, <2>1, <2>2, <2>3 DEF CacheInv, CacheTypeOK
<1>3. UsedTyped'  BY <1>1, ForgottenKeeps DEF CacheInv, UsedTyped, Unused
<1>4. NothingAhead'  BY <1>1 DEF CacheInv, NothingAhead
<1>5. ASSUME NEW j \in Isolates PROVE EntryFine(j)'
  <2>1. CASE j = i
    <3>1. entry'[j].fetch = f  BY <1>1, <2>1 DEF CacheInv, CacheTypeOK
    <3>2. fetch'[f] = [pc |-> "asking", isolate |-> i, data |-> 0]
      BY <1>1, ForgottenKeeps
    <3> QED  BY <2>1, <3>1, <3>2 DEF EntryFine
  <2>2. CASE j # i
    <3>1. entry'[j] = entry[j]  BY <1>1, <2>2 DEF CacheInv, CacheTypeOK
    <3>2. entry[j].fetch # f  BY <1>1, CacheConstants DEF CacheInv, EntriesKept
    <3>3. \A g \in Fetches \ {f} : fetch[g].isolate = j => fetch'[g] = fetch[g]
      BY <1>1, <2>2, ForgottenKeeps
    <3> QED
      BY <1>1, <3>1, <3>2, <3>3, EntryTyped
      DEF CacheInv, EntriesKept, AnswersRecent, EntryFine, Recent
  <2> QED  BY <2>1, <2>2
<1> QED  BY <1>2, <1>3, <1>4, <1>5 DEF CacheInv, EntriesKept, AnswersRecent, EntryFine

LEMMA QueryKept == ASSUME CacheInv, NEW f \in Fetches, Query(f) PROVE CacheInv'
<1>1. /\ fetch[f].pc = "asking"
      /\ fetch' = [fetch EXCEPT ![f].pc = "answered", ![f].data = revision]
      /\ UNCHANGED <<revision, marks, entry, settled, events>>
  BY DEF Query
<1>2. CacheTypeOK'  BY <1>1 DEF CacheInv, CacheTypeOK
<1>3. /\ fetch'[f].data = revision /\ fetch'[f].pc = "answered"
      /\ fetch'[f].isolate = fetch[f].isolate
      /\ \A g \in Fetches \ {f} : fetch'[g] = fetch[g]
  BY <1>1 DEF CacheInv, CacheTypeOK
<1>4. UsedTyped'  BY <1>1, <1>3 DEF CacheInv, UsedTyped
<1>5. NothingAhead'  BY <1>1 DEF CacheInv, NothingAhead
<1>6. ASSUME NEW j \in Isolates PROVE EntryFine(j)'
  <2>1. CASE entry[j].fetch = f
    <3>1. Recent(j, f)'  BY <1>1, <1>3 DEF CacheInv, CacheTypeOK, NothingAhead, Recent
    <3>2. f # NoFetch /\ fetch[f].isolate = j
      BY <2>1, CacheConstants DEF CacheInv, EntriesKept
    <3> QED  BY <1>1, <1>3, <2>1, <3>1, <3>2 DEF EntryFine
  <2>2. CASE entry[j].fetch # f
    <3> SUFFICES ASSUME entry[j].fetch # NoFetch PROVE EntryFine(j)'
      BY <1>1 DEF EntryFine
    <3>1. entry[j].fetch \in Fetches \ {f}  BY <2>2, EntryTyped DEF CacheInv
    <3>2. fetch'[entry[j].fetch] = fetch[entry[j].fetch]  BY <1>3, <3>1
    <3>3. EntryFine(j)  BY DEF CacheInv, EntriesKept, AnswersRecent, EntryFine
    <3> QED  BY <1>1, <3>2, <3>3 DEF EntryFine, Recent
  <2> QED  BY <2>1, <2>2
<1> QED  BY <1>2, <1>4, <1>5, <1>6 DEF CacheInv, EntriesKept, AnswersRecent, EntryFine

LEMMA ArriveKept == ASSUME CacheInv, NEW f \in Fetches, Arrive(f) PROVE CacheInv'
<1>1. /\ fetch[f].pc = "answered"
      /\ fetch' = IF entry[fetch[f].isolate].fetch = f
                  THEN [fetch EXCEPT ![f].pc = "done"] ELSE [fetch EXCEPT ![f] = Unused]
      /\ UNCHANGED <<revision, marks, entry, settled, events>>
  BY DEF Arrive
<1>2. CacheTypeOK'  BY <1>1 DEF CacheInv, CacheTypeOK, Unused
<1>3. \A g \in Fetches \ {f} : fetch'[g] = fetch[g]  BY <1>1 DEF CacheInv, CacheTypeOK
<1>4. \/ /\ fetch'[f].pc = "done" /\ fetch'[f].isolate = fetch[f].isolate
         /\ fetch'[f].data = fetch[f].data
      \/ entry[fetch[f].isolate].fetch # f /\ fetch'[f] = Unused
  BY <1>1 DEF CacheInv, CacheTypeOK
<1>5. UsedTyped'  BY <1>1, <1>3, <1>4 DEF CacheInv, UsedTyped, Unused
<1>6. NothingAhead'  BY <1>1 DEF CacheInv, NothingAhead
<1>7. ASSUME NEW j \in Isolates PROVE EntryFine(j)'
  <2>1. CASE entry[j].fetch = f
    <3>1. f # NoFetch /\ fetch[f].isolate = j
      BY <2>1, CacheConstants DEF CacheInv, EntriesKept
    <3>2. fetch'[f].pc = "done" /\ fetch'[f].isolate = j /\ fetch'[f].data = fetch[f].data
      BY <1>4, <2>1, <3>1
    <3> QED
      BY <1>1, <2>1, <3>1, <3>2 DEF CacheInv, AnswersRecent, EntryFine, Recent
  <2>2. CASE entry[j].fetch # f
    BY <1>1, <1>3, <2>2, EntryTyped
    DEF CacheInv, EntriesKept, AnswersRecent, EntryFine, Recent
  <2> QED  BY <2>1, <2>2
<1> QED  BY <1>2, <1>5, <1>6, <1>7 DEF CacheInv, EntriesKept, AnswersRecent, EntryFine

\* An isolate drops its entry, and the reads that it keeps the answers of.
Emptied(i) ==
    /\ entry' = [entry EXCEPT ![i] = Empty]
    /\ fetch' \in [Fetches -> [pc : {"free", "asking", "answered", "done"},
                               isolate : Isolates \cup {NoFetch}, data : Nat]]
    /\ \A g \in Fetches : fetch'[g] \in {fetch[g], Unused}
    /\ \A g \in Fetches : fetch[g].isolate # i => fetch'[g] = fetch[g]
    /\ settled' = settled \/ settled' = [settled EXCEPT ![i] = revision]
    /\ UNCHANGED <<revision, marks>>
    /\ events' \in 0..MaxEvents

LEMMA EmptiedKept == ASSUME CacheInv, NEW i, Emptied(i) PROVE CacheInv'
<1>0. Empty \in [fetch : Fetches \cup {NoFetch}, left : 0..TTL]
  BY CacheConstants DEF Empty
<1>1. CacheTypeOK'
  <2>1. entry' \in [Isolates -> [fetch : Fetches \cup {NoFetch}, left : 0..TTL]]
    BY <1>0 DEF Emptied, CacheInv, CacheTypeOK
  <2>2. settled' \in [Isolates -> Nat]  BY DEF Emptied, CacheInv, CacheTypeOK
  <2> QED  BY <2>1, <2>2 DEF Emptied, CacheInv, CacheTypeOK
<1>2. UsedTyped'
  <2> SUFFICES ASSUME NEW g \in Fetches, fetch'[g].pc # "free"
               PROVE  fetch'[g].isolate \in Isolates
    BY DEF UsedTyped
  <2>1. fetch'[g] = fetch[g]  BY DEF Emptied, Unused
  <2> QED  BY <2>1 DEF CacheInv, UsedTyped
<1>3. NothingAhead'
  <2>1. \A j \in Isolates : settled'[j] \in {settled[j], revision}
    BY DEF Emptied, CacheInv, CacheTypeOK
  <2> QED  BY <2>1 DEF Emptied, CacheInv, CacheTypeOK, NothingAhead
<1>4. ASSUME NEW j \in Isolates PROVE EntryFine(j)'
  <2>1. CASE j = i
    <3>1. entry'[j].fetch = NoFetch  BY <2>1 DEF Emptied, CacheInv, CacheTypeOK, Empty
    <3> QED  BY <3>1 DEF EntryFine
  <2>2. CASE j # i
    <3>1. /\ entry'[j] = entry[j] /\ settled'[j] = settled[j] /\ UNCHANGED marks
          /\ \A g \in Fetches : fetch[g].isolate = j => fetch'[g] = fetch[g]
      BY <2>2 DEF Emptied, CacheInv, CacheTypeOK
    <3> QED  BY <2>2, <3>1, OthersKept DEF EntryFine
  <2> QED  BY <2>1, <2>2
<1> QED  BY <1>1, <1>2, <1>3, <1>4 DEF CacheInv, EntriesKept, AnswersRecent, EntryFine

LEMMA FailFetchKept == ASSUME CacheInv, NEW f \in Fetches, FailFetch(f) PROVE CacheInv'
<1> DEFINE i == fetch[f].isolate
<1>1. /\ Event /\ entry' = [entry EXCEPT ![i] = Empty]
      /\ fetch' = [Forgotten(i) EXCEPT ![f] = Unused]
      /\ UNCHANGED <<revision, marks, settled>>
  BY DEF FailFetch
<1>2. events' \in 0..MaxEvents  BY <1>1, EventTyped DEF CacheInv
<1>3. /\ fetch' \in [Fetches -> [pc : {"free", "asking", "answered", "done"},
                                 isolate : Isolates \cup {NoFetch}, data : Nat]]
      /\ \A g \in Fetches : fetch'[g] \in {fetch[g], Unused}
      /\ \A g \in Fetches : fetch[g].isolate # i => fetch'[g] = fetch[g]
  <2>1. Unused \in [pc : {"free", "asking", "answered", "done"},
                    isolate : Isolates \cup {NoFetch}, data : Nat]
    BY DEF Unused
  <2>2. \A g \in Fetches : fetch'[g] = IF g = f THEN Unused ELSE Forgotten(i)[g]
    BY <1>1, ForgottenKeeps
  <2>3. fetch' \in [Fetches -> [pc : {"free", "asking", "answered", "done"},
                               isolate : Isolates \cup {NoFetch}, data : Nat]]
    BY <1>1, <2>1, ForgottenKeeps
  <2>4. ASSUME NEW g \in Fetches PROVE fetch'[g] \in {fetch[g], Unused}
    BY <2>2, ForgottenKeeps
  <2>5. ASSUME NEW g \in Fetches, fetch[g].isolate # i PROVE fetch'[g] = fetch[g]
    BY <2>2, <2>5, ForgottenKeeps
  <2> QED  BY <2>3, <2>4, <2>5
<1> QED  BY <1>1, <1>2, <1>3, EmptiedKept DEF Emptied

LEMMA InvalidateKept ==
    ASSUME CacheInv, NEW i, Invalidate(i), UNCHANGED <<revision, events>>
    PROVE  CacheInv'
<1>1. events' \in 0..MaxEvents  BY DEF CacheInv, CacheTypeOK
<1>2. /\ entry' = [entry EXCEPT ![i] = Empty] /\ fetch' = Forgotten(i)
      /\ settled' = [settled EXCEPT ![i] = revision]
      /\ UNCHANGED marks /\ UNCHANGED revision
  BY DEF Invalidate
<1>3. Emptied(i)  BY <1>1, <1>2, ForgottenKeeps DEF Emptied
<1> QED  BY <1>3, EmptiedKept

LEMMA TickKept == ASSUME CacheInv, Tick PROVE CacheInv'
<1>1. /\ Event /\ marks' = [k \in 1..TTL |-> IF k = 1 THEN revision ELSE marks[k - 1]]
      /\ entry' = [i \in Isolates |-> [entry[i] EXCEPT !.left = IF @ = 0 THEN 0 ELSE @ - 1]]
      /\ UNCHANGED <<revision, fetch, settled>>
  BY DEF Tick
<1>2. \A i \in Isolates : /\ entry'[i].fetch = entry[i].fetch
                          /\ entry'[i].left = IF entry[i].left = 0 THEN 0 ELSE entry[i].left - 1
                          /\ entry'[i] \in [fetch : Fetches \cup {NoFetch}, left : 0..TTL]
  BY <1>1, CacheConstants DEF CacheInv, CacheTypeOK
<1>3. \A k \in 1..TTL : marks'[k] \in Nat /\ marks'[k] <= revision
  BY <1>1, CacheConstants DEF CacheInv, CacheTypeOK, NothingAhead
<1>4. CacheTypeOK'
  BY <1>1, <1>2, <1>3, EventTyped DEF CacheInv, CacheTypeOK
<1>5. UsedTyped' /\ NothingAhead'
  <2>1. \A j \in Isolates : settled'[j] = settled[j]  BY <1>1
  <2> QED  BY <1>1, <1>3, <2>1 DEF CacheInv, UsedTyped, NothingAhead
<1>6. ASSUME NEW j \in Isolates PROVE EntryFine(j)'
  <2> SUFFICES ASSUME entry[j].fetch # NoFetch,
                      fetch[entry[j].fetch].pc \in {"answered", "done"}
               PROVE  Recent(j, entry[j].fetch)'
    BY <1>1, <1>2 DEF CacheInv, EntriesKept, EntryFine
  <2> DEFINE d == fetch[entry[j].fetch].data
  <2>1. Recent(j, entry[j].fetch)  BY DEF CacheInv, AnswersRecent
  <2>2. entry[j].left \in 0..TTL  BY EntryTyped DEF CacheInv
  <2>3. ASSUME NEW k \in 1..TTL, k > TTL - entry'[j].left PROVE d >= marks'[k]
    <3>1. k - 1 \in 1..TTL /\ k - 1 > TTL - entry[j].left
      BY <1>2, <2>2, <2>3, CacheConstants
    <3>2. marks'[k] = marks[k - 1]  BY <1>1, <3>1
    <3> QED  BY <2>1, <3>1, <3>2 DEF Recent
  <2> QED  BY <1>1, <1>2, <2>1, <2>3 DEF Recent
<1> QED  BY <1>4, <1>5, <1>6 DEF CacheInv, EntriesKept, AnswersRecent, EntryFine

LEMMA CacheNextKept == ASSUME CacheInv, CacheNext PROVE CacheInv'
  BY FetchKept, QueryKept, ArriveKept, FailFetchKept, TickKept DEF CacheNext

\* Steps that are not about the menu, but may write the catalogue.
LEMMA CacheUntouched ==
    ASSUME CacheInv, UNCHANGED cacheVars, revision' \in {revision, revision + 1},
           events' \in 0..MaxEvents
    PROVE  CacheInv'
<1>1. UNCHANGED <<marks, entry, fetch, settled>>  BY DEF cacheVars
<1>2. CacheTypeOK'  BY <1>1 DEF CacheInv, CacheTypeOK
<1>3. NothingAhead'
  <2>1. revision \in Nat /\ (\A k \in 1..TTL : marks[k] \in Nat) /\ \A i \in Isolates : settled[i] \in Nat
    BY DEF CacheInv, CacheTypeOK
  <2>2. revision' = revision \/ revision' = revision + 1  OBVIOUS
  <2> QED  BY <1>1, <2>1, <2>2 DEF CacheInv, NothingAhead
<1> QED
  BY <1>1, <1>2, <1>3 DEF CacheInv, EntriesKept, UsedTyped, AnswersRecent, Recent

-----------------------------------------------------------------------------
(* Prices.                                                                 *)

Prices == MinPrice..MaxPrice

Pairs == {z \in [price : Prices, original : 0..MaxPrice] : z.original # 0 => z.price < z.original}

LEMMA PriceConstants ==
    /\ MaxPrice \in Nat \ {0} /\ MinPrice = 1
    /\ Typed \subseteq 1..MaxPrice /\ Discounts \subseteq 1..99 /\ Percents \subseteq (-90)..300
  BY CatalogueAssumption DEF MinPrice

LEMMA RowFields ==
    ASSUME NEW x \in Rows
    PROVE  /\ x.cat \in Categories /\ x.price \in Prices /\ x.original \in 0..MaxPrice
           /\ x.original # 0 => x.price < x.original
           /\ x = [cat |-> x.cat, price |-> x.price, original |-> x.original]
  BY DEF Rows, Prices

LEMMA RowsDiffer == NotYet \notin Rows /\ Gone \notin Rows /\ NotYet # Gone
  BY CatalogueAssumption DEF Rows, MinPrice

LEMMA PairTyped ==
    ASSUME NEW p \in Prices, NEW o \in 0..MaxPrice, o # 0 => p < o
    PROVE  /\ Pair(p, o) \in Pairs /\ Pair(p, o).price = p /\ Pair(p, o).original = o
  BY DEF Pair, Pairs

LEMMA BaseTyped == ASSUME NEW x \in Rows PROVE Base(x) \in Prices /\ x.price <= Base(x)
  BY RowFields, PriceConstants DEF Base, Prices

\* A part of a base price, rounded, is a price and not above the base.
LEMMA RoundedDown ==
    ASSUME NEW b \in Prices, NEW q \in 1..99
    PROVE  RoundPrice(b * q) \in Prices /\ RoundPrice(b * q) <= b
<1>1. b \in Nat /\ b >= 1 /\ b <= MaxPrice /\ q \in Nat /\ MaxPrice \in Nat
  BY PriceConstants DEF Prices
<1>2. b * q \in Nat /\ b * q >= 1 /\ b * q <= b * 99
  BY <1>1
<1>3. PICK n \in Nat : n = b * q  BY <1>2
<1>4. (n + 50) \div 100 \in Nat /\ (n + 50) \div 100 <= b
  BY <1>1, <1>2, <1>3
<1>5. RoundPrice(n) = IF (n + 50) \div 100 < 1 THEN 1 ELSE (n + 50) \div 100
  BY <1>2, <1>3, PriceConstants DEF RoundPrice
<1> QED  BY <1>1, <1>3, <1>4, <1>5, PriceConstants DEF Prices

LEMMA ReducedTyped ==
    ASSUME NEW b \in Prices, NEW p \in Prices
    PROVE  /\ Reduced(b, p) \in Pairs /\ Reduced(b, p).price = p
           /\ p <= b => Base(Reduced(b, p)) = b
  BY PriceConstants DEF Reduced, Pair, Pairs, Prices, Base

LEMMA DiscountTyped ==
    ASSUME NEW x \in Rows, NEW percent \in 1..99
    PROVE  DiscountPair(x, percent) \in Pairs /\ Base(DiscountPair(x, percent)) = Base(x)
<1>1. Base(x) \in Prices  BY BaseTyped
<1>2. 100 - percent \in 1..99  OBVIOUS
<1> QED  BY <1>1, <1>2, RoundedDown, ReducedTyped DEF DiscountPair

LEMMA ResolveTyped ==
    ASSUME NEW b \in Prices, NEW percent \in 0..99
    PROVE  ResolvePrice(b, percent) \in Pairs /\ Base(ResolvePrice(b, percent)) = b
<1>0. b \in 1..MaxPrice /\ MaxPrice \in Nat  BY PriceConstants DEF Prices
<1>1. CASE percent = 0
  BY <1>0, <1>1, PairTyped DEF ResolvePrice, Base
<1>2. CASE percent # 0
  <2>1. 100 - percent \in 1..99  BY <1>2
  <2>2. RoundPrice(b * (100 - percent)) \in Prices  BY <2>1, RoundedDown
  <2>3. PICK p \in Prices : p = RoundPrice(b * (100 - percent))  BY <2>2
  <2>4. ResolvePrice(b, percent) = IF p >= b THEN Pair(b, 0) ELSE Pair(p, b)
    BY <1>2, <2>3 DEF ResolvePrice
  <2>5. p \in 1..MaxPrice  BY PriceConstants DEF Prices
  <2> QED  BY <1>0, <2>4, <2>5, PairTyped DEF Base
<1> QED  BY <1>1, <1>2

LEMMA PricedTyped ==
    ASSUME NEW x \in Rows, NEW z \in Pairs
    PROVE  /\ Priced(x, z) \in Rows
           /\ Priced(x, z).price = z.price /\ Base(Priced(x, z)) = Base(z)
<1>1. x \in [cat : Categories, price : Prices, original : 0..MaxPrice]  BY DEF Rows, Prices
<1>2. z.price \in Prices /\ z.original \in 0..MaxPrice /\ (z.original # 0 => z.price < z.original)
  BY DEF Pairs
<1>3. Priced(x, z) \in [cat : Categories, price : Prices, original : 0..MaxPrice]
  BY <1>1, <1>2 DEF Priced
<1>4. Priced(x, z).price = z.price /\ Priced(x, z).original = z.original
  BY <1>1 DEF Priced
<1> QED  BY <1>2, <1>3, <1>4 DEF Rows, Prices, Base

LEMMA RowTyped ==
    ASSUME NEW c \in Categories, NEW z \in Pairs
    PROVE  Row(c, z) \in Rows /\ Base(Row(c, z)) = Base(z)
  BY DEF Row, Rows, Pairs, Prices, Base

-----------------------------------------------------------------------------
(* What a handler that is about to write goes by. Prices stay sound because *)
(* it is sound by itself, whatever the row says by the time of the write.   *)

Seens == UNION {[S -> Rows] : S \in SUBSET Products}

Running ==
    [pc : {"idle", "read", "write", "return", "clear"}, isolate : Isolates \cup {None},
     kind : Kinds, id : Products \cup {None}, cat : Categories \cup {None},
     by : Panels \cup Chats \cup {None}, price : 0..MaxPrice, original : 0..MaxPrice,
     percent : Int, plan : Plans, seen : Seens]

Listed(p) == p \in Products /\ product[p] # NotYet

\* A plan of previewed prices; those of a discount are not above the base.
PlanSound(plan, percent) ==
    \A p \in DOMAIN plan :
        Listed(p) /\ (percent < 0 => plan[p].price <= Base(plan[p].was))

Asked(x) ==
    /\ x.kind \in {"price", "discount", "rmdiscount", "toggle", "delete", "keep", "save"} => Listed(x.id)
    /\ x.kind = "add" => x.id \in Products
    /\ x.kind \in {"add", "keep", "save", "newcat", "setcat", "delcat"} => x.cat \in Categories
    /\ x.kind \in {"price", "add", "keep", "save"} => x.price \in Prices
    /\ x.kind = "discount" => x.percent \in 1..99
    /\ x.kind \in {"add", "save"} => x.original = 0 /\ x.percent \in 0..99
    /\ x.kind = "keep" => x.percent = 0 /\ (x.original # 0 => x.price < x.original)
    /\ x.kind = "bulk" => PlanSound(x.plan, x.percent)

Known(x) ==
    /\ x.kind \in {"discount", "rmdiscount"} => x.seen[x.id] \in Rows
    /\ x.kind = "rmdiscount" => x.seen[x.id].original # 0
    /\ x.kind = "bulk" => \A p \in DOMAIN x.plan :
          x.seen[p] \in Rows /\ x.seen[p].price = x.plan[p].was.price

Fit(x) ==
    /\ x.kind = "bulk" => x.by \in Chats
    /\ x.pc \in {"read", "write"} => Asked(x)
    /\ x.pc = "write" => Known(x)

HandlersFit == handler \in [Handlers -> Running] /\ \A h \in Handlers : Fit(handler[h])

StoreTyped ==
    /\ category \in [Categories -> {NotYet, "there", Gone}]
    /\ product \in [Products -> Rows \cup {NotYet, Gone}]

FormSound(x) == x.pc # "closed" => x.was \in Rows /\ Listed(x.id)

FormsTyped ==
    /\ form \in [Panels -> [pc : {"closed", "editing", "waiting"}, id : Products \cup {None},
                            was : Rows \cup {None}]]
    /\ \A a \in Panels : FormSound(form[a])

\* A form waits for at most one handler.
FormsHeld ==
    \A h \in Handlers : handler[h].by \in Panels =>
        /\ form[handler[h].by].pc = "waiting"
        /\ \A g \in Handlers \ {h} : handler[g].by # handler[h].by

PreviewsSound ==
    \A b \in Chats : preview[b] # None =>
        /\ preview[b].cat \in Categories /\ preview[b].percent \in Int
        /\ preview[b].items \in Plans
        /\ PlanSound(preview[b].items, preview[b].percent)

PreviewIsFunction == preview = [b \in Chats |-> preview[b]]

CatalogueInv ==
    /\ CacheInv /\ StoreTyped /\ NoOrphanProducts /\ HandlersFit
    /\ FormsTyped /\ FormsHeld /\ PreviewsSound /\ PreviewIsFunction

LEMMA TypesHold == CatalogueInv => CatalogueTypeOK
<1> SUFFICES ASSUME CatalogueInv PROVE CatalogueTypeOK  OBVIOUS
<1>1. \A h \in Handlers : handler[h] \in Running  BY DEF CatalogueInv, HandlersFit
<1>2. \A b \in Chats : preview[b] # None => preview[b].items \in Plans
  BY DEF CatalogueInv, PreviewsSound
<1> QED
  BY <1>1, <1>2 DEF CatalogueInv, CacheInv, StoreTyped, FormsTyped, Running, CatalogueTypeOK

-----------------------------------------------------------------------------
(* What is listed stays so: a product that is deleted does not come back.  *)

Grows == \A p \in Products : product[p] # NotYet => product'[p] # NotYet

LEMMA ListedStays == ASSUME Grows, NEW p, Listed(p) PROVE Listed(p)'
  BY DEF Grows, Listed

LEMMA PlanStays ==
    ASSUME Grows, NEW plan, NEW percent, PlanSound(plan, percent)
    PROVE  PlanSound(plan, percent)'
  BY ListedStays DEF PlanSound

LEMMA FitStays == ASSUME Grows, NEW x, Fit(x) PROVE Fit(x)'
<1>1. x.pc \in {"read", "write"} => Asked(x)'
  <2> SUFFICES ASSUME Asked(x) PROVE Asked(x)'  BY DEF Fit
  <2>1. Listed(x.id) => Listed(x.id)'  BY ListedStays
  <2>2. PlanSound(x.plan, x.percent) => PlanSound(x.plan, x.percent)'  BY PlanStays
  <2> QED  BY <2>1, <2>2 DEF Asked
<1>2. x.pc = "write" => Known(x)'  BY DEF Fit, Known
<1> QED  BY <1>1, <1>2 DEF Fit

\* Handler h goes on as y.
Becomes(h, y) == handler' = [handler EXCEPT ![h] = y]

LEMMA FitsStep ==
    ASSUME HandlersFit, Grows, NEW h \in Handlers, NEW y \in Running, Fit(y), Becomes(h, y)
    PROVE  HandlersFit'
<1>1. handler' \in [Handlers -> Running]  BY DEF HandlersFit, Becomes
<1>2. ASSUME NEW g \in Handlers PROVE Fit(handler[g])'
  <2>1. PICK x : x = handler'[g]  OBVIOUS
  <2>2. Fit(x)  BY <2>1 DEF HandlersFit, Becomes
  <2> QED  BY <2>1, <2>2, FitStays
<1> QED  BY <1>1, <1>2 DEF HandlersFit

LEMMA FormsStay == ASSUME FormsTyped, Grows, UNCHANGED form PROVE FormsTyped'
  BY ListedStays DEF FormsTyped, FormSound

\* The preview of one chat that no step has touched.
LEMMA PlanKept ==
    ASSUME PreviewsSound, Grows, NEW b \in Chats, preview'[b] = preview[b], preview'[b] # None
    PROVE  /\ preview'[b].cat \in Categories /\ preview'[b].percent \in Int
           /\ preview'[b].items \in Plans
           /\ PlanSound(preview[b].items, preview[b].percent)'
<1>1. PICK x : x = preview[b]  OBVIOUS
<1>2. /\ x.cat \in Categories /\ x.percent \in Int /\ x.items \in Plans
      /\ PlanSound(x.items, x.percent)
  BY <1>1 DEF PreviewsSound
<1>3. PlanSound(x.items, x.percent)'  BY <1>2, PlanStays
<1> QED  BY <1>1, <1>2, <1>3

LEMMA PreviewsStay ==
    ASSUME PreviewsSound, PreviewIsFunction, Grows, UNCHANGED preview
    PROVE  PreviewsSound' /\ PreviewIsFunction'
  BY PlanKept DEF PreviewsSound, PreviewIsFunction

-----------------------------------------------------------------------------
(* Forms and handlers.                                                     *)

LEMMA NoneApart ==
    None \notin Panels /\ None \notin Chats /\ None \notin Products /\ None \notin Categories
        /\ Panels \cap Chats = {}
  BY CatalogueAssumption

LEMMA HeldOn ==
    ASSUME FormsHeld, UNCHANGED form, NEW h \in Handlers, NEW y, Becomes(h, y), HandlersFit,
           y.by = handler[h].by \/ y.by \notin Panels
    PROVE  FormsHeld'
<1>1. \A g \in Handlers : handler'[g].by = handler[g].by \/ handler'[g].by \notin Panels
  BY DEF Becomes, HandlersFit
<1> QED  BY <1>1 DEF FormsHeld

LEMMA HeldNoMore ==
    ASSUME FormsHeld, FormsTyped, Grows, HandlersFit,
           NEW h \in Handlers, NEW y, Becomes(h, y), y.by \notin Panels,
           Reopen(h) \/ Close(h)
    PROVE  FormsHeld' /\ FormsTyped'
<1>1. /\ handler'[h].by \notin Panels
      /\ \A g \in Handlers \ {h} : handler'[g] = handler[g]
  BY DEF Becomes, HandlersFit
<1>2. \A a \in Panels : a # handler[h].by => form'[a] = form[a]
  BY DEF Reopen, Close
<1>3. FormsHeld'  BY <1>1, <1>2 DEF FormsHeld
<1>4. form' \in [Panels -> [pc : {"closed", "editing", "waiting"}, id : Products \cup {None},
                            was : Rows \cup {None}]]
  BY DEF FormsTyped, Reopen, Close, Closed
<1>5. ASSUME NEW a \in Panels PROVE FormSound(form[a])'
  <2>1. CASE form'[a] = form[a]
    BY <2>1, ListedStays DEF FormsTyped, FormSound
  <2>2. CASE form'[a] = Closed  BY <2>2 DEF Closed, FormSound
  <2>3. CASE form'[a] = [form[a] EXCEPT !.pc = "editing"] /\ a = handler[h].by
    <3>1. form[a].pc = "waiting"  BY <2>3 DEF FormsHeld
    <3>2. form[a].was \in Rows /\ Listed(form[a].id)  BY <3>1 DEF FormsTyped, FormSound
    <3>3. form'[a].was = form[a].was /\ form'[a].id = form[a].id  BY <2>3 DEF FormsTyped
    <3> QED  BY <3>2, <3>3, ListedStays DEF FormSound
  <2> QED  BY <2>1, <2>2, <2>3 DEF Reopen, Close
<1> QED  BY <1>3, <1>4, <1>5 DEF FormsTyped

\* A step of handler h that does not touch the catalogue.
LEMMA QuietStep ==
    ASSUME CatalogueInv, NEW h \in Handlers, NEW y \in Running, Fit(y), Becomes(h, y),
           UNCHANGED <<category, product, preview>>, CacheInv', FormsTyped', FormsHeld'
    PROVE  CatalogueInv'
<1>1. Grows  BY DEF Grows
<1>2. HandlersFit'  BY <1>1, FitsStep DEF CatalogueInv
<1>3. PreviewsSound' /\ PreviewIsFunction'  BY <1>1, PreviewsStay DEF CatalogueInv
<1>4. StoreTyped' /\ NoOrphanProducts'
  BY DEF CatalogueInv, StoreTyped, NoOrphanProducts, HasProduct, HasCategory
<1> QED  BY <1>2, <1>3, <1>4 DEF CatalogueInv

LEMMA IdleFit ==
    /\ Idle \in Running /\ Fit(Idle) /\ Idle.by = None
<1>1. NoRows \in Plans /\ NoRows \in Seens
  <2>1. \A T : NoRows \in [{} -> T]  BY DEF NoRows
  <2>2. {} \in SUBSET Products  OBVIOUS
  <2> QED  BY <2>1, <2>2 DEF Plans, Seens
<1>2. 0 \in 0..MaxPrice /\ 0 \in Int  BY PriceConstants
<1> QED  BY <1>1, <1>2 DEF Idle, Running, Kinds, Fit

\* What a handler begins with, written out.
Begun(pc, i, kind, id, cat, price, percent) ==
    [pc |-> pc, isolate |-> i, kind |-> kind, id |-> id, cat |-> cat, by |-> None,
     price |-> price, original |-> 0, percent |-> percent, plan |-> NoRows, seen |-> NoRows]

LEMMA BegunTyped ==
    ASSUME NEW pc \in {"read", "write"}, NEW i \in Isolates, NEW kind \in Kinds,
           NEW id \in Products \cup {None}, NEW cat \in Categories \cup {None},
           NEW price \in 0..MaxPrice, NEW percent \in Int
    PROVE  Begun(pc, i, kind, id, cat, price, percent) \in Running
<1>1. NoRows \in Plans /\ NoRows \in Seens  BY IdleFit DEF Idle, Running
<1>2. 0 \in 0..MaxPrice  BY PriceConstants
<1> QED  BY <1>1, <1>2 DEF Begun, Running

LEMMA BeginKept ==
    ASSUME CatalogueInv, NEW h \in Handlers, NEW y \in Running, Fit(y), y.by \notin Panels,
           Begin(h, y), UNCHANGED form
    PROVE  CatalogueInv'
<1>1. Becomes(h, y) /\ UNCHANGED <<revision, cacheVars, category, product, preview>> /\ Event
  BY DEF Begin, Becomes
<1>2. CacheInv'
  <2>1. events' \in 0..MaxEvents  BY <1>1, EventTyped DEF CatalogueInv, CacheInv
  <2> QED  BY <1>1, <2>1, CacheUntouched DEF CatalogueInv
<1>3. Grows  BY <1>1 DEF Grows
<1>4. FormsTyped' /\ FormsHeld'  BY <1>1, <1>3, FormsStay, HeldOn DEF CatalogueInv
<1> QED  BY <1>1, <1>2, <1>4, QuietStep

LEMMA ChangeProductKept ==
    ASSUME CatalogueInv, NEW h \in Handlers, NEW i \in Isolates, NEW p \in Products,
           ChangeProduct(h, i, p)
    PROVE  CatalogueInv'
<1>1. Listed(p) /\ UNCHANGED form  BY DEF ChangeProduct, Listed
<1>2. PICK y : /\ Begin(h, y)
               /\ \/ \E price \in Typed : y = [Idle EXCEPT !.pc = "write", !.isolate = i, !.kind = "price", !.id = p, !.price = price]
                  \/ \E d \in Discounts : y = [Idle EXCEPT !.pc = "read", !.isolate = i, !.kind = "discount", !.id = p, !.percent = d]
                  \/ y = [Idle EXCEPT !.pc = "read", !.isolate = i, !.kind = "rmdiscount", !.id = p]
                  \/ y = [Idle EXCEPT !.pc = "write", !.isolate = i, !.kind = "toggle", !.id = p]
                  \/ y = [Idle EXCEPT !.pc = "write", !.isolate = i, !.kind = "delete", !.id = p]
  BY DEF ChangeProduct
<1>3. 0 \in 0..MaxPrice /\ 0 \in Int  BY PriceConstants
<1>4. y \in Running /\ y.by = None /\ Fit(y)
  <2>1. CASE \E price \in Typed : y = [Idle EXCEPT !.pc = "write", !.isolate = i, !.kind = "price", !.id = p, !.price = price]
    <3>1. PICK price \in Typed : y = Begun("write", i, "price", p, None, price, 0)
      BY <2>1 DEF Idle, Begun
    <3>2. price \in Prices /\ price \in 0..MaxPrice  BY PriceConstants DEF Prices
    <3>3. y \in Running  BY <1>3, <3>1, <3>2, BegunTyped DEF Kinds
    <3>4. y.by = None /\ y.kind = "price" /\ y.id = p /\ y.price = price  BY <3>1 DEF Begun
    <3> QED  BY <1>1, <3>2, <3>3, <3>4 DEF Fit, Asked, Known
  <2>2. CASE \E d \in Discounts : y = [Idle EXCEPT !.pc = "read", !.isolate = i, !.kind = "discount", !.id = p, !.percent = d]
    <3>1. PICK d \in Discounts : y = Begun("read", i, "discount", p, None, 0, d)
      BY <2>2 DEF Idle, Begun
    <3>2. d \in 1..99 /\ d \in Int  BY PriceConstants
    <3>3. y \in Running  BY <1>3, <3>1, <3>2, BegunTyped DEF Kinds
    <3>4. y.by = None /\ y.pc = "read" /\ y.kind = "discount" /\ y.id = p /\ y.percent = d
      BY <3>1 DEF Begun
    <3> QED  BY <1>1, <3>2, <3>3, <3>4 DEF Fit, Asked
  <2>3. CASE y = [Idle EXCEPT !.pc = "read", !.isolate = i, !.kind = "rmdiscount", !.id = p]
    <3>1. y = Begun("read", i, "rmdiscount", p, None, 0, 0)  BY <2>3 DEF Idle, Begun
    <3>2. y \in Running  BY <1>3, <3>1, BegunTyped DEF Kinds
    <3>3. y.by = None /\ y.pc = "read" /\ y.kind = "rmdiscount" /\ y.id = p  BY <3>1 DEF Begun
    <3> QED  BY <1>1, <3>2, <3>3 DEF Fit, Asked
  <2>4. ASSUME NEW k \in {"toggle", "delete"},
               y = [Idle EXCEPT !.pc = "write", !.isolate = i, !.kind = k, !.id = p]
        PROVE  y \in Running /\ y.by = None /\ Fit(y)
    <3>1. y = Begun("write", i, k, p, None, 0, 0)  BY <2>4 DEF Idle, Begun
    <3>2. y \in Running  BY <1>3, <3>1, BegunTyped DEF Kinds
    <3>3. y.by = None /\ y.kind = k /\ y.id = p  BY <3>1 DEF Begun
    <3> QED  BY <1>1, <3>2, <3>3 DEF Fit, Asked, Known
  <2> QED  BY <1>2, <2>1, <2>2, <2>3, <2>4
<1> QED  BY <1>1, <1>2, <1>4, BeginKept, NoneApart

LEMMA AddProductKept ==
    ASSUME CatalogueInv, NEW h \in Handlers, NEW i \in Isolates, NEW p \in Products,
           NEW c \in Categories, AddProduct(h, i, p, c)
    PROVE  CatalogueInv'
<1>1. UNCHANGED form  BY DEF AddProduct
<1>2. PICK pc \in {"read", "write"}, price \in Typed, d \in Discounts \cup {0} :
        \/ Begin(h, [Idle EXCEPT !.pc = "read", !.isolate = i, !.kind = "add", !.id = p,
                                 !.cat = c, !.price = price, !.percent = d])
        \/ d = 0 /\ Begin(h, [Idle EXCEPT !.pc = "write", !.isolate = i, !.kind = "add", !.id = p,
                                          !.cat = c, !.price = price])
  BY DEF AddProduct
<1>3. price \in Prices /\ price \in 0..MaxPrice /\ d \in 0..99 /\ d \in Int
  BY PriceConstants DEF Prices
<1>4. PICK y : /\ Begin(h, y)
               /\ \/ y = [Idle EXCEPT !.pc = "read", !.isolate = i, !.kind = "add", !.id = p,
                                      !.cat = c, !.price = price, !.percent = d]
                  \/ d = 0 /\ y = [Idle EXCEPT !.pc = "write", !.isolate = i, !.kind = "add", !.id = p,
                                               !.cat = c, !.price = price]
  BY <1>2
<1>5. PICK k \in {"read", "write"}, e \in {0, d} : y = Begun(k, i, "add", p, c, price, e)
  <2>1. CASE y = [Idle EXCEPT !.pc = "read", !.isolate = i, !.kind = "add", !.id = p,
                              !.cat = c, !.price = price, !.percent = d]
    <3>1. y = Begun("read", i, "add", p, c, price, d)  BY <2>1 DEF Idle, Begun
    <3> QED  BY <3>1
  <2>2. CASE y = [Idle EXCEPT !.pc = "write", !.isolate = i, !.kind = "add", !.id = p,
                              !.cat = c, !.price = price]
    <3>1. y = Begun("write", i, "add", p, c, price, 0)  BY <2>2 DEF Idle, Begun
    <3> QED  BY <3>1
  <2> QED  BY <1>4, <2>1, <2>2
<1>6. /\ y \in Running /\ y.by = None /\ y.kind = "add" /\ y.id = p /\ y.cat = c
      /\ y.price = price /\ y.original = 0 /\ y.percent \in {0, d}
  <2>1. e \in Int  BY <1>3
  <2>2. y \in Running  BY <1>3, <1>5, <2>1, BegunTyped DEF Kinds
  <2> QED  BY <1>5, <2>2 DEF Begun
<1>7. Fit(y)  BY <1>3, <1>6 DEF Fit, Asked, Known
<1> QED  BY <1>1, <1>4, <1>6, <1>7, BeginKept, NoneApart

LEMMA ChangeCategoryKept ==
    ASSUME CatalogueInv, NEW h \in Handlers, NEW i \in Isolates, NEW c \in Categories,
           ChangeCategory(h, i, c)
    PROVE  CatalogueInv'
<1>1. UNCHANGED form  BY DEF ChangeCategory
<1>2. PICK pc \in {"read", "write"}, kind \in {"newcat", "delcat", "setcat"} :
        Begin(h, [Idle EXCEPT !.pc = pc, !.isolate = i, !.kind = kind, !.cat = c])
  BY DEF ChangeCategory
<1>3. PICK y : y = [Idle EXCEPT !.pc = pc, !.isolate = i, !.kind = kind, !.cat = c]  OBVIOUS
<1>4. y \in Running /\ y.by = None /\ y.kind = kind /\ y.cat = c
  <2>1. y = Begun(pc, i, kind, None, c, 0, 0)  BY <1>3 DEF Idle, Begun
  <2>2. 0 \in 0..MaxPrice /\ 0 \in Int  BY PriceConstants
  <2>3. y \in Running  BY <2>1, <2>2, BegunTyped DEF Kinds
  <2> QED  BY <2>1, <2>3 DEF Begun
<1>5. Fit(y)  BY <1>4 DEF Fit, Asked, Known
<1> QED  BY <1>1, <1>2, <1>3, <1>4, <1>5, BeginKept, NoneApart

LEMMA ConfirmKept ==
    ASSUME CatalogueInv, NEW h \in Handlers, NEW i \in Isolates, NEW b \in Chats, Confirm(h, i, b)
    PROVE  CatalogueInv'
<1>1. preview[b] # None /\ UNCHANGED form  BY DEF Confirm
<1>2. PICK y : /\ Begin(h, y)
               /\ y = [Idle EXCEPT !.pc = "read", !.isolate = i, !.kind = "bulk", !.by = b,
                                   !.cat = preview[b].cat, !.percent = preview[b].percent,
                                   !.plan = preview[b].items]
  BY DEF Confirm
<1>3. /\ preview[b].cat \in Categories /\ preview[b].percent \in Int /\ preview[b].items \in Plans
      /\ PlanSound(preview[b].items, preview[b].percent)
  BY <1>1 DEF CatalogueInv, PreviewsSound
<1>4. y \in Running
  <2>1. PICK x : x = [Idle EXCEPT !.pc = "read", !.isolate = i, !.kind = "bulk", !.by = b]  OBVIOUS
  <2>2. x \in Running  BY <2>1, IdleFit DEF Running, Kinds
  <2>3. y = [x EXCEPT !.cat = preview[b].cat, !.percent = preview[b].percent,
                      !.plan = preview[b].items]
    BY <1>2, <2>1
  <2> QED  BY <1>3, <2>2, <2>3 DEF Running
<1>5. /\ y.pc = "read" /\ y.kind = "bulk" /\ y.by = b
      /\ y.percent = preview[b].percent /\ y.plan = preview[b].items
  BY <1>2, IdleFit DEF Running
<1>6. Fit(y)  BY <1>3, <1>5 DEF Fit, Asked
<1>7. y.by \notin Panels  BY <1>5, NoneApart
<1> QED  BY <1>1, <1>2, <1>4, <1>6, <1>7, BeginKept

\* A saved form waits for its handler alone.
LEMMA SaveFormKept ==
    ASSUME CatalogueInv, NEW h \in Handlers, NEW i \in Isolates, NEW a \in Panels, SaveForm(h, i, a)
    PROVE  CatalogueInv'
<1> DEFINE was == form[a].was
           request == [Idle EXCEPT !.pc = "read", !.isolate = i, !.id = form[a].id, !.by = a]
<1>1. form[a].pc = "editing" /\ form' = [form EXCEPT ![a].pc = "waiting"]  BY DEF SaveForm
<1>2. was \in Rows /\ Listed(form[a].id)  BY <1>1 DEF CatalogueInv, FormsTyped, FormSound
<1>3. PICK y : /\ Begin(h, y)
               /\ \/ \E c \in Categories :
                       y = [request EXCEPT !.kind = "keep", !.cat = c, !.price = was.price,
                                           !.original = was.original]
                  \/ \E c \in Categories, price \in Typed, d \in Discounts \cup {0} :
                       y = [request EXCEPT !.kind = "save", !.cat = c, !.price = price, !.percent = d]
  BY DEF SaveForm
<1>4. /\ request \in Running /\ request.by = a /\ request.id = form[a].id
      /\ request.percent = 0 /\ request.original = 0
  <2>1. form[a].id \in Products  BY <1>2 DEF Listed
  <2>2. Idle.percent = 0 /\ Idle.original = 0  BY DEF Idle
  <2> QED  BY <2>1, <2>2, IdleFit DEF Running
<1>5. y \in Running /\ y.by = a /\ Fit(y)
  <2> HIDE DEF request, was
  <2>1. CASE \E c \in Categories : y = [request EXCEPT !.kind = "keep", !.cat = c, !.price = was.price,
                                                        !.original = was.original]
    <3>1. PICK c \in Categories : y = [request EXCEPT !.kind = "keep", !.cat = c, !.price = was.price,
                                                      !.original = was.original]
      BY <2>1
    <3>2. /\ was.price \in Prices /\ was.price \in 0..MaxPrice /\ was.original \in 0..MaxPrice
          /\ was.original # 0 => was.price < was.original
      BY <1>2, RowFields, PriceConstants DEF Prices
    <3>3. /\ y \in Running /\ y.by = a /\ y.kind = "keep" /\ y.id = form[a].id /\ y.cat = c
          /\ y.price = was.price /\ y.original = was.original /\ y.percent = 0
      BY <1>4, <3>1, <3>2 DEF Running, Kinds
    <3>4. y.pc = "read"
      BY <3>1, IdleFit DEF Running, request
    <3> QED  BY <1>2, <3>2, <3>3, <3>4 DEF Fit, Asked
  <2>2. CASE \E c \in Categories, price \in Typed, d \in Discounts \cup {0} :
               y = [request EXCEPT !.kind = "save", !.cat = c, !.price = price, !.percent = d]
    <3>1. PICK c \in Categories, price \in Typed, d \in Discounts \cup {0} :
            y = [request EXCEPT !.kind = "save", !.cat = c, !.price = price, !.percent = d]
      BY <2>2
    <3>2. price \in Prices /\ price \in 0..MaxPrice /\ d \in 0..99 /\ d \in Int
      BY PriceConstants DEF Prices
    <3>3. /\ y \in Running /\ y.by = a /\ y.kind = "save" /\ y.id = form[a].id /\ y.cat = c
          /\ y.price = price /\ y.original = 0 /\ y.percent = d
      BY <1>4, <3>1, <3>2 DEF Running, Kinds
    <3> QED  BY <1>2, <3>2, <3>3 DEF Fit, Asked, Known
  <2> QED  BY <1>3, <2>1, <2>2
<1>6. Becomes(h, y) /\ UNCHANGED <<revision, cacheVars, category, product, preview>> /\ Event
  BY <1>3 DEF Begin, Becomes
<1>7. CacheInv'
  <2>1. events' \in 0..MaxEvents  BY <1>6, EventTyped DEF CatalogueInv, CacheInv
  <2> QED  BY <1>6, <2>1, CacheUntouched DEF CatalogueInv
<1>8. Grows  BY <1>6 DEF Grows
<1>9. FormsTyped'
  <2>1. form' \in [Panels -> [pc : {"closed", "editing", "waiting"}, id : Products \cup {None},
                              was : Rows \cup {None}]]
    BY <1>1 DEF CatalogueInv, FormsTyped
  <2>2. \A b \in Panels : form'[b].was = form[b].was /\ form'[b].id = form[b].id
                            /\ (form'[b].pc # "closed" => form[b].pc # "closed")
    BY <1>1 DEF CatalogueInv, FormsTyped
  <2> QED  BY <1>8, <2>1, <2>2, ListedStays DEF CatalogueInv, FormsTyped, FormSound
<1>10. FormsHeld'
  <2>1. \A g \in Handlers : handler[g].by # a  BY <1>1 DEF CatalogueInv, FormsHeld
  <2>2. /\ handler'[h].by = a /\ \A g \in Handlers \ {h} : handler'[g] = handler[g]
    BY <1>5, <1>6 DEF Becomes, CatalogueInv, HandlersFit
  <2>3. form'[a].pc = "waiting" /\ \A b \in Panels \ {a} : form'[b] = form[b]
    BY <1>1 DEF CatalogueInv, FormsTyped
  <2> QED  BY <2>1, <2>2, <2>3 DEF CatalogueInv, FormsHeld
<1> QED  BY <1>5, <1>6, <1>7, <1>9, <1>10, QuietStep

-----------------------------------------------------------------------------
(* What admins do with forms and previews.                                 *)

LEMMA AdminStep ==
    ASSUME CatalogueInv, UNCHANGED <<category, product, handler>>,
           CacheInv', FormsTyped', FormsHeld', PreviewsSound', PreviewIsFunction'
    PROVE  CatalogueInv'
<1>1. Grows  BY DEF Grows
<1>2. HandlersFit'
  <2>1. ASSUME NEW g \in Handlers PROVE Fit(handler[g])'
    <3>1. PICK x : x = handler[g]  OBVIOUS
    <3>2. Fit(x)'  BY <1>1, <3>1, FitStays DEF CatalogueInv, HandlersFit
    <3> QED  BY <3>1, <3>2
  <2> QED  BY <2>1 DEF CatalogueInv, HandlersFit
<1>3. StoreTyped' /\ NoOrphanProducts'
  BY DEF CatalogueInv, StoreTyped, NoOrphanProducts, HasProduct, HasCategory
<1> QED  BY <1>2, <1>3 DEF CatalogueInv

LEMMA OpenFormKept ==
    ASSUME CatalogueInv, NEW a \in Panels, NEW p \in Products, OpenForm(a, p)
    PROVE  CatalogueInv'
<1>1. /\ form[a].pc = "closed" /\ HasProduct(p) /\ Event
      /\ form' = [form EXCEPT ![a] = [pc |-> "editing", id |-> p, was |-> product[p]]]
      /\ UNCHANGED <<revision, cacheVars, category, product, handler, preview>>
  BY DEF OpenForm
<1>2. product[p] \in Rows /\ Listed(p)
  BY <1>1, RowsDiffer DEF CatalogueInv, StoreTyped, HasProduct, Listed
<1>3. CacheInv'
  <2>1. events' \in 0..MaxEvents  BY <1>1, EventTyped DEF CatalogueInv, CacheInv
  <2> QED  BY <1>1, <2>1, CacheUntouched DEF CatalogueInv
<1>4. Grows  BY <1>1 DEF Grows
<1>5. FormsTyped'
  <2>1. form' \in [Panels -> [pc : {"closed", "editing", "waiting"}, id : Products \cup {None},
                              was : Rows \cup {None}]]
    BY <1>1, <1>2 DEF CatalogueInv, FormsTyped
  <2>2. \A b \in Panels \ {a} : form'[b] = form[b]  BY <1>1 DEF CatalogueInv, FormsTyped
  <2>3. form'[a].was = product[p] /\ form'[a].id = p  BY <1>1 DEF CatalogueInv, FormsTyped
  <2> QED
    BY <1>2, <1>4, <2>1, <2>2, <2>3, ListedStays DEF CatalogueInv, FormsTyped, FormSound
<1>6. FormsHeld'
  <2>1. \A g \in Handlers : handler[g].by # a  BY <1>1 DEF CatalogueInv, FormsHeld
  <2>2. \A b \in Panels \ {a} : form'[b] = form[b]  BY <1>1 DEF CatalogueInv, FormsTyped
  <2> QED  BY <1>1, <2>1, <2>2 DEF CatalogueInv, FormsHeld
<1>7. PreviewsSound' /\ PreviewIsFunction'
  BY <1>1, <1>4, PreviewsStay DEF CatalogueInv
<1> QED  BY <1>1, <1>3, <1>5, <1>6, <1>7, AdminStep

LEMMA CloseFormKept ==
    ASSUME CatalogueInv, NEW a \in Panels, CloseForm(a)
    PROVE  CatalogueInv'
<1>1. /\ form[a].pc = "editing" /\ form' = [form EXCEPT ![a] = Closed]
      /\ UNCHANGED <<revision, cacheVars, events, category, product, handler, preview>>
  BY DEF CloseForm
<1>2. CacheInv'
  <2>1. events' \in 0..MaxEvents  BY <1>1 DEF CatalogueInv, CacheInv, CacheTypeOK
  <2> QED  BY <1>1, <2>1, CacheUntouched DEF CatalogueInv
<1>3. Grows  BY <1>1 DEF Grows
<1>4. /\ \A b \in Panels \ {a} : form'[b] = form[b]
      /\ form'[a] = Closed
  BY <1>1 DEF CatalogueInv, FormsTyped
<1>5. FormsTyped'
  <2>1. form' \in [Panels -> [pc : {"closed", "editing", "waiting"}, id : Products \cup {None},
                              was : Rows \cup {None}]]
    BY <1>1 DEF CatalogueInv, FormsTyped, Closed
  <2> QED
    BY <1>3, <1>4, <2>1, ListedStays DEF CatalogueInv, FormsTyped, FormSound, Closed
<1>6. FormsHeld'
  <2>1. \A g \in Handlers : handler[g].by # a  BY <1>1 DEF CatalogueInv, FormsHeld
  <2> QED  BY <1>1, <1>4, <2>1 DEF CatalogueInv, FormsHeld
<1>7. PreviewsSound' /\ PreviewIsFunction'
  BY <1>1, <1>3, PreviewsStay DEF CatalogueInv
<1> QED  BY <1>1, <1>2, <1>5, <1>6, <1>7, AdminStep

\* Neither forms nor handlers are concerned.
LEMMA FormsUntouched ==
    ASSUME CatalogueInv, UNCHANGED <<category, product, handler, form>>
    PROVE  FormsTyped' /\ FormsHeld'
<1>1. Grows  BY DEF Grows
<1> QED  BY <1>1, FormsStay DEF CatalogueInv, FormsHeld

LEMMA CancelPreviewKept ==
    ASSUME CatalogueInv, NEW b \in Chats, CancelPreview(b)
    PROVE  CatalogueInv'
<1>1. /\ preview' = [preview EXCEPT ![b] = None]
      /\ UNCHANGED <<revision, cacheVars, category, product, handler, events, form>>
  BY DEF CancelPreview
<1>2. CacheInv'
  <2>1. events' \in 0..MaxEvents  BY <1>1 DEF CatalogueInv, CacheInv, CacheTypeOK
  <2> QED  BY <1>1, <2>1, CacheUntouched DEF CatalogueInv
<1>3. Grows  BY <1>1 DEF Grows
<1>4. PreviewIsFunction' /\ preview'[b] = None /\ \A d \in Chats \ {b} : preview'[d] = preview[d]
  BY <1>1 DEF CatalogueInv, PreviewIsFunction
<1>5. PreviewsSound'
  BY <1>3, <1>4, PlanKept DEF CatalogueInv, PreviewsSound
<1> QED  BY <1>1, <1>2, <1>4, <1>5, FormsUntouched, AdminStep

LEMMA PreviewKept ==
    ASSUME CatalogueInv, NEW b \in Chats, NEW c \in Categories, NEW percent \in Percents,
           Preview(b, c, percent)
    PROVE  CatalogueInv'
<1> DEFINE found == InCategory(c)
           items == [p \in found |-> [was |-> product[p], price |-> BulkPrice(product[p], percent)]]
<1>1. /\ percent # 0 /\ Event
      /\ \A p \in found : BulkPrice(product[p], percent) \in MinPrice..MaxPrice
      /\ preview' = [preview EXCEPT ![b] = [cat |-> c, percent |-> percent, items |-> items]]
      /\ UNCHANGED <<revision, cacheVars, category, product, handler, form>>
  BY DEF Preview
<1>2. \A p \in found : product[p] \in Rows /\ Listed(p)
  BY RowsDiffer DEF CatalogueInv, StoreTyped, InCategory, HasProduct, Listed
<1>3. items \in Plans
  <2>1. found \in SUBSET Products  BY DEF InCategory
  <2>2. items \in [found -> [was : Rows, price : MinPrice..MaxPrice]]  BY <1>1, <1>2
  <2> QED  BY <2>1, <2>2 DEF Plans
<1>4. ASSUME NEW p \in found, percent < 0
      PROVE  BulkPrice(product[p], percent) <= Base(product[p])
  <2>1. 100 + percent \in 1..99  BY <1>4, PriceConstants
  <2>2. Base(product[p]) \in Prices  BY <1>2, BaseTyped
  <2> QED  BY <2>1, <2>2, RoundedDown DEF BulkPrice
<1>5. PICK plan : plan = items  OBVIOUS
<1>6. PlanSound(plan, percent)'
  <2>1. \A p \in DOMAIN plan :
          p \in found /\ plan[p].was = product[p] /\ plan[p].price = BulkPrice(product[p], percent)
    BY <1>5
  <2>2. \A p \in DOMAIN plan : Listed(p)'  BY <1>1, <1>2, <2>1 DEF Listed
  <2>3. \A p \in DOMAIN plan : percent < 0 => plan[p].price <= Base(plan[p].was)
    BY <1>4, <2>1
  <2> QED  BY <2>2, <2>3 DEF PlanSound
<1>7. CacheInv'
  <2>1. events' \in 0..MaxEvents  BY <1>1, EventTyped DEF CatalogueInv, CacheInv
  <2> QED  BY <1>1, <2>1, CacheUntouched DEF CatalogueInv
<1>8. Grows  BY <1>1 DEF Grows
<1>9. /\ PreviewIsFunction' /\ preview'[b] = [cat |-> c, percent |-> percent, items |-> plan]
      /\ \A d \in Chats \ {b} : preview'[d] = preview[d]
  BY <1>1, <1>5 DEF CatalogueInv, PreviewIsFunction
<1>10. PreviewsSound'
  <2>1. percent \in Int  BY PriceConstants
  <2>2. ASSUME NEW d \in Chats, preview'[d] # None
        PROVE  /\ preview'[d].cat \in Categories /\ preview'[d].percent \in Int
               /\ preview'[d].items \in Plans
               /\ PlanSound(preview[d].items, preview[d].percent)'
    <3>1. CASE d = b  BY <1>3, <1>5, <1>9, <1>6, <2>1, <3>1
    <3>2. CASE d # b  BY <1>8, <1>9, <2>2, <3>2, PlanKept DEF CatalogueInv
    <3> QED  BY <3>1, <3>2
  <2> QED  BY <2>2 DEF PreviewsSound
<1> QED  BY <1>1, <1>7, <1>9, <1>10, FormsUntouched, AdminStep

-----------------------------------------------------------------------------
(* The steps of a handler that leave the catalogue alone.                  *)

LEMMA GotoFit ==
    ASSUME CatalogueInv, NEW h \in Handlers, NEW pc \in {"return", "clear"}, Goto(h, pc)
    PROVE  \E y \in Running : /\ Becomes(h, y) /\ Fit(y) /\ y.by = handler[h].by
                              /\ y.pc = pc /\ y.kind = handler[h].kind
<1>1. PICK y : y = [Idle EXCEPT !.pc = pc, !.isolate = handler[h].isolate,
                                !.kind = handler[h].kind, !.by = handler[h].by]
  OBVIOUS
<1>2. handler[h] \in Running /\ Fit(handler[h])  BY DEF CatalogueInv, HandlersFit
<1>3. y \in Running /\ y.by = handler[h].by /\ y.pc = pc /\ y.kind = handler[h].kind
  BY <1>1, <1>2, IdleFit DEF Running
<1>4. Fit(y)  BY <1>2, <1>3 DEF Fit
<1> QED  BY <1>1, <1>3, <1>4 DEF Goto, Becomes

LEMMA EndsKept ==
    ASSUME CatalogueInv, NEW h \in Handlers, Becomes(h, Idle), Reopen(h) \/ Close(h),
           UNCHANGED <<category, product, preview>>, CacheInv'
    PROVE  CatalogueInv'
<1>1. Grows  BY DEF Grows
<1>2. FormsTyped' /\ FormsHeld'  BY <1>1, IdleFit, NoneApart, HeldNoMore DEF CatalogueInv
<1> QED  BY <1>2, IdleFit, QuietStep

\* bulkconfirm has no form to keep open.
LEMMA ChatHasNoForm ==
    ASSUME CatalogueInv, NEW h \in Handlers, handler[h].kind = "bulk"
    PROVE  handler[h].by \notin Panels
  BY NoneApart DEF CatalogueInv, HandlersFit, Fit

LEMMA CatchKept ==
    ASSUME CatalogueInv, NEW h \in Handlers, Catch(h),
           UNCHANGED <<category, product, preview>>, CacheInv'
    PROVE  CatalogueInv'
<1>1. Reopen(h)  BY DEF Catch
<1>2. CASE handler[h].kind = "bulk"
  <2>1. PICK y \in Running : /\ Becomes(h, y) /\ Fit(y) /\ y.by = handler[h].by
    BY <1>2, GotoFit DEF Catch
  <2>2. y.by \notin Panels  BY <1>2, <2>1, ChatHasNoForm
  <2>3. Grows  BY DEF Grows
  <2>4. FormsTyped' /\ FormsHeld'  BY <1>1, <2>1, <2>2, <2>3, HeldNoMore DEF CatalogueInv
  <2> QED  BY <2>1, <2>4, QuietStep
<1>3. CASE handler[h].kind # "bulk"
  BY <1>1, <1>3, EndsKept DEF Catch, Becomes
<1> QED  BY <1>2, <1>3

LEMMA SeenTyped ==
    ASSUME CatalogueInv, NEW h \in Handlers, At(h, "read"), Found(h)
    PROVE  /\ Seen(h) \in Seens
           /\ handler[h].kind \in {"discount", "rmdiscount"} =>
                Seen(h)[handler[h].id] = product[handler[h].id]
           /\ handler[h].kind = "bulk" =>
                \A p \in DOMAIN handler[h].plan : Seen(h)[p] = product[p]
<1> DEFINE x == handler[h]
<1>1. x \in Running /\ Asked(x)  BY DEF CatalogueInv, HandlersFit, Fit, At
<1>2. CASE x.kind \in {"discount", "rmdiscount"}
  <2>1. x.id \in Products /\ HasProduct(x.id)  BY <1>1, <1>2 DEF Asked, Listed, Found
  <2>2. product[x.id] \in Rows  BY <2>1 DEF CatalogueInv, StoreTyped, HasProduct
  <2>3. Seen(h) = [p \in {x.id} |-> product[p]]  BY <1>2 DEF Seen
  <2> QED  BY <1>2, <2>1, <2>2, <2>3 DEF Seens
<1>3. CASE x.kind = "bulk"
  <2>1. \A p \in DOMAIN x.plan : p \in Products /\ HasProduct(p)
    BY <1>3 DEF Found, AsPreviewed, InCategory
  <2>2. \A p \in DOMAIN x.plan : product[p] \in Rows
    BY <2>1 DEF CatalogueInv, StoreTyped, HasProduct
  <2>3. Seen(h) = [p \in DOMAIN x.plan |-> product[p]]  BY <1>3 DEF Seen
  <2>4. Seen(h) \in [DOMAIN x.plan -> Rows] /\ DOMAIN x.plan \in SUBSET Products
    BY <2>1, <2>2, <2>3
  <2> QED  BY <1>3, <2>3, <2>4 DEF Seens
<1>4. CASE x.kind \notin {"discount", "rmdiscount", "bulk"}
  <2>1. Seen(h) = [p \in {} |-> product[p]]  BY <1>4 DEF Seen
  <2>2. Seen(h) \in [{} -> Rows] /\ {} \in SUBSET Products  BY <2>1
  <2> QED  BY <1>4, <2>2 DEF Seens
<1> QED  BY <1>2, <1>3, <1>4

LEMMA ReadKept == ASSUME CatalogueInv, NEW h \in Handlers, Read(h) PROVE CatalogueInv'
<1>1. /\ At(h, "read") /\ UNCHANGED <<revision, cacheVars, events, category, product, preview>>
  BY DEF Read
<1>2. CacheInv'
  <2>1. events' \in 0..MaxEvents  BY <1>1 DEF CatalogueInv, CacheInv, CacheTypeOK
  <2> QED  BY <1>1, <2>1, CacheUntouched DEF CatalogueInv
<1>3. CASE Found(h)
  <2>1. PICK x : x = handler[h]  OBVIOUS
  <2>2. PICK y : y = [x EXCEPT !.pc = "write", !.seen = Seen(h)]  OBVIOUS
  <2>3. x \in Running /\ Asked(x) /\ (x.kind = "bulk" => x.by \in Chats)
    BY <1>1, <2>1 DEF CatalogueInv, HandlersFit, Fit, At
  <2>4. Seen(h) \in Seens  BY <1>1, <1>3, SeenTyped
  <2>5. /\ y \in Running /\ y.pc = "write" /\ y.kind = x.kind /\ y.id = x.id /\ y.cat = x.cat
        /\ y.by = x.by /\ y.price = x.price /\ y.original = x.original
        /\ y.percent = x.percent /\ y.plan = x.plan /\ y.seen = Seen(h)
    BY <2>2, <2>3, <2>4 DEF Running
  <2>6. Known(y)
    <3>1. y.kind \in {"discount", "rmdiscount"} =>
             y.seen[y.id] \in Rows /\ (y.kind = "rmdiscount" => y.seen[y.id].original # 0)
      <4> SUFFICES ASSUME y.kind \in {"discount", "rmdiscount"}
                   PROVE  y.seen[y.id] \in Rows /\ (y.kind = "rmdiscount" => y.seen[y.id].original # 0)
        OBVIOUS
      <4>1. x.id \in Products /\ HasProduct(x.id)
        BY <1>3, <2>1, <2>3, <2>5 DEF Asked, Listed, Found
      <4>2. product[x.id] \in Rows  BY <4>1 DEF CatalogueInv, StoreTyped, HasProduct
      <4>3. y.seen[y.id] = product[x.id]  BY <1>1, <1>3, <2>1, <2>5, SeenTyped
      <4>4. y.kind = "rmdiscount" => product[x.id].original # 0  BY <1>3, <2>1, <2>5 DEF Found
      <4> QED  BY <4>2, <4>3, <4>4
    <3>2. ASSUME y.kind = "bulk", NEW p \in DOMAIN y.plan
          PROVE  y.seen[p] \in Rows /\ y.seen[p].price = y.plan[p].was.price
      <4>1. p \in Products /\ HasProduct(p) /\ product[p].price = x.plan[p].was.price
        BY <1>3, <2>1, <2>5, <3>2 DEF Found, AsPreviewed, InCategory
      <4>2. product[p] \in Rows  BY <4>1 DEF CatalogueInv, StoreTyped, HasProduct
      <4>3. y.seen[p] = product[p]  BY <1>1, <1>3, <2>1, <2>5, <3>2, SeenTyped
      <4> QED  BY <2>5, <4>1, <4>2, <4>3
    <3> QED  BY <3>1, <3>2 DEF Known
  <2>7. Asked(y)  BY <2>3, <2>5 DEF Asked
  <2>8. Fit(y)  BY <2>3, <2>5, <2>6, <2>7 DEF Fit
  <2>9. Becomes(h, y) /\ UNCHANGED form  BY <1>3, <2>1, <2>2 DEF Read, Becomes
  <2>10. Grows  BY <1>1 DEF Grows
  <2>11. FormsTyped' /\ FormsHeld'
    BY <2>1, <2>5, <2>9, <2>10, FormsStay, HeldOn DEF CatalogueInv
  <2> QED  BY <1>1, <1>2, <2>5, <2>8, <2>9, <2>11, QuietStep
<1>4. CASE ~Found(h)
  BY <1>1, <1>2, <1>4, CatchKept DEF Read
<1> QED  BY <1>3, <1>4

LEMMA ReturnKept == ASSUME CatalogueInv, NEW h \in Handlers, Return(h) PROVE CatalogueInv'
<1>1. Invalidate(handler[h].isolate) /\ UNCHANGED <<revision, events, category, product, preview>>
  BY DEF Return
<1>2. CacheInv'
  <2>1. PICK i : i = handler[h].isolate  OBVIOUS
  <2> QED  BY <1>1, <2>1, InvalidateKept DEF CatalogueInv
<1>3. CASE handler[h].kind = "bulk"
  <2>1. PICK y \in Running : Becomes(h, y) /\ Fit(y) /\ y.by = handler[h].by
    BY <1>3, GotoFit DEF Return
  <2>2. UNCHANGED form  BY <1>3 DEF Return
  <2>3. Grows  BY <1>1 DEF Grows
  <2>4. FormsTyped' /\ FormsHeld'  BY <2>1, <2>2, <2>3, FormsStay, HeldOn DEF CatalogueInv
  <2> QED  BY <1>1, <1>2, <2>1, <2>4, QuietStep
<1>4. CASE handler[h].kind # "bulk"
  BY <1>1, <1>2, <1>4, EndsKept DEF Return, Becomes
<1> QED  BY <1>3, <1>4

LEMMA ClearSessionKept ==
    ASSUME CatalogueInv, NEW h \in Handlers, ClearSession(h)
    PROVE  CatalogueInv'
<1>1. /\ Becomes(h, Idle) /\ preview' = [preview EXCEPT ![handler[h].by] = None]
      /\ UNCHANGED <<revision, cacheVars, events, category, product, form>>
  BY DEF ClearSession, Becomes
<1>2. CacheInv'
  <2>1. events' \in 0..MaxEvents  BY <1>1 DEF CatalogueInv, CacheInv, CacheTypeOK
  <2> QED  BY <1>1, <2>1, CacheUntouched DEF CatalogueInv
<1>3. Grows  BY <1>1 DEF Grows
<1>4. HandlersFit'  BY <1>1, <1>3, IdleFit, FitsStep DEF CatalogueInv
<1>5. FormsTyped' /\ FormsHeld'
  BY <1>1, <1>3, IdleFit, NoneApart, FormsStay, HeldOn DEF CatalogueInv
<1>6. PreviewIsFunction' /\ \A b \in Chats : preview'[b] \in {preview[b], None}
  BY <1>1 DEF CatalogueInv, PreviewIsFunction
<1>7. PreviewsSound'
  <2>1. ASSUME NEW b \in Chats, preview'[b] # None
        PROVE  /\ preview'[b].cat \in Categories /\ preview'[b].percent \in Int
               /\ preview'[b].items \in Plans
               /\ PlanSound(preview[b].items, preview[b].percent)'
    BY <1>3, <1>6, <2>1, PlanKept DEF CatalogueInv
  <2> QED  BY <2>1 DEF PreviewsSound
<1>8. StoreTyped' /\ NoOrphanProducts'
  BY <1>1 DEF CatalogueInv, StoreTyped, NoOrphanProducts, HasProduct, HasCategory
<1> QED  BY <1>2, <1>4, <1>5, <1>6, <1>7, <1>8 DEF CatalogueInv

LEMMA FailKept == ASSUME CatalogueInv, NEW h \in Handlers, Fail(h) PROVE CatalogueInv'
<1>1. Event /\ UNCHANGED <<revision, cacheVars, category, product, preview>>  BY DEF Fail
<1>2. CacheInv'
  <2>1. events' \in 0..MaxEvents  BY <1>1, EventTyped DEF CatalogueInv, CacheInv
  <2> QED  BY <1>1, <2>1, CacheUntouched DEF CatalogueInv
<1>3. CASE Catch(h)  BY <1>1, <1>2, <1>3, CatchKept
<1>4. CASE Becomes(h, Idle) /\ Reopen(h)  BY <1>1, <1>2, <1>4, EndsKept
<1> QED  BY <1>3, <1>4 DEF Fail, Becomes

-----------------------------------------------------------------------------
(* The writes.                                                             *)

Contents == [Products -> Rows \cup {NotYet, Gone}]

LEMMA ApplyKept ==
    ASSUME CatalogueInv, NEW h \in Handlers,
           NEW cats \in [Categories -> {NotYet, "there", Gone}], NEW rows \in Contents,
           \A p \in Products : product[p] # NotYet => rows[p] # NotYet,
           Apply(h, cats, rows)
    PROVE  CatalogueInv'
<1>1. UNCHANGED <<cacheVars, events, preview>>  BY DEF Apply
<1>2. events' \in 0..MaxEvents  BY <1>1 DEF CatalogueInv, CacheInv, CacheTypeOK
<1>3. CASE ForeignKey(cats, rows)
  <2>1. /\ category' = cats /\ product' = rows /\ revision' = revision + 1
        /\ Goto(h, "return") /\ UNCHANGED form
    BY <1>3 DEF Apply
  <2>2. Grows  BY <2>1 DEF Grows
  <2>3. PICK y \in Running : Becomes(h, y) /\ Fit(y) /\ y.by = handler[h].by
    BY <2>1, GotoFit
  <2>4. HandlersFit'  BY <2>2, <2>3, FitsStep DEF CatalogueInv
  <2>5. FormsTyped' /\ FormsHeld'
    BY <2>1, <2>2, <2>3, FormsStay, HeldOn DEF CatalogueInv
  <2>6. PreviewsSound' /\ PreviewIsFunction'
    BY <1>1, <2>2, PreviewsStay DEF CatalogueInv
  <2>7. StoreTyped'  BY <2>1 DEF StoreTyped, Contents
  <2>8. NoOrphanProducts'
    BY <1>3, <2>1 DEF ForeignKey, NoOrphanProducts, HasProduct, HasCategory
  <2>9. CacheInv'  BY <1>1, <1>2, <2>1, CacheUntouched DEF CatalogueInv
  <2> QED  BY <2>4, <2>5, <2>6, <2>7, <2>8, <2>9 DEF CatalogueInv
<1>4. CASE ~ForeignKey(cats, rows)
  <2>1. Catch(h) /\ UNCHANGED <<category, product, revision>>  BY <1>4 DEF Apply
  <2>2. CacheInv'  BY <1>1, <1>2, <2>1, CacheUntouched DEF CatalogueInv
  <2> QED  BY <1>1, <2>1, <2>2, CatchKept
<1> QED  BY <1>3, <1>4

LEMMA WriterFit ==
    ASSUME CatalogueInv, NEW h \in Handlers, At(h, "write")
    PROVE  handler[h] \in Running /\ Asked(handler[h]) /\ Known(handler[h])
  BY DEF CatalogueInv, HandlersFit, Fit, At

LEMMA ListedRow ==
    ASSUME CatalogueInv, NEW p \in Products, HasProduct(p) PROVE product[p] \in Rows
  BY DEF CatalogueInv, StoreTyped, HasProduct

\* UPDATE: one row, if it is still there.
LEMMA UpdateKept ==
    ASSUME CatalogueInv, NEW h \in Handlers, NEW x, Update(h, x),
           handler[h].id \in Products, HasProduct(handler[h].id) => x \in Rows
    PROVE  CatalogueInv'
<1>1. PICK p \in Products : p = handler[h].id  OBVIOUS
<1>2. PICK rows : rows = IF HasProduct(p) THEN [product EXCEPT ![p] = x] ELSE product  OBVIOUS
<1>3. rows \in Contents  BY <1>1, <1>2 DEF CatalogueInv, StoreTyped, Contents
<1>4. \A q \in Products : product[q] # NotYet => rows[q] # NotYet
  BY <1>1, <1>2, RowsDiffer DEF CatalogueInv, StoreTyped, HasProduct
<1>5. PICK cats : cats = category  OBVIOUS
<1>6. cats \in [Categories -> {NotYet, "there", Gone}]  BY <1>5 DEF CatalogueInv, StoreTyped
<1>7. Apply(h, cats, rows)  BY <1>1, <1>2, <1>5 DEF Update
<1> QED  BY <1>3, <1>4, <1>6, <1>7, ApplyKept

LEMMA UpdateAtWrite ==
    ASSUME NEW h \in Handlers, NEW x, Update(h, x) PROVE At(h, "write")
  BY DEF Update, Apply

LEMMA SetProductPriceKept ==
    ASSUME CatalogueInv, NEW h \in Handlers, SetProductPrice(h) PROVE CatalogueInv'
<1>1. PICK x : /\ Update(h, x) /\ handler[h].kind = "price"
               /\ x = Priced(product[handler[h].id], Pair(handler[h].price, 0))
  BY DEF SetProductPrice
<1>2. handler[h].id \in Products /\ handler[h].price \in Prices
  BY <1>1, UpdateAtWrite, WriterFit DEF Asked, Listed
<1>3. Pair(handler[h].price, 0) \in Pairs  BY <1>2, PriceConstants, PairTyped
<1>4. HasProduct(handler[h].id) => x \in Rows
  BY <1>1, <1>2, <1>3, ListedRow, PricedTyped
<1> QED  BY <1>1, <1>2, <1>4, UpdateKept

LEMMA SetProductDiscountKept ==
    ASSUME CatalogueInv, NEW h \in Handlers, SetProductDiscount(h) PROVE CatalogueInv'
<1>1. PICK x : /\ Update(h, x) /\ handler[h].kind = "discount"
               /\ x = Priced(product[handler[h].id],
                             DiscountPair(handler[h].seen[handler[h].id], handler[h].percent))
  BY DEF SetProductDiscount
<1>2. /\ handler[h].id \in Products /\ handler[h].percent \in 1..99
      /\ handler[h].seen[handler[h].id] \in Rows
  BY <1>1, UpdateAtWrite, WriterFit DEF Asked, Known, Listed
<1>3. DiscountPair(handler[h].seen[handler[h].id], handler[h].percent) \in Pairs
  BY <1>2, DiscountTyped
<1>4. HasProduct(handler[h].id) => x \in Rows
  BY <1>1, <1>2, <1>3, ListedRow, PricedTyped
<1> QED  BY <1>1, <1>2, <1>4, UpdateKept

LEMMA RemoveProductDiscountKept ==
    ASSUME CatalogueInv, NEW h \in Handlers, RemoveProductDiscount(h) PROVE CatalogueInv'
<1>1. PICK x : /\ Update(h, x) /\ handler[h].kind = "rmdiscount"
               /\ x = Priced(product[handler[h].id], Pair(handler[h].seen[handler[h].id].original, 0))
  BY DEF RemoveProductDiscount
<1>2. /\ handler[h].id \in Products
      /\ handler[h].seen[handler[h].id] \in Rows /\ handler[h].seen[handler[h].id].original # 0
  BY <1>1, UpdateAtWrite, WriterFit DEF Asked, Known, Listed
<1>3. handler[h].seen[handler[h].id].original \in Prices
  BY <1>2, RowFields, PriceConstants DEF Prices
<1>4. Pair(handler[h].seen[handler[h].id].original, 0) \in Pairs
  BY <1>3, PriceConstants, PairTyped
<1>5. HasProduct(handler[h].id) => x \in Rows
  BY <1>1, <1>2, <1>4, ListedRow, PricedTyped
<1> QED  BY <1>1, <1>2, <1>5, UpdateKept

LEMMA ToggleKept ==
    ASSUME CatalogueInv, NEW h \in Handlers, ToggleProductAvailability(h) PROVE CatalogueInv'
<1>1. PICK x : Update(h, x) /\ handler[h].kind = "toggle" /\ x = product[handler[h].id]
  BY DEF ToggleProductAvailability
<1>2. handler[h].id \in Products  BY <1>1, UpdateAtWrite, WriterFit DEF Asked, Listed
<1> QED  BY <1>1, <1>2, ListedRow, UpdateKept

LEMMA SavedTyped ==
    ASSUME CatalogueInv, NEW h \in Handlers, At(h, "write"), handler[h].kind \in {"keep", "save"}
    PROVE  /\ handler[h].cat \in Categories
           /\ SavedPair(handler[h].price, handler[h].original, handler[h].percent) \in Pairs
           /\ handler[h].kind = "keep" =>
                Base(SavedPair(handler[h].price, handler[h].original, handler[h].percent)) = Base(handler[h])
<1>1. PICK x : x = handler[h]  OBVIOUS
<1>2. /\ x.cat \in Categories /\ x.price \in Prices /\ x.original \in 0..MaxPrice
      /\ x.percent \in 0..99
      /\ x.original # 0 => x.price < x.original
  <2>1. x \in Running /\ Asked(x)  BY <1>1, WriterFit
  <2> QED  BY <1>1, <2>1 DEF Asked, Running
<1>3. CASE x.original = 0
  <2>1. SavedPair(x.price, x.original, x.percent) = ResolvePrice(x.price, x.percent)
    BY <1>3 DEF SavedPair
  <2> QED  BY <1>1, <1>2, <1>3, <2>1, ResolveTyped DEF Base
<1>4. CASE x.original # 0
  <2>1. x.original > x.price  BY <1>2, <1>4, PriceConstants DEF Prices
  <2>2. SavedPair(x.price, x.original, x.percent) = Pair(x.price, x.original)
    BY <1>4, <2>1 DEF SavedPair
  <2> QED  BY <1>1, <1>2, <1>4, <2>2, PairTyped DEF Base
<1> QED  BY <1>3, <1>4

LEMMA UpdateProductKept ==
    ASSUME CatalogueInv, NEW h \in Handlers, UpdateProduct(h) PROVE CatalogueInv'
<1>1. PICK x : /\ Update(h, x) /\ handler[h].kind \in {"keep", "save"}
               /\ x = Row(handler[h].cat,
                          SavedPair(handler[h].price, handler[h].original, handler[h].percent))
  BY DEF UpdateProduct
<1>2. handler[h].id \in Products  BY <1>1, UpdateAtWrite, WriterFit DEF Asked, Listed
<1>3. x \in Rows  BY <1>1, UpdateAtWrite, SavedTyped, RowTyped
<1> QED  BY <1>1, <1>2, <1>3, UpdateKept

LEMMA InsertProductKept ==
    ASSUME CatalogueInv, NEW h \in Handlers, InsertProduct(h) PROVE CatalogueInv'
<1>1. PICK x : x = handler[h]  OBVIOUS
<1>2. PICK rows : rows = [product EXCEPT ![x.id] = Row(x.cat, ResolvePrice(x.price, x.percent))]
  OBVIOUS
<1>3. PICK cats : cats = category  OBVIOUS
<1>4. x.kind = "add" /\ Apply(h, cats, rows) /\ At(h, "write")
  BY <1>1, <1>2, <1>3 DEF InsertProduct, Apply
<1>5. x.id \in Products /\ x.cat \in Categories /\ x.price \in Prices /\ x.percent \in 0..99
  BY <1>1, <1>4, WriterFit DEF Asked
<1>6. Row(x.cat, ResolvePrice(x.price, x.percent)) \in Rows  BY <1>5, ResolveTyped, RowTyped
<1>7. rows \in Contents  BY <1>2, <1>6 DEF CatalogueInv, StoreTyped, Contents
<1>8. \A q \in Products : product[q] # NotYet => rows[q] # NotYet
  BY <1>2, <1>5, <1>6, RowsDiffer DEF CatalogueInv, StoreTyped
<1>9. cats \in [Categories -> {NotYet, "there", Gone}]  BY <1>3 DEF CatalogueInv, StoreTyped
<1> QED  BY <1>4, <1>7, <1>8, <1>9, ApplyKept

LEMMA DeleteProductKept ==
    ASSUME CatalogueInv, NEW h \in Handlers, DeleteProduct(h) PROVE CatalogueInv'
<1>1. PICK rows : rows = [product EXCEPT ![handler[h].id] = Gone]  OBVIOUS
<1>2. PICK cats : cats = category  OBVIOUS
<1>3. Apply(h, cats, rows)  BY <1>1, <1>2 DEF DeleteProduct
<1>4. rows \in Contents  BY <1>1 DEF CatalogueInv, StoreTyped, Contents
<1>5. \A q \in Products : product[q] # NotYet => rows[q] # NotYet
  BY <1>1, RowsDiffer DEF CatalogueInv, StoreTyped
<1>6. cats \in [Categories -> {NotYet, "there", Gone}]  BY <1>2 DEF CatalogueInv, StoreTyped
<1> QED  BY <1>3, <1>4, <1>5, <1>6, ApplyKept

\* What the batch writes for one product of the plan.
LEMMA BulkTyped ==
    ASSUME CatalogueInv, NEW h \in Handlers, At(h, "write"), handler[h].kind = "bulk",
           NEW p \in DOMAIN handler[h].plan
    PROVE  LET x == handler[h]
               z == BulkPair(x.seen[p], x.percent, x.plan[p].price)
           IN  /\ Listed(p) /\ z \in Pairs /\ z.price = x.plan[p].price
               /\ x.percent < 0 /\ x.seen[p] = x.plan[p].was => Base(z) = Base(x.seen[p])
<1>1. PICK x : x = handler[h]  OBVIOUS
<1>2. x \in Running /\ Asked(x) /\ Known(x)  BY <1>1, WriterFit
<1>3. x.plan[p].price \in Prices
  <2>1. PICK S \in SUBSET Products : x.plan \in [S -> [was : Rows, price : MinPrice..MaxPrice]]
    BY <1>2 DEF Running, Plans
  <2> QED  BY <1>1, <2>1 DEF Prices
<1>4. /\ Listed(p) /\ x.seen[p] \in Rows
      /\ x.percent < 0 => x.plan[p].price <= Base(x.plan[p].was)
  BY <1>1, <1>2 DEF Asked, Known, PlanSound
<1>5. CASE x.percent < 0
  <2>1. BulkPair(x.seen[p], x.percent, x.plan[p].price) = Reduced(Base(x.seen[p]), x.plan[p].price)
    BY <1>5 DEF BulkPair
  <2>2. Base(x.seen[p]) \in Prices  BY <1>4, BaseTyped
  <2> QED  BY <1>1, <1>3, <1>4, <1>5, <2>1, <2>2, ReducedTyped
<1>6. CASE ~(x.percent < 0)
  <2>1. BulkPair(x.seen[p], x.percent, x.plan[p].price) = Pair(x.plan[p].price, 0)
    BY <1>6 DEF BulkPair
  <2> QED  BY <1>1, <1>3, <1>4, <1>6, <2>1, PairTyped, PriceConstants
<1> QED  BY <1>5, <1>6

Batch(h) ==
    [p \in Products |->
        IF p \in DOMAIN handler[h].plan /\ HasProduct(p)
        THEN Priced(product[p], BulkPair(handler[h].seen[p], handler[h].percent, handler[h].plan[p].price))
        ELSE product[p]]

LEMMA ApplyCategoryPercentKept ==
    ASSUME CatalogueInv, NEW h \in Handlers, ApplyCategoryPercent(h) PROVE CatalogueInv'
<1>1. PICK rows : rows = Batch(h)  OBVIOUS
<1>2. PICK cats : cats = category  OBVIOUS
<1>3. handler[h].kind = "bulk" /\ Apply(h, cats, rows) /\ At(h, "write")
  BY <1>1, <1>2 DEF ApplyCategoryPercent, Batch, Apply
<1>4. ASSUME NEW p \in Products
      PROVE  rows[p] \in Rows \cup {NotYet, Gone} /\ (product[p] # NotYet => rows[p] # NotYet)
  <2>1. CASE p \in DOMAIN handler[h].plan /\ HasProduct(p)
    <3>1. rows[p] = Priced(product[p], BulkPair(handler[h].seen[p], handler[h].percent,
                                                handler[h].plan[p].price))
      BY <1>1, <2>1 DEF Batch
    <3>2. rows[p] \in Rows  BY <1>3, <2>1, <3>1, BulkTyped, ListedRow, PricedTyped
    <3> QED  BY <3>2, RowsDiffer
  <2>2. CASE ~(p \in DOMAIN handler[h].plan /\ HasProduct(p))
    BY <1>1, <2>2 DEF Batch, CatalogueInv, StoreTyped
  <2> QED  BY <2>1, <2>2
<1>5. rows \in Contents  BY <1>1, <1>4 DEF Batch, Contents
<1>6. cats \in [Categories -> {NotYet, "there", Gone}]  BY <1>2 DEF CatalogueInv, StoreTyped
<1> QED  BY <1>3, <1>4, <1>5, <1>6, ApplyKept

LEMMA CategoriesKept ==
    ASSUME CatalogueInv, NEW h \in Handlers,
           InsertCategory(h) \/ UpdateCategory(h) \/ DeleteCategory(h)
    PROVE  CatalogueInv'
<1>1. PICK cats : /\ Apply(h, cats, product)
                  /\ cats \in [Categories -> {NotYet, "there", Gone}]
  <2>0. category \in [Categories -> {NotYet, "there", Gone}]  BY DEF CatalogueInv, StoreTyped
  <2>1. CASE InsertCategory(h)
    <3>1. PICK c : c = [category EXCEPT ![handler[h].cat] = "there"]  OBVIOUS
    <3>2. c \in [Categories -> {NotYet, "there", Gone}]  BY <2>0, <3>1
    <3>3. Apply(h, c, product)  BY <2>1, <3>1 DEF InsertCategory
    <3> QED  BY <3>2, <3>3
  <2>2. CASE UpdateCategory(h)
    <3>1. PICK c : c = category  OBVIOUS
    <3> QED  BY <2>0, <2>2, <3>1 DEF UpdateCategory
  <2>3. CASE DeleteCategory(h)
    <3>1. PICK c : c = [category EXCEPT ![handler[h].cat] = Gone]  OBVIOUS
    <3>2. c \in [Categories -> {NotYet, "there", Gone}]  BY <2>0, <3>1
    <3>3. Apply(h, c, product)  BY <2>3, <3>1 DEF DeleteCategory
    <3> QED  BY <3>2, <3>3
  <2> QED  BY <2>1, <2>2, <2>3
<1>2. PICK rows : rows = product  OBVIOUS
<1>3. rows \in Contents  BY <1>2 DEF CatalogueInv, StoreTyped, Contents
<1> QED  BY <1>1, <1>2, <1>3, ApplyKept

-----------------------------------------------------------------------------
(* Every step.                                                             *)

LEMMA InitInv == Init => CatalogueInv
<1> SUFFICES ASSUME Init PROVE CatalogueInv  OBVIOUS
<1>1. CacheInv  BY CacheInitInv DEF Init
<1>2. StoreTyped /\ NoOrphanProducts
  BY DEF Init, StoreTyped, NoOrphanProducts
<1>3. HandlersFit  BY IdleFit DEF Init, HandlersFit
<1>4. FormsTyped  BY DEF Init, FormsTyped, FormSound, Closed
<1>5. FormsHeld  BY IdleFit, NoneApart DEF Init, FormsHeld
<1>6. PreviewsSound /\ PreviewIsFunction  BY DEF Init, PreviewsSound, PreviewIsFunction
<1> QED  BY <1>1, <1>2, <1>3, <1>4, <1>5, <1>6 DEF CatalogueInv

LEMMA CacheStepKept ==
    ASSUME CatalogueInv, CacheNext, UNCHANGED <<category, product, handler, form, preview>>
    PROVE  CatalogueInv'
<1>1. CacheInv'  BY CacheNextKept DEF CatalogueInv
<1>2. Grows  BY DEF Grows
<1>3. FormsTyped' /\ FormsHeld'  BY FormsUntouched
<1>4. PreviewsSound' /\ PreviewIsFunction'  BY <1>2, PreviewsStay DEF CatalogueInv
<1> QED  BY <1>1, <1>3, <1>4, AdminStep

LEMMA StepKept == ASSUME CatalogueInv, Next PROVE CatalogueInv'
<1>1. ASSUME NEW h \in Handlers, HandlerNext(h) PROVE CatalogueInv'
  <2>1. CASE \E i \in Isolates :
               \/ \E p \in Products : ChangeProduct(h, i, p)
               \/ \E p \in Products, c \in Categories : AddProduct(h, i, p, c)
               \/ \E c \in Categories : ChangeCategory(h, i, c)
               \/ \E a \in Panels : SaveForm(h, i, a)
               \/ \E b \in Chats : Confirm(h, i, b)
    BY <2>1, ChangeProductKept, AddProductKept, ChangeCategoryKept, SaveFormKept, ConfirmKept
  <2>2. CASE Read(h) \/ Return(h) \/ ClearSession(h) \/ Fail(h)
    BY <2>2, ReadKept, ReturnKept, ClearSessionKept, FailKept
  <2>3. CASE \/ SetProductPrice(h) \/ SetProductDiscount(h) \/ RemoveProductDiscount(h)
             \/ ToggleProductAvailability(h) \/ UpdateProduct(h) \/ InsertProduct(h)
             \/ DeleteProduct(h) \/ ApplyCategoryPercent(h)
             \/ InsertCategory(h) \/ UpdateCategory(h) \/ DeleteCategory(h)
    BY <2>3, SetProductPriceKept, SetProductDiscountKept, RemoveProductDiscountKept, ToggleKept,
       UpdateProductKept, InsertProductKept, DeleteProductKept, ApplyCategoryPercentKept,
       CategoriesKept
  <2> QED  BY <1>1, <2>1, <2>2, <2>3 DEF HandlerNext
<1>2. CASE AdminNext
  BY <1>2, OpenFormKept, CloseFormKept, CancelPreviewKept, PreviewKept DEF AdminNext
<1>3. CASE CacheNext /\ UNCHANGED <<category, product, handler, form, preview>>
  BY <1>3, CacheStepKept
<1> QED  BY <1>1, <1>2, <1>3 DEF Next

LEMMA CatalogueInvKept == CatalogueInv /\ [Next]_vars => CatalogueInv'
<1> SUFFICES ASSUME CatalogueInv, [Next]_vars PROVE CatalogueInv'  OBVIOUS
<1>1. CASE UNCHANGED vars
  <2>1. /\ UNCHANGED <<category, product, handler, form, preview, revision, events>>
        /\ UNCHANGED cacheVars
    BY <1>1 DEF vars
  <2>2. events' \in 0..MaxEvents  BY <2>1 DEF CatalogueInv, CacheInv, CacheTypeOK
  <2>3. CacheInv'  BY <2>1, <2>2, CacheUntouched DEF CatalogueInv
  <2>4. Grows  BY <2>1 DEF Grows
  <2>5. FormsTyped' /\ FormsHeld'  BY <2>1, FormsUntouched
  <2>6. PreviewsSound' /\ PreviewIsFunction'  BY <2>1, <2>4, PreviewsStay DEF CatalogueInv
  <2> QED  BY <2>1, <2>3, <2>5, <2>6, AdminStep
<1> QED  BY <1>1, StepKept

LEMMA CatalogueInvariant == Spec => []CatalogueInv
  BY InitInv, CatalogueInvKept, PTL DEF Spec

-----------------------------------------------------------------------------
(* Results.                                                                *)

\* Every price that is stored is in its range and below its original price, and
\* every variable has its type (createProduct, setProductDiscount,
\* applyCategoryPercent, updateProduct).
THEOREM CatalogueTypeCorrect == Spec => []CatalogueTypeOK
  BY TypesHold, CatalogueInvariant, PTL

\* Every product has its category (deleteCategory against createProduct and
\* updateProduct, the foreign key).
THEOREM NoOrphanProductsAlways == Spec => []NoOrphanProducts
<1>1. CatalogueInv => NoOrphanProducts  BY DEF CatalogueInv
<1> QED  BY <1>1, CatalogueInvariant, PTL

\* What an isolate shows is at most one time to live old when a request arrives,
\* whatever reads fail, end late or are replaced (memo).
THEOREM FreshWithinTTLAlways == Spec => []FreshWithinTTL
<1>1. CatalogueInv => FreshWithinTTL
  <2> SUFFICES ASSUME CatalogueInv, NEW i \in Isolates, Served(i)
               PROVE  fetch[entry[i].fetch].data >= marks[TTL]
    BY DEF FreshWithinTTL
  <2>1. entry[i].left \in 0..TTL /\ entry[i].left > 0 /\ TTL \in Nat
    BY EntryTyped, CacheConstants DEF CatalogueInv, CacheInv, Served, Hit
  <2>2. Recent(i, entry[i].fetch)  BY DEF CatalogueInv, CacheInv, AnswersRecent, Served, Hit
  <2> QED  BY <2>1, <2>2 DEF Recent
<1> QED  BY <1>1, CatalogueInvariant, PTL

\* An isolate shows nothing older than the last write it has acknowledged
\* (invalidateCache against a read that is under way).
THEOREM ServesOwnWritesAlways == Spec => []ServesOwnWrites
<1>1. CatalogueInv => ServesOwnWrites
  BY DEF CatalogueInv, CacheInv, AnswersRecent, Recent, ServesOwnWrites, Served, Hit
<1> QED  BY <1>1, CatalogueInvariant, PTL

\* Which steps are writes.
WriteStep(h) ==
    \/ SetProductPrice(h) \/ SetProductDiscount(h) \/ RemoveProductDiscount(h)
    \/ ToggleProductAvailability(h) \/ UpdateProduct(h) \/ InsertProduct(h)
    \/ DeleteProduct(h) \/ ApplyCategoryPercent(h)
    \/ InsertCategory(h) \/ UpdateCategory(h) \/ DeleteCategory(h)

\* A handler moves by its own steps.
LEMMA OwnStep ==
    ASSUME CatalogueInv, NEW g \in Handlers, HandlerNext(g), NEW h \in Handlers \ {g}
    PROVE  handler'[h] = handler[h]
<1>1. ASSUME NEW pc, Goto(g, pc) PROVE \E y : Becomes(g, y)
  BY <1>1 DEF Goto, Becomes
<1>2. ASSUME NEW x, Begin(g, x) PROVE \E y : Becomes(g, y)
  BY <1>2 DEF Begin, Becomes
<1>3. ASSUME Catch(g) PROVE \E y : Becomes(g, y)
  BY <1>1, <1>3 DEF Catch, Becomes
<1>4. ASSUME NEW cats, NEW rows, Apply(g, cats, rows) PROVE \E y : Becomes(g, y)
  BY <1>1, <1>3, <1>4 DEF Apply
<1>5. ASSUME NEW x, Update(g, x) PROVE \E y : Becomes(g, y)
  BY <1>4, <1>5 DEF Update
<1>6. \E y : Becomes(g, y)
  <2>1. CASE \E i \in Isolates :
               \/ \E p \in Products : ChangeProduct(g, i, p)
               \/ \E p \in Products, c \in Categories : AddProduct(g, i, p, c)
               \/ \E c \in Categories : ChangeCategory(g, i, c)
               \/ \E a \in Panels : SaveForm(g, i, a)
               \/ \E b \in Chats : Confirm(g, i, b)
    <3>1. ASSUME NEW i, NEW p, ChangeProduct(g, i, p) PROVE \E x : Begin(g, x)
      BY <3>1 DEF ChangeProduct
    <3>2. ASSUME NEW i, NEW p, NEW c, AddProduct(g, i, p, c) PROVE \E x : Begin(g, x)
      BY <3>2 DEF AddProduct
    <3>3. ASSUME NEW i, NEW c, ChangeCategory(g, i, c) PROVE \E x : Begin(g, x)
      BY <3>3 DEF ChangeCategory
    <3>4. ASSUME NEW i, NEW a, SaveForm(g, i, a) PROVE \E y : Becomes(g, y)
      BY <3>4 DEF SaveForm, Begin, Becomes
    <3>5. ASSUME NEW i, NEW b, Confirm(g, i, b) PROVE \E x : Begin(g, x)
      BY <3>5 DEF Confirm
    <3> QED  BY <2>1, <3>1, <3>2, <3>3, <3>4, <3>5, <1>2
  <2>2. CASE Read(g) \/ Return(g) \/ ClearSession(g) \/ Fail(g)
    BY <1>1, <1>3, <2>2 DEF Read, Return, ClearSession, Fail, Becomes
  <2>3. CASE WriteStep(g)
    BY <2>3, <1>4, <1>5, <1>3, <1>1
    DEF WriteStep, SetProductPrice, SetProductDiscount, RemoveProductDiscount,
        ToggleProductAvailability, UpdateProduct, InsertProduct, DeleteProduct,
        ApplyCategoryPercent, InsertCategory, UpdateCategory, DeleteCategory
  <2> QED  BY <2>1, <2>2, <2>3 DEF HandlerNext, WriteStep
<1> QED  BY <1>6 DEF Becomes, CatalogueInv, HandlersFit

LEMMA CaughtPc ==
    ASSUME CatalogueInv, NEW h \in Handlers, Catch(h) PROVE handler'[h].pc # "return"
<1>1. CASE handler[h].kind = "bulk"
  <2>1. PICK y \in Running : Becomes(h, y) /\ y.pc = "clear"  BY <1>1, GotoFit DEF Catch
  <2> QED  BY <2>1 DEF Becomes, CatalogueInv, HandlersFit
<1>2. CASE handler[h].kind # "bulk"
  BY <1>2 DEF Catch, Idle, CatalogueInv, HandlersFit
<1> QED  BY <1>1, <1>2

LEMMA WritesAre ==
    ASSUME CatalogueInv, [Next]_vars, NEW h \in Handlers, Writes(h) PROVE WriteStep(h)
<1>1. At(h, "write") /\ handler'[h].pc = "return"  BY DEF Writes
<1>2. handler'[h] # handler[h]  BY <1>1 DEF At
<1>3. PICK g \in Handlers : HandlerNext(g)
  BY <1>2 DEF Next, AdminNext, OpenForm, CloseForm, Preview, CancelPreview, vars
<1>4. HandlerNext(h)  BY <1>2, <1>3, OwnStep
<1>5. ~At(h, "idle") /\ ~At(h, "read") /\ ~At(h, "return") /\ ~At(h, "clear")  BY <1>1 DEF At
<1>6. ~Fail(h)
  <2>1. ~Catch(h)  BY <1>1, CaughtPc
  <2>2. handler' # [handler EXCEPT ![h] = Idle]
    BY <1>1 DEF Idle, CatalogueInv, HandlersFit
  <2> QED  BY <2>1, <2>2 DEF Fail
<1>7. ~\E i \in Isolates :
               \/ \E p \in Products : ChangeProduct(h, i, p)
               \/ \E p \in Products, c \in Categories : AddProduct(h, i, p, c)
               \/ \E c \in Categories : ChangeCategory(h, i, c)
               \/ \E a \in Panels : SaveForm(h, i, a)
               \/ \E b \in Chats : Confirm(h, i, b)
  <2>1. \A x : ~Begin(h, x)  BY <1>5 DEF Begin
  <2>2. \A i, p : ~ChangeProduct(h, i, p)  BY <2>1 DEF ChangeProduct
  <2>3. \A i, p, c : ~AddProduct(h, i, p, c)  BY <2>1 DEF AddProduct
  <2>4. \A i, c : ~ChangeCategory(h, i, c)  BY <2>1 DEF ChangeCategory
  <2>5. \A i, a : ~SaveForm(h, i, a)  BY <2>1 DEF SaveForm
  <2>6. \A i, b : ~Confirm(h, i, b)  BY <2>1 DEF Confirm
  <2> QED  BY <2>2, <2>3, <2>4, <2>5, <2>6
<1> QED
  BY <1>4, <1>5, <1>6, <1>7 DEF HandlerNext, WriteStep, Read, Return, ClearSession

LEMMA Applied ==
    ASSUME CatalogueInv, NEW h \in Handlers, Writes(h), NEW cats, NEW rows, Apply(h, cats, rows)
    PROVE  product' = rows
<1>1. handler'[h].pc = "return"  BY DEF Writes
<1>2. ~Catch(h)  BY <1>1, CaughtPc
<1> QED  BY <1>2 DEF Apply

\* The row of an UPDATE that took effect.
LEMMA Updated ==
    ASSUME CatalogueInv, NEW h \in Handlers, Writes(h), NEW x, Update(h, x),
           handler[h].id \in Products
    PROVE  HasProduct(handler[h].id) => product'[handler[h].id] = x
<1>1. PICK rows : rows = IF HasProduct(handler[h].id)
                         THEN [product EXCEPT ![handler[h].id] = x] ELSE product
  OBVIOUS
<1>2. PICK cats : cats = category  OBVIOUS
<1>3. Apply(h, cats, rows)  BY <1>1, <1>2 DEF Update
<1>4. product' = rows  BY <1>3, Applied
<1> QED  BY <1>1, <1>4 DEF CatalogueInv, StoreTyped

\* ApplyCategoryPercent is the only write of a confirmation.
LEMMA BulkStep ==
    ASSUME CatalogueInv, [Next]_vars, NEW h \in Handlers, Writes(h), handler[h].kind = "bulk"
    PROVE  product' = Batch(h)
<1>1. ApplyCategoryPercent(h)
  BY WritesAre
  DEF WriteStep, SetProductPrice, SetProductDiscount, RemoveProductDiscount,
      ToggleProductAvailability, UpdateProduct, InsertProduct, DeleteProduct,
      InsertCategory, UpdateCategory, DeleteCategory
<1>2. PICK rows : rows = Batch(h)  OBVIOUS
<1>3. PICK cats : cats = category  OBVIOUS
<1>4. Apply(h, cats, rows)  BY <1>1, <1>2, <1>3 DEF ApplyCategoryPercent, Batch
<1> QED  BY <1>2, <1>4, Applied

\* A confirmed change goes from the previewed prices to the previewed prices
\* (applyCategoryPercent), unless a price changes after its check.
THEOREM BulkAsPreviewedAlways == Spec => BulkAsPreviewed
<1>1. ASSUME CatalogueInv, [Next]_vars, NEW h \in Handlers, Writes(h), handler[h].kind = "bulk",
             NEW p \in DOMAIN handler[h].plan, product[p] = handler[h].seen[p]
      PROVE  /\ product[p].price = handler[h].plan[p].was.price
             /\ product'[p].price = handler[h].plan[p].price
  <2>1. At(h, "write")  BY <1>1 DEF Writes
  <2>2. Listed(p)  BY <1>1, <2>1, BulkTyped
  <2>3. product[p] \in Rows /\ product[p].price = handler[h].plan[p].was.price
    BY <1>1, <2>1, WriterFit DEF Known
  <2>4. HasProduct(p) /\ p \in Products  BY <2>2, <2>3, RowsDiffer DEF HasProduct, Listed
  <2>5. product'[p] = Priced(product[p], BulkPair(handler[h].seen[p], handler[h].percent,
                                                  handler[h].plan[p].price))
    BY <1>1, <2>4, BulkStep DEF Batch
  <2> QED  BY <1>1, <2>1, <2>3, <2>5, BulkTyped, PricedTyped
<1>2. CatalogueInv /\ [Next]_vars =>
        [\A h \in Handlers : Writes(h) /\ handler[h].kind = "bulk" =>
          \A p \in DOMAIN handler[h].plan :
              product[p] = handler[h].seen[p] =>
                  /\ product[p].price = handler[h].plan[p].was.price
                  /\ product'[p].price = handler[h].plan[p].price]_vars
  BY <1>1
<1> QED  BY <1>2, CatalogueInvariant, PTL DEF Spec, BulkAsPreviewed

\* A discount, its removal, a discount of a category and a save of an untouched
\* form leave the base price where it is (setProductDiscount,
\* removeProductDiscount, applyCategoryPercent, updateProduct), unless the price
\* has changed since it was read.
Kept(p, y) ==
    product[p] # Gone /\ Pair(product[p].price, product[p].original) = Pair(y.price, y.original)
        => Base(product'[p]) = Base(y)

KeepsBaseStep(h) ==
    LET x == handler[h]
    IN  CASE x.kind \in {"discount", "rmdiscount"} -> Kept(x.id, x.seen[x.id])
          [] x.kind = "keep" -> Kept(x.id, x)
          [] x.kind = "bulk" /\ x.percent < 0 ->
                \A p \in DOMAIN x.plan : x.seen[p] = x.plan[p].was => Kept(p, x.seen[p])
          [] OTHER -> TRUE

LEMMA ListedHere ==
    ASSUME CatalogueInv, NEW p, Listed(p), product[p] # Gone
    PROVE  p \in Products /\ HasProduct(p) /\ product[p] \in Rows
  BY ListedRow DEF Listed, HasProduct

LEMMA BaseKept ==
    ASSUME CatalogueInv, [Next]_vars, NEW h \in Handlers, Writes(h)
    PROVE  KeepsBaseStep(h)
<1>1. PICK x : x = handler[h]  OBVIOUS
<1>2. At(h, "write")  BY DEF Writes
<1>3. Asked(x) /\ Known(x) /\ x \in Running  BY <1>1, <1>2, WriterFit
<1>4. CASE x.kind = "discount"
  <2> SUFFICES ASSUME product[x.id] # Gone PROVE Base(product'[x.id]) = Base(x.seen[x.id])
    BY <1>1, <1>4 DEF KeepsBaseStep, Kept
  <2>1. x.id \in Products /\ HasProduct(x.id) /\ product[x.id] \in Rows
    BY <1>3, <1>4, ListedHere DEF Asked
  <2>2. SetProductDiscount(h)
    BY <1>1, <1>4, WritesAre
    DEF WriteStep, SetProductPrice, RemoveProductDiscount, ToggleProductAvailability,
        UpdateProduct, InsertProduct, DeleteProduct, ApplyCategoryPercent,
        InsertCategory, UpdateCategory, DeleteCategory
  <2>3. PICK z : z = Priced(product[x.id], DiscountPair(x.seen[x.id], x.percent))  OBVIOUS
  <2>4. Update(h, z)  BY <1>1, <2>2, <2>3 DEF SetProductDiscount
  <2>5. product'[x.id] = z  BY <1>1, <2>1, <2>4, Updated
  <2>6. x.seen[x.id] \in Rows /\ x.percent \in 1..99  BY <1>3, <1>4 DEF Asked, Known
  <2>7. /\ DiscountPair(x.seen[x.id], x.percent) \in Pairs
        /\ Base(DiscountPair(x.seen[x.id], x.percent)) = Base(x.seen[x.id])
    BY <2>6, DiscountTyped
  <2> QED  BY <2>1, <2>3, <2>5, <2>7, PricedTyped
<1>5. CASE x.kind = "rmdiscount"
  <2> SUFFICES ASSUME product[x.id] # Gone PROVE Base(product'[x.id]) = Base(x.seen[x.id])
    BY <1>1, <1>5 DEF KeepsBaseStep, Kept
  <2>1. x.id \in Products /\ HasProduct(x.id) /\ product[x.id] \in Rows
    BY <1>3, <1>5, ListedHere DEF Asked
  <2>2. RemoveProductDiscount(h)
    BY <1>1, <1>5, WritesAre
    DEF WriteStep, SetProductPrice, SetProductDiscount, ToggleProductAvailability,
        UpdateProduct, InsertProduct, DeleteProduct, ApplyCategoryPercent,
        InsertCategory, UpdateCategory, DeleteCategory
  <2>3. PICK z : z = Priced(product[x.id], Pair(x.seen[x.id].original, 0))  OBVIOUS
  <2>4. Update(h, z)  BY <1>1, <2>2, <2>3 DEF RemoveProductDiscount
  <2>5. product'[x.id] = z  BY <1>1, <2>1, <2>4, Updated
  <2>6. x.seen[x.id] \in Rows /\ x.seen[x.id].original # 0  BY <1>3, <1>5 DEF Known
  <2>7. x.seen[x.id].original \in Prices  BY <2>6, RowFields, PriceConstants DEF Prices
  <2>8. Pair(x.seen[x.id].original, 0) \in Pairs /\ Base(Pair(x.seen[x.id].original, 0)) = x.seen[x.id].original
    BY <2>7, PriceConstants, PairTyped DEF Base
  <2> QED  BY <2>1, <2>3, <2>5, <2>6, <2>8, PricedTyped DEF Base
<1>6. CASE x.kind = "keep"
  <2> SUFFICES ASSUME product[x.id] # Gone PROVE Base(product'[x.id]) = Base(x)
    BY <1>1, <1>6 DEF KeepsBaseStep, Kept
  <2>1. x.id \in Products /\ HasProduct(x.id)  BY <1>3, <1>6, ListedHere DEF Asked
  <2>2. UpdateProduct(h)
    BY <1>1, <1>6, WritesAre
    DEF WriteStep, SetProductPrice, SetProductDiscount, RemoveProductDiscount,
        ToggleProductAvailability, InsertProduct, DeleteProduct, ApplyCategoryPercent,
        InsertCategory, UpdateCategory, DeleteCategory
  <2>3. PICK z : z = Row(x.cat, SavedPair(x.price, x.original, x.percent))  OBVIOUS
  <2>4. Update(h, z)  BY <1>1, <2>2, <2>3 DEF UpdateProduct
  <2>5. product'[x.id] = z  BY <1>1, <2>1, <2>4, Updated
  <2> QED  BY <1>1, <1>2, <1>6, <2>3, <2>5, SavedTyped, RowTyped
<1>7. CASE x.kind = "bulk" /\ x.percent < 0
  <2> SUFFICES ASSUME NEW p \in DOMAIN x.plan, x.seen[p] = x.plan[p].was, product[p] # Gone
               PROVE  Base(product'[p]) = Base(x.seen[p])
    BY <1>1, <1>7 DEF KeepsBaseStep, Kept
  <2>1. PICK z : z = BulkPair(x.seen[p], x.percent, x.plan[p].price)  OBVIOUS
  <2>2. Listed(p) /\ z \in Pairs /\ Base(z) = Base(x.seen[p])
    BY <1>1, <1>2, <1>7, <2>1, BulkTyped
  <2>3. p \in Products /\ HasProduct(p) /\ product[p] \in Rows  BY <2>2, ListedHere
  <2>4. product'[p] = Priced(product[p], z)
    BY <1>1, <1>7, <2>1, <2>3, BulkStep DEF Batch
  <2> QED  BY <2>2, <2>3, <2>4, PricedTyped
<1>8. CASE x.kind \notin {"discount", "rmdiscount", "keep"} /\ ~(x.kind = "bulk" /\ x.percent < 0)
  BY <1>1, <1>8 DEF KeepsBaseStep
<1> QED  BY <1>4, <1>5, <1>6, <1>7, <1>8

\* Taking a discount off and putting it on never moves the base price of a product
\* (setProductDiscount, removeProductDiscount, applyCategoryPercent, updateProduct),
\* unless its price has changed since it was read.
THEOREM KeepsBaseAlways == Spec => KeepsBase
<1>1. CatalogueInv /\ [Next]_vars => [\A h \in Handlers : Writes(h) => KeepsBaseStep(h)]_vars
  BY BaseKept
<1>2. (\A h \in Handlers : Writes(h) => KeepsBaseStep(h)) =>
        \A h \in Handlers : Writes(h) =>
          LET x == handler[h]
              kept(p, y) == product[p] # Gone /\ Pair(product[p].price, product[p].original)
                                                  = Pair(y.price, y.original)
                            => Base(product'[p]) = Base(y)
          IN  CASE x.kind \in {"discount", "rmdiscount"} -> kept(x.id, x.seen[x.id])
                [] x.kind = "keep" -> kept(x.id, x)
                [] x.kind = "bulk" /\ x.percent < 0 ->
                      \A p \in DOMAIN x.plan : x.seen[p] = x.plan[p].was => kept(p, x.seen[p])
                [] OTHER -> TRUE
  BY DEF KeepsBaseStep, Kept
<1> QED  BY <1>1, <1>2, CatalogueInvariant, PTL DEF Spec, KeepsBase
=============================================================================
