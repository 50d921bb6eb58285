---------------------------- MODULE PanelProofs ----------------------------
(***************************************************************************)
(* Proofs about Panel, for every number of tokens, of requests under way,  *)
(* of orders and of things that people do.                                 *)
(***************************************************************************)
EXTENDS Panel, FiniteSetTheorems, SequenceTheorems, WellFoundedInduction, TLAPS

-----------------------------------------------------------------------------
(* Requests.                                                               *)

Versions == 0..(2 * MaxOrders)

\* Requests whose orders and rows are of B and R: what they are is left open.
Packets(B, R) ==
    [pc : {"free", "sent", "counted", "served"}, kind : Kinds \cup {None},
     token : Tokens \cup {NoToken}, before : B, status : Passed \cup {"refused", None}, rows : R,
     at : Versions, summary : Summary, issued : Tokens \cup {NoToken}]

Summaries == Under("summary")

LEMMA NoneDiffers == None \notin Kinds /\ None # "ok" /\ None # "unread" /\ None # "refused"
  BY PanelAssumption

LEMMA BoundsTyped == MaxOrders \in Nat /\ MaxEvents \in Nat /\ IsFiniteSet(Slots)
  BY PanelAssumption

LEMMA RequestFields ==
    ASSUME NEW k, NEW t
    PROVE  /\ Request(k, t).pc = "sent" /\ Request(k, t).kind = k /\ Request(k, t).status = None
           /\ NoRequest.pc = "free" /\ NoRequest.kind = None /\ NoRequest.status = None
  BY DEF Request, NoRequest

LEMMA RequestTyped ==
    ASSUME NEW B, NEW R, 0 \in B, <<>> \in R, NEW t \in Tokens \cup {NoToken}, NEW k \in Kinds
    PROVE  NoRequest \in Packets(B, R) /\ Request(k, t) \in Packets(B, R)
<1>1. NoSummary \in Summary /\ 0 \in Versions  BY BoundsTyped DEF NoSummary, Summary, Versions
<1>2. NoRequest \in Packets(B, R)  BY <1>1 DEF NoRequest, Packets
<1> QED  BY <1>2 DEF Request, Packets

\* What Post does: the calls take slots of their own, which are free or given up.
Places(to, gone, calls) ==
    /\ to \in [calls -> {s \in Slots : net[s].pc = "free"} \cup gone]
    /\ \A c, d \in calls : c # d => to[c] # to[d]
    /\ net' = [s \in Slots |-> net'[s]]
    /\ \A c \in calls : net'[to[c]] = c
    /\ \A s \in Slots : (\A c \in calls : to[c] # s) =>
          net'[s] = IF s \in gone THEN NoRequest ELSE net[s]

LEMMA Posted ==
    ASSUME NEW gone \in SUBSET Slots, NEW calls, Post(gone, calls)
    PROVE  \E to : Places(to, gone, calls)
<1>1. PICK to \in [calls -> {s \in Slots : net[s].pc = "free"} \cup gone] :
        /\ \A c, d \in calls : c # d => to[c] # to[d]
        /\ net' = [s \in Slots |->
                     IF \E c \in calls : to[c] = s THEN CHOOSE c \in calls : to[c] = s
                     ELSE IF s \in gone THEN NoRequest
                     ELSE net[s]]
  BY DEF Post
<1>2. net' = [s \in Slots |-> net'[s]]  BY <1>1
<1>3. ASSUME NEW c \in calls PROVE net'[to[c]] = c
  <2>1. to[c] \in Slots  BY <1>1
  <2>2. net'[to[c]] = CHOOSE d \in calls : to[d] = to[c]  BY <1>1, <2>1
  <2>3. (CHOOSE d \in calls : to[d] = to[c]) = c  BY <1>1
  <2> QED  BY <2>2, <2>3
<1>4. \A s \in Slots : (\A c \in calls : to[c] # s) =>
                   net'[s] = IF s \in gone THEN NoRequest ELSE net[s]
  BY <1>1
<1> QED  BY <1>1, <1>2, <1>3, <1>4 DEF Places

\* Every slot holds a call, nothing, or what it held before.
LEMMA PostedEach ==
    ASSUME NEW gone \in SUBSET Slots, NEW calls, Post(gone, calls)
    PROVE  /\ net' = [s \in Slots |-> net'[s]]
           /\ \A s \in Slots : \/ net'[s] \in calls
                               \/ net'[s] = NoRequest
                               \/ s \notin gone /\ net'[s] = net[s]
<1>1. PICK to : Places(to, gone, calls)  BY Posted
<1> QED  BY <1>1 DEF Places

\* The summaries under way after calls of some kinds.
LEMMA PostedSummaries ==
    ASSUME NEW gone \in SUBSET Slots, NEW kinds \in SUBSET Kinds, NEW t,
           Post(gone, Calls(kinds, t)),
           \A s \in Slots : net[s].pc = "free" => net[s].kind = None
    PROVE  /\ "summary" \notin kinds => Summaries' = Summaries \ gone
           /\ "summary" \in kinds =>
                 \E x \in Slots \ (Summaries \ gone) : Summaries' = (Summaries \ gone) \cup {x}
<1> DEFINE calls == Calls(kinds, t)
<1>0. PICK to : Places(to, gone, calls)  BY Posted
<1>1. /\ to \in [calls -> {s \in Slots : net[s].pc = "free"} \cup gone]
      /\ \A c, d \in calls : c # d => to[c] # to[d]
      /\ \A c \in calls : net'[to[c]] = c
      /\ \A s \in Slots : (\A c \in calls : to[c] # s) =>
            net'[s] = IF s \in gone THEN NoRequest ELSE net[s]
  BY <1>0 DEF Places
<1>2. \A c \in calls : \E k \in kinds : c = Request(k, t) /\ c.kind = k  BY RequestFields DEF Calls
<1>3. \A c \in calls : to[c] \in Slots /\ to[c] \notin Summaries \ gone
  BY <1>1, NoneDiffers DEF Summaries, Under, Kinds
<1>4. \A s \in Slots : (\A c \in calls : to[c] # s) =>
        (net'[s].kind = "summary" <=> s \in Summaries \ gone)
  BY <1>1, RequestFields, NoneDiffers DEF Summaries, Under, Kinds
<1>5. CASE "summary" \notin kinds
  <2>1. \A c \in calls : net'[to[c]].kind # "summary"  BY <1>1, <1>2, <1>5
  <2>2. \A s \in Slots : net'[s].kind = "summary" <=> s \in Summaries \ gone
    BY <2>1, <1>3, <1>4
  <2>3. Summaries' = {s \in Slots : net'[s].kind = "summary"}  BY DEF Summaries, Under
  <2> QED  BY <2>2, <2>3, <1>5 DEF Summaries, Under
<1>6. CASE "summary" \in kinds
  <2> DEFINE x == to[Request("summary", t)]
  <2>1. Request("summary", t) \in calls  BY <1>6 DEF Calls
  <2>2. x \in Slots \ (Summaries \ gone)  BY <2>1, <1>3
  <2>3. net'[x].kind = "summary"  BY <2>1, <1>1, RequestFields
  <2>4. \A c \in calls : net'[to[c]].kind = "summary" => to[c] = x  BY <1>1, <1>2
  <2>5. \A s \in Slots : net'[s].kind = "summary" <=> s \in (Summaries \ gone) \cup {x}
    BY <2>3, <2>4, <1>3, <1>4
  <2>6. Summaries' = {s \in Slots : net'[s].kind = "summary"}  BY DEF Summaries, Under
  <2>7. Summaries' = (Summaries \ gone) \cup {x}  BY <2>2, <2>5, <2>6 DEF Summaries, Under
  <2> QED  BY <2>2, <2>7, <1>6
<1> QED  BY <1>5, <1>6

LEMMA PostedTyped ==
    ASSUME NEW B, NEW R, 0 \in B, <<>> \in R, net \in [Slots -> Packets(B, R)],
           NEW gone \in SUBSET Slots, NEW kinds \in SUBSET Kinds, NEW t \in Tokens \cup {NoToken},
           Post(gone, Calls(kinds, t))
    PROVE  net' \in [Slots -> Packets(B, R)]
<1>1. Calls(kinds, t) \subseteq Packets(B, R)  BY RequestTyped DEF Calls
<1>2. NoRequest \in Packets(B, R)  BY RequestTyped DEF Kinds
<1>3. /\ net' = [s \in Slots |-> net'[s]]
      /\ \A s \in Slots : \/ net'[s] \in Calls(kinds, t)
                          \/ net'[s] = NoRequest
                          \/ s \notin gone /\ net'[s] = net[s]
  BY PostedEach
<1>4. \A s \in Slots : net'[s] \in Packets(B, R)  BY <1>1, <1>2, <1>3
<1> QED  BY <1>3, <1>4

-----------------------------------------------------------------------------
(* The poll.                                                               *)

PollType == [active : BOOLEAN, timer : BOOLEAN, busy : BOOLEAN, queued : BOOLEAN,
             base : Summary \cup {None}]

\* What a tick leaves: a request is made when none is under way for the poll.
Ticks(p, loggedIn, r) ==
    /\ r.poll \in PollType /\ r.poll.active = p.active /\ r.poll.base = p.base
    /\ r.calls \in SUBSET {"summary"}
    /\ r.calls # {} => ~p.busy /\ r.poll.busy
    /\ r.calls = {} => r.poll.busy = p.busy
    /\ p.active /\ loggedIn => r.poll.busy

LEMMA TickGives ==
    ASSUME NEW p \in PollType, NEW l \in BOOLEAN
    PROVE  Ticks(p, l, Tick(p, l))
  BY DEF Ticks, Tick, PollType

LEMMA TimerGives ==
    ASSUME NEW p \in PollType, NEW l \in BOOLEAN
    PROVE  Ticks(p, l, Tick([p EXCEPT !.timer = FALSE], l))
<1> DEFINE q == [p EXCEPT !.timer = FALSE]
<1>1. q \in PollType /\ q.active = p.active /\ q.base = p.base /\ q.busy = p.busy  BY DEF PollType
<1>2. Ticks(q, l, Tick(q, l))  BY <1>1, TickGives
<1> QED  BY <1>1, <1>2 DEF Ticks

LEMMA PollNowGives ==
    ASSUME NEW p \in PollType, NEW l \in BOOLEAN
    PROVE  Ticks(p, l, PollNow(p, l))
<1>3. CASE p.active /\ l
  <2>1. PollNow(p, l) = Tick([p EXCEPT !.timer = FALSE], l)  BY <1>3 DEF PollNow
  <2> QED  BY <2>1, TimerGives
<1>4. CASE ~(p.active /\ l)  BY <1>4 DEF PollNow, Ticks
<1> QED  BY <1>3, <1>4

\* What the end of a request leaves: another one, or the timer.
LEMMA AfterwardsGives ==
    ASSUME NEW p \in PollType, NEW l \in BOOLEAN
    PROVE  LET r == Afterwards(p, l) IN
             /\ r.poll \in PollType /\ r.poll.active = p.active /\ r.poll.base = p.base
             /\ r.calls \in SUBSET {"summary"}
             /\ r.calls # {} <=> r.poll.busy
             /\ p.active /\ l => r.poll.timer \/ r.poll.busy
             /\ ~l => ~r.poll.busy
<1> DEFINE q == [p EXCEPT !.busy = FALSE, !.queued = FALSE]
<1>1. q \in PollType /\ q.active = p.active /\ q.base = p.base /\ ~q.busy  BY DEF PollType
<1>2. Ticks(q, l, Tick(q, l))  BY <1>1, TickGives
<1>3. CASE p.queued
  <2>1. Afterwards(p, l) = Tick(q, l)  BY <1>3 DEF Afterwards
  <2>2. ~l => Tick(q, l).poll = q  BY DEF Tick
  <2> QED  BY <2>1, <2>2, <1>1, <1>2 DEF Ticks
<1>4. CASE ~p.queued  BY <1>4 DEF Afterwards, PollType
<1> QED  BY <1>3, <1>4

LEMMA StartedStopped ==
    ASSUME NEW p \in PollType
    PROVE  /\ Started(p) \in PollType /\ Started(p).active /\ Started(p).busy = p.busy
           /\ Started(p).base = p.base /\ (Started(p).timer \/ p.active)
           /\ (p.active => Started(p) = p)
           /\ Stopped(p) \in PollType /\ ~Stopped(p).active /\ ~Stopped(p).busy
           /\ Stopped(p).base = p.base
  BY DEF Started, Stopped, PollType

-----------------------------------------------------------------------------
(* The inductive invariant.                                                *)

NoteType == [asked : Nat, shown : Nat, lost : BOOLEAN, doubt : BOOLEAN, strays : Nat]

USE DEF NoteType

Typed ==
    /\ db \in [latest : 0..MaxOrders, pending : 0..MaxOrders] /\ db.pending <= db.latest
    /\ cookie \in Tokens \cup {NoToken}
    /\ page \in [screen : {"boot", "login", "app"}, loggedIn : BOOLEAN, tab : Tabs]
    /\ poll \in PollType
    /\ note \in NoteType

NetTyped ==
    /\ \E B, R : 0 \in B /\ <<>> \in R /\ net \in [Slots -> Packets(B, R)]
    /\ \A s \in Slots : net[s].pc = "free" => net[s].kind = None

\* A session has a poll, whose flag busy stands for one of the summaries under
\* way; the rest were there when the polling was last stopped.
Polled ==
    /\ page.loggedIn = poll.active
    /\ poll.busy => Summaries # {}
    /\ page.loggedIn => poll.timer \/ Summaries # {}
    /\ Cardinality(Summaries) <= note.strays + (IF poll.busy THEN 1 ELSE 0)

\* A summary that is not torn tells the state of its version.
Tells(x) == x.at <= Version /\ (~x.torn => x.at = 2 * x.latest - x.pending)

Told ==
    /\ \A s \in Slots :
          /\ net[s].pc = "counted" =>
                /\ net[s].kind = "summary" /\ net[s].status \in Passed
                /\ net[s].summary.at <= Version
                /\ net[s].summary.at = Version => net[s].summary.pending = db.pending
          /\ net[s].pc = "served" /\ net[s].kind = "summary" /\ net[s].status \in Passed =>
                Tells(net[s].summary)
    /\ poll.base # None => Tells(poll.base)

\* What the last summary counts had happened when a list was last asked for.
AsksAgain ==
    page.loggedIn /\ page.tab # "other" /\ poll.base # None /\ ~note.doubt
        => poll.base.at <= note.asked

\* A revocation lasts until its token has expired.
AuthInv ==
    /\ now \in Nat /\ expiry \in [Tokens -> Int] /\ revoked \in [Tokens -> Int]
    /\ loggedOut \subseteq Tokens
    /\ \A t \in loggedOut : expiry[t] >= 0 /\ revoked[t] >= 2 * expiry[t]

PanelInv == Typed /\ NetTyped /\ Polled /\ Told /\ AsksAgain /\ AuthInv

LEMMA Widened ==
    ASSUME NEW B, NEW R, NEW C, NEW Q, B \subseteq C, R \subseteq Q
    PROVE  Packets(B, R) \subseteq Packets(C, Q)
  BY DEF Packets

LEMMA VersionTyped ==
    ASSUME Typed PROVE Version \in 0..(2 * MaxOrders)
  BY BoundsTyped DEF Typed, Version

LEMMA VersionIn == ASSUME Typed PROVE Version \in Versions /\ 0 \in Versions
  BY VersionTyped, BoundsTyped DEF Versions

LEMMA FiniteSummaries == IsFiniteSet(Summaries) /\ Cardinality(Summaries) \in Nat
<1>1. Summaries \subseteq Slots  BY DEF Summaries, Under
<1> QED  BY <1>1, BoundsTyped, FS_Subset, FS_CardinalityType

-----------------------------------------------------------------------------
(* Initially.                                                              *)

LEMMA InitInv == Init => PanelInv
<1> SUFFICES ASSUME Init PROVE PanelInv  OBVIOUS
<1>1. PICK s \in Slots : net = [t \in Slots |-> IF t = s THEN Request("me", cookie) ELSE NoRequest]
  BY DEF Init
<1>2. \A t \in Slots : \/ net[t] = Request("me", cookie)
                       \/ net[t] = NoRequest
  BY <1>1
<1>3. \A t \in Slots : /\ net[t].kind # "summary" /\ net[t].pc \in {"sent", "free"}
                       /\ net[t].pc = "free" => net[t].kind = None
  BY <1>2, RequestFields, NoneDiffers DEF Kinds
<1>4. Summaries = {}  BY <1>3 DEF Summaries, Under
<1>5. Typed
  <2>1. db \in [latest : 0..MaxOrders, pending : 0..MaxOrders] /\ db.pending <= db.latest
    BY PanelAssumption DEF Init
  <2> QED  BY <2>1 DEF Init, Typed, PollType, Tabs
<1>6. NetTyped
  <2>1. cookie \in Tokens \cup {NoToken} /\ "me" \in Kinds  BY DEF Init, Kinds
  <2>2. net \in [Slots -> Packets({0}, {<<>>})]
    <3>1. NoRequest \in Packets({0}, {<<>>}) /\ Request("me", cookie) \in Packets({0}, {<<>>})
      BY <2>1, RequestTyped
    <3> QED  BY <1>1, <3>1
  <2> QED  BY <2>2, <1>3 DEF NetTyped
<1>7. Polled
  <2>1. Cardinality(Summaries) = 0  BY <1>4, FS_EmptySet
  <2> QED  BY <2>1 DEF Init, Polled
<1>8. Told  BY <1>3 DEF Told, Init
<1>9. AsksAgain  BY DEF Init, AsksAgain
<1>10. AuthInv  BY AuthAssumption DEF Init, AuthInit, AuthInv
<1> QED  BY <1>5, <1>6, <1>7, <1>8, <1>9, <1>10 DEF PanelInv

-----------------------------------------------------------------------------
(* What a step may do to the poll.                                         *)

Untouched ==
    /\ page'.loggedIn = page.loggedIn /\ poll' = poll
    /\ note'.strays = note.strays /\ Summaries' = Summaries

\* A tick of the poll, which is kept in any case.
Poked ==
    /\ page'.loggedIn = page.loggedIn /\ note'.strays = note.strays
    /\ poll'.active = poll.active
    /\ \/ poll'.busy = poll.busy /\ Summaries' = Summaries
       \/ /\ ~poll.busy /\ poll'.busy
          /\ \E x \in Slots \ Summaries : Summaries' = Summaries \cup {x}
    /\ poll.active => poll'.busy

\* A summary is over, and the poll has gone on.
Ended(s) ==
    /\ s \in Summaries
    /\ page'.loggedIn = page.loggedIn /\ note'.strays = note.strays
    /\ poll'.active = poll.active
    /\ \/ ~poll'.busy /\ Summaries' = Summaries \ {s}
       \/ /\ poll'.busy
          /\ \E x \in Slots \ (Summaries \ {s}) : Summaries' = (Summaries \ {s}) \cup {x}
    /\ poll.active => poll'.timer \/ poll'.busy

Halted ==
    /\ ~page'.loggedIn /\ ~poll'.active /\ ~poll'.busy
    /\ note'.strays = Cardinality(Summaries')

Resumed ==
    /\ page'.loggedIn /\ poll'.active /\ poll'.busy = poll.busy
    /\ poll'.timer \/ (poll.active /\ poll'.timer = poll.timer)
    /\ note'.strays = note.strays /\ Summaries' = Summaries

PollMoves ==
    \/ Untouched \/ Poked \/ Halted \/ Resumed
    \/ \E s \in Slots : Ended(s)

LEMMA OneMore ==
    ASSUME NEW U, IsFiniteSet(U), NEW x, x \notin U
    PROVE  Cardinality(U \cup {x}) = Cardinality(U) + 1 /\ Cardinality(U) \in Nat
  BY FS_AddElement, FS_CardinalityType

LEMMA OneLess ==
    ASSUME NEW U, IsFiniteSet(U), NEW x \in U
    PROVE  /\ Cardinality(U \ {x}) = Cardinality(U) - 1 /\ Cardinality(U) \in Nat \ {0}
           /\ IsFiniteSet(U \ {x})
<1>1. Cardinality(U \ {x}) = Cardinality(U) - 1 /\ IsFiniteSet(U \ {x})  BY FS_RemoveElement
<1>2. Cardinality(U \ {x}) \in Nat /\ Cardinality(U) \in Nat  BY <1>1, FS_CardinalityType
<1> QED  BY <1>1, <1>2

LEMMA PolledKept ==
    ASSUME Typed, Typed', Polled, PollMoves PROVE Polled'
<1>1. IsFiniteSet(Summaries) /\ Cardinality(Summaries) \in Nat  BY FiniteSummaries
<1>2. PICK U : U = Summaries  OBVIOUS
<1>3. PICK V : V = Summaries'  OBVIOUS
<1>4. PICK m \in Nat, n \in Nat : m = note.strays /\ n = note'.strays  BY DEF Typed
<1>5. /\ page.loggedIn \in BOOLEAN /\ page'.loggedIn \in BOOLEAN /\ poll \in PollType /\ poll' \in PollType
  BY DEF Typed
<1>6. /\ page.loggedIn = poll.active
      /\ poll.busy => U # {}
      /\ page.loggedIn => poll.timer \/ U # {}
      /\ Cardinality(U) <= m + (IF poll.busy THEN 1 ELSE 0)
  BY <1>2, <1>4 DEF Polled
<1>7. SUFFICES /\ page'.loggedIn = poll'.active
               /\ poll'.busy => V # {}
               /\ page'.loggedIn => poll'.timer \/ V # {}
               /\ Cardinality(V) <= n + (IF poll'.busy THEN 1 ELSE 0)
  BY <1>3, <1>4 DEF Polled
<1>8. CASE Untouched  BY <1>2, <1>3, <1>4, <1>6, <1>8 DEF Untouched
<1>9. CASE Poked
  <2>1. CASE poll'.busy = poll.busy /\ V = U
    BY <2>1, <1>4, <1>6, <1>9 DEF Poked
  <2>2. ASSUME ~poll.busy, poll'.busy, NEW x \in Slots \ U, V = U \cup {x}
        PROVE  /\ V # {} /\ Cardinality(V) <= n + 1
    <3>1. Cardinality(V) = Cardinality(U) + 1  BY <2>2, <1>1, <1>2, OneMore
    <3> QED  BY <3>1, <2>2, <1>1, <1>2, <1>4, <1>6, <1>9 DEF Poked
  <2> QED  BY <2>1, <2>2, <1>2, <1>3, <1>6, <1>9 DEF Poked
<1>10. ASSUME NEW s \in Slots, Ended(s)
       PROVE  /\ page'.loggedIn = poll'.active
              /\ poll'.busy => V # {}
              /\ page'.loggedIn => poll'.timer \/ V # {}
              /\ Cardinality(V) <= n + (IF poll'.busy THEN 1 ELSE 0)
  <2>1. PICK W : W = U \ {s}  OBVIOUS
  <2>2. s \in U  BY <1>2, <1>10 DEF Ended
  <2>3. Cardinality(W) = Cardinality(U) - 1 /\ IsFiniteSet(W)  BY <2>1, <2>2, <1>1, <1>2, OneLess
  <2>4. Cardinality(W) <= n  BY <2>3, <1>1, <1>2, <1>4, <1>6, <1>10 DEF Ended
  <2>5. CASE ~poll'.busy /\ V = W
    BY <2>4, <2>5, <1>5, <1>6, <1>10 DEF Ended
  <2>6. ASSUME poll'.busy, NEW x \in Slots \ W, V = W \cup {x}
        PROVE  V # {} /\ Cardinality(V) <= n + 1
    <3>1. Cardinality(V) = Cardinality(W) + 1  BY <2>6, <2>3, OneMore
    <3> QED  BY <3>1, <2>3, <2>4, <2>6, <1>1, <1>2
  <2> QED  BY <2>1, <2>5, <2>6, <1>2, <1>3, <1>6, <1>10 DEF Ended
<1>11. CASE Halted
  <2>1. Cardinality(V) = n  BY <1>3, <1>4, <1>11 DEF Halted
  <2> QED  BY <2>1, <1>4, <1>5, <1>11 DEF Halted, PollType
<1>12. CASE Resumed
  BY <1>2, <1>3, <1>4, <1>5, <1>6, <1>12 DEF Resumed
<1> QED  BY <1>8, <1>9, <1>10, <1>11, <1>12 DEF PollMoves

-----------------------------------------------------------------------------
(* What the parts of an action keep.                                       *)

\* What is not a call just made, or nothing, was there before.
NewOrOld == \A s \in Slots : net'[s].pc \in {"sent", "free"} \/ net'[s] = net[s]

LEMMA PostKeeps ==
    ASSUME NetTyped, NEW gone \in SUBSET Slots, NEW kinds \in SUBSET Kinds,
           NEW t \in Tokens \cup {NoToken}, Post(gone, Calls(kinds, t))
    PROVE  /\ NetTyped' /\ NewOrOld
           /\ "summary" \notin kinds => Summaries' = Summaries \ gone
           /\ "summary" \in kinds =>
                 \E x \in Slots \ (Summaries \ gone) : Summaries' = (Summaries \ gone) \cup {x}
<1>1. PICK B, R : 0 \in B /\ <<>> \in R /\ net \in [Slots -> Packets(B, R)]  BY DEF NetTyped
<1>2. net' \in [Slots -> Packets(B, R)]  BY <1>1, PostedTyped
<1>3. \A s \in Slots : \/ net'[s] \in Calls(kinds, t)
                       \/ net'[s] = NoRequest
                       \/ s \notin gone /\ net'[s] = net[s]
  BY PostedEach
<1>4. \A c \in Calls(kinds, t) : c.pc = "sent"  BY RequestFields DEF Calls
<1>5. NewOrOld  BY <1>3, <1>4, RequestFields DEF NewOrOld
<1>6. \A s \in Slots : net[s].pc = "free" => net[s].kind = None  BY DEF NetTyped
<1>7. \A s \in Slots : net'[s].pc = "free" => net'[s].kind = None
  BY <1>3, <1>4, <1>6, RequestFields
<1>8. NetTyped'  BY <1>1, <1>2, <1>7 DEF NetTyped
<1>9. /\ "summary" \notin kinds => Summaries' = Summaries \ gone
      /\ "summary" \in kinds =>
            \E x \in Slots \ (Summaries \ gone) : Summaries' = (Summaries \ gone) \cup {x}
  BY <1>6, PostedSummaries
<1> QED  BY <1>5, <1>8, <1>9

LEMMA OverKeeps ==
    ASSUME NetTyped, NEW s \in Slots, Over(s)
    PROVE  NetTyped' /\ NewOrOld /\ Summaries' = Summaries \ {s}
<1>1. PICK B, R : 0 \in B /\ <<>> \in R /\ net \in [Slots -> Packets(B, R)]  BY DEF NetTyped
<1>2. NoRequest \in Packets(B, R)  BY <1>1, RequestTyped DEF Kinds
<1>3. net' = [net EXCEPT ![s] = NoRequest]  BY DEF Over
<1>4. net' \in [Slots -> Packets(B, R)]  BY <1>1, <1>2, <1>3
<1>5. \A r \in Slots : net'[r] = IF r = s THEN NoRequest ELSE net[r]  BY <1>1, <1>3
<1>6. NewOrOld  BY <1>5, RequestFields DEF NewOrOld
<1>7. NetTyped'  BY <1>1, <1>4, <1>5, RequestFields DEF NetTyped
<1>8. Summaries' = Summaries \ {s}  BY <1>5, RequestFields, NoneDiffers DEF Summaries, Under, Kinds
<1> QED  BY <1>6, <1>7, <1>8

LEMMA ToldKept ==
    ASSUME Told, NewOrOld, db' = db, poll'.base = poll.base PROVE Told'
<1>1. Version' = Version  BY DEF Version
<1>2. \A s \in Slots : net'[s].pc \in {"counted", "served"} => net'[s] = net[s]
  BY DEF NewOrOld
<1>3. \A s \in Slots :
          /\ net[s].pc = "counted" =>
                /\ net[s].kind = "summary" /\ net[s].status \in Passed
                /\ net[s].summary.at <= Version
                /\ net[s].summary.at = Version => net[s].summary.pending = db.pending
          /\ net[s].pc = "served" /\ net[s].kind = "summary" /\ net[s].status \in Passed =>
                net[s].summary.at <= Version /\
                (~net[s].summary.torn =>
                    net[s].summary.at = 2 * net[s].summary.latest - net[s].summary.pending)
  BY DEF Told, Tells
<1>4. poll'.base # None => poll'.base.at <= Version /\
        (~poll'.base.torn => poll'.base.at = 2 * poll'.base.latest - poll'.base.pending)
  BY DEF Told, Tells
<1> QED  BY <1>1, <1>2, <1>3, <1>4 DEF Told, Tells

\* What the lists are asked for: whatever was told by then is in them.
LEMMA NotedTyped ==
    ASSUME Typed, NEW kinds, NEW doubt \in BOOLEAN
    PROVE  /\ Noted(kinds, doubt) \in NoteType
           /\ Noted(kinds, doubt).strays = note.strays
           /\ Noted(kinds, doubt).shown = note.shown
           /\ kinds \cap Lists # {} => Noted(kinds, doubt).asked = Version
           /\ kinds \cap Lists = {} => /\ Noted(kinds, doubt).asked = note.asked
                                       /\ Noted(kinds, doubt).lost = note.lost
                                       /\ Noted(kinds, doubt).doubt = doubt
<1>1. PICK v \in Nat : v = Version  BY VersionTyped, BoundsTyped
<1>2. note \in NoteType  BY DEF Typed
<1>3. CASE kinds \cap Lists # {}
  <2>1. Noted(kinds, doubt) = [note EXCEPT !.asked = v, !.doubt = FALSE, !.lost = FALSE]
    BY <1>1, <1>3 DEF Noted
  <2> QED  BY <2>1, <1>1, <1>2, <1>3
<1>4. CASE kinds \cap Lists = {}
  <2>1. Noted(kinds, doubt) = [note EXCEPT !.doubt = doubt]  BY <1>4 DEF Noted
  <2> QED  BY <2>1, <1>2, <1>4
<1> QED  BY <1>3, <1>4

LEMMA OpeningTyped ==
    ASSUME Typed, NEW kinds
    PROVE  /\ NotedOpening(kinds) \in NoteType
           /\ NotedOpening(kinds).strays = note.strays /\ NotedOpening(kinds).shown = 0
           /\ kinds \cap Lists # {} => NotedOpening(kinds).asked = Version
           /\ kinds \cap Lists = {} => NotedOpening(kinds).asked = note.asked
<1>1. note.doubt \in BOOLEAN  BY DEF Typed
<1>2. PICK n \in NoteType : n = Noted(kinds, note.doubt)  BY <1>1, NotedTyped
<1>3. NotedOpening(kinds) = [n EXCEPT !.shown = 0]  BY <1>2 DEF NotedOpening
<1>4. /\ NotedOpening(kinds) \in NoteType /\ NotedOpening(kinds).shown = 0
      /\ NotedOpening(kinds).strays = n.strays /\ NotedOpening(kinds).asked = n.asked
  BY <1>3
<1> QED  BY <1>1, <1>2, <1>4, NotedTyped

LEMMA ShownTyped ==
    ASSUME Typed, NEW at \in Nat
    PROVE  /\ NotedShown(at) \in NoteType /\ NotedLost \in NoteType
           /\ NotedShown(at).shown = at /\ NotedLost.shown = note.shown /\ NotedLost.lost
           /\ NotedShown(at).lost = (note.lost \/ at < note.shown)
           /\ \A n \in {NotedShown(at), NotedLost} :
                 n.asked = note.asked /\ n.doubt = note.doubt /\ n.strays = note.strays
  BY DEF Typed, NotedShown, NotedLost

LEMMA AsksKept ==
    ASSUME AsksAgain, page'.loggedIn => page.loggedIn, page'.tab = page.tab,
           poll'.base = poll.base, note'.asked = note.asked, note'.doubt = note.doubt
    PROVE  AsksAgain'
  BY DEF AsksAgain

\* The lists were asked for in this step, unless the tab has none.
LEMMA AsksNow ==
    ASSUME Told', db' = db, page'.loggedIn /\ page'.tab # "other" => note'.asked = Version
    PROVE  AsksAgain'
<1>1. Version' = Version  BY DEF Version
<1>2. poll'.base # None => poll'.base.at <= Version  BY <1>1 DEF Told, Tells
<1> QED  BY <1>2 DEF AsksAgain

LEMMA AuthKept == ASSUME AuthInv, UNCHANGED authVars PROVE AuthInv'
  BY DEF AuthInv, authVars

LEMMA ListKinds == Lists = {"pending", "load", "head"}
<1>1. Lists = ListsOf("dashboard") \cup ListsOf("orders") \cup ListsOf("other")  BY DEF Lists, Tabs
<1>2. /\ ListsOf("dashboard") = {"pending"} /\ ListsOf("orders") = {"load", "head"}
      /\ ListsOf("other") = {}
  BY DEF ListsOf
<1> QED  BY <1>1, <1>2

LEMMA ListsAsked ==
    ASSUME Typed, NEW tab \in Tabs, NEW l \in BOOLEAN
    PROVE  /\ Opened(tab, l) \in SUBSET (Kinds \ {"summary"})
           /\ l /\ tab # "other" => Opened(tab, l) \cap Lists # {}
           /\ Refreshed \in SUBSET (Kinds \ {"summary"})
           /\ page.loggedIn /\ page.tab # "other" => Refreshed \cap Lists # {}
  BY ListKinds DEF Typed, Tabs, Opened, Refreshed, Kinds

-----------------------------------------------------------------------------
(* What people do.                                                         *)

\* What remains to be shown of an action.
Kept == Typed' /\ NetTyped' /\ PollMoves /\ Told' /\ AsksAgain' /\ AuthInv'

\* Actions that send one request, and do no more.
LEMMA SendKept ==
    ASSUME PanelInv, NEW k \in Kinds \ {"summary"}, Post({}, Calls({k}, cookie)),
           UNCHANGED <<cookie, page, poll, list, note>>, Quiet
    PROVE  Kept
<1> USE DEF PanelInv
<1>1. cookie \in Tokens \cup {NoToken} /\ {k} \in SUBSET Kinds /\ {} \in SUBSET Slots  BY DEF Typed
<1>2. NetTyped' /\ NewOrOld /\ Summaries' = Summaries \ {}  BY <1>1, PostKeeps
<1>3. Typed'  BY DEF Typed, Quiet
<1>4. PollMoves  BY <1>2 DEF PollMoves, Untouched
<1>5. Told'  BY <1>2, ToldKept DEF Quiet
<1>6. AsksAgain'  BY AsksKept
<1>7. AuthInv'  BY AuthKept DEF Quiet
<1> QED  BY <1>2, <1>3, <1>4, <1>5, <1>6, <1>7 DEF Kept

LEMMA LogInKept == ASSUME PanelInv, LogIn PROVE Kept
  BY SendKept DEF LogIn, Kinds

LEMMA ResolveOrderKept == ASSUME PanelInv, ResolveOrder PROVE Kept
  BY SendKept DEF ResolveOrder, Kinds

LEMMA LogOutKept == ASSUME PanelInv, LogOut PROVE Kept
<1> USE DEF PanelInv
<1>1. /\ cookie \in Tokens \cup {NoToken} /\ {"logout"} \in SUBSET Kinds /\ {} \in SUBSET Slots
      /\ "summary" \notin {"logout"}
  BY DEF Typed, Kinds
<1>2. NetTyped' /\ NewOrOld /\ Summaries' = Summaries \ {}  BY <1>1, PostKeeps DEF LogOut
<1>3. poll' = Stopped(poll) /\ poll \in PollType  BY DEF LogOut, Typed
<1>4. poll' \in PollType /\ ~poll'.active /\ ~poll'.busy /\ poll'.base = poll.base
  BY <1>3, StartedStopped
<1>5. note'.strays = Cardinality(Summaries') /\ note'.asked = note.asked /\ note'.doubt = note.doubt
      /\ note' \in NoteType
  BY <1>2, FiniteSummaries DEF LogOut, Summaries, Typed
<1>6. /\ page' \in [screen : {"boot", "login", "app"}, loggedIn : BOOLEAN, tab : Tabs]
      /\ ~page'.loggedIn /\ page'.tab = page.tab
  BY DEF LogOut, Typed
<1>7. Typed'  BY <1>4, <1>5, <1>6 DEF LogOut, Quiet, Typed
<1>8. PollMoves  BY <1>4, <1>5, <1>6 DEF PollMoves, Halted
<1>9. Told'  BY <1>2, <1>4, ToldKept DEF LogOut, Quiet
<1>10. AsksAgain'  BY <1>6 DEF AsksAgain
<1>11. AuthInv'  BY AuthKept DEF LogOut, Quiet
<1> QED  BY <1>2, <1>7, <1>8, <1>9, <1>10, <1>11 DEF Kept

LEMMA OpenTabKept == ASSUME PanelInv, NEW tab \in Tabs, OpenTab(tab) PROVE Kept
<1> USE DEF PanelInv
<1> DEFINE kinds == Opened(tab, page.loggedIn)
<1>1. cookie \in Tokens \cup {NoToken} /\ page.loggedIn \in BOOLEAN /\ note.doubt \in BOOLEAN
  BY DEF Typed
<1>2. /\ kinds \in SUBSET (Kinds \ {"summary"})
      /\ page.loggedIn /\ tab # "other" => kinds \cap Lists # {}
  BY <1>1, ListsAsked
<1>3. NetTyped' /\ NewOrOld /\ Summaries' = Summaries \ {}  BY <1>1, <1>2, PostKeeps DEF OpenTab
<1>4. /\ note' \in NoteType /\ note'.strays = note.strays
      /\ kinds \cap Lists # {} => note'.asked = Version
  BY <1>1, OpeningTyped DEF OpenTab
<1>5. /\ page' \in [screen : {"boot", "login", "app"}, loggedIn : BOOLEAN, tab : Tabs]
      /\ page'.loggedIn = page.loggedIn /\ page'.tab = tab
  BY DEF OpenTab, Typed
<1>6. Typed'  BY <1>4, <1>5 DEF OpenTab, Quiet, Typed
<1>7. PollMoves  BY <1>3, <1>4, <1>5 DEF OpenTab, PollMoves, Untouched
<1>8. Told'  BY <1>3, ToldKept DEF OpenTab, Quiet
<1>9. AsksAgain'  BY <1>2, <1>4, <1>5, <1>8, AsksNow DEF OpenTab, Quiet
<1>10. AuthInv'  BY AuthKept DEF OpenTab, Quiet
<1> QED  BY <1>3, <1>6, <1>7, <1>8, <1>9, <1>10 DEF Kept

LEMMA LoadMoreKept == ASSUME PanelInv, LoadMore PROVE Kept
<1> USE DEF PanelInv
<1> DEFINE before == list.orders[Len(list.orders)]
           call == [Request("more", cookie) EXCEPT !.before = before]
<1>1. PICK B, R : 0 \in B /\ <<>> \in R /\ net \in [Slots -> Packets(B, R)]  BY DEF NetTyped
<1>2. cookie \in Tokens \cup {NoToken} /\ "more" \in Kinds  BY DEF Typed, Kinds
<1>3. PICK C : C = B \cup {before}  OBVIOUS
<1>4. Request("more", cookie) \in Packets(C, R) /\ NoRequest \in Packets(C, R)
  BY <1>1, <1>2, <1>3, RequestTyped
<1>5. call \in Packets(C, R) /\ call.pc = "sent" /\ call.kind = "more"
  BY <1>3, <1>4, RequestFields DEF Packets
<1>6. PICK to : Places(to, {}, {call})  BY Posted DEF LoadMore
<1>7. PICK x : x = to[call]  OBVIOUS
<1>8. /\ x \in Slots /\ net[x].pc = "free"
      /\ net' = [s \in Slots |-> net'[s]] /\ net'[x] = call
      /\ \A s \in Slots : s # x => net'[s] = net[s]
  BY <1>6, <1>7 DEF Places
<1>9. \A s \in Slots : net'[s] \in Packets(C, R)  BY <1>1, <1>3, <1>5, <1>8, Widened
<1>10. net' \in [Slots -> Packets(C, R)] /\ 0 \in C  BY <1>1, <1>3, <1>8, <1>9
<1>11. NetTyped'
  <2>1. \A s \in Slots : net'[s].pc = "free" => net'[s].kind = None  BY <1>5, <1>8 DEF NetTyped
  <2> QED  BY <2>1, <1>1, <1>10 DEF NetTyped
<1>12. NewOrOld  BY <1>5, <1>8 DEF NewOrOld
<1>13. Summaries' = Summaries
  <2>1. net[x].kind # "summary"  BY <1>8, NoneDiffers DEF NetTyped, Kinds
  <2> QED  BY <2>1, <1>5, <1>8 DEF Summaries, Under
<1>14. Typed'  BY DEF LoadMore, Quiet, Typed
<1>15. PollMoves  BY <1>13 DEF LoadMore, PollMoves, Untouched
<1>16. Told'  BY <1>12, ToldKept DEF LoadMore, Quiet
<1>17. AsksAgain'  BY AsksKept DEF LoadMore
<1>18. AuthInv'  BY AuthKept DEF LoadMore, Quiet
<1> QED  BY <1>11, <1>14, <1>15, <1>16, <1>17, <1>18 DEF Kept

\* Actions that poke the poll, and refresh lists as well.
LEMMA PokeKept ==
    ASSUME PanelInv, NEW gone \in SUBSET Slots, gone \cap Summaries = {},
           NEW r, Ticks(poll, page.loggedIn, r), NEW kinds \in SUBSET (Kinds \ {"summary"}),
           poll' = r.poll, Post(gone, Calls(kinds \cup r.calls, cookie)),
           note' \in NoteType, note'.strays = note.strays,
           UNCHANGED <<cookie, page, list>>, Quiet
    PROVE  Typed' /\ NetTyped' /\ PollMoves /\ Told' /\ AuthInv'
<1> USE DEF PanelInv
<1>1. cookie \in Tokens \cup {NoToken} /\ poll \in PollType /\ page.loggedIn = poll.active
  BY DEF Typed, Polled
<1>2. /\ poll' \in PollType /\ poll'.active = poll.active /\ poll'.base = poll.base
      /\ r.calls \in SUBSET {"summary"}
      /\ r.calls # {} => ~poll.busy /\ poll'.busy
      /\ r.calls = {} => poll'.busy = poll.busy
      /\ poll.active => poll'.busy
  BY <1>1 DEF Ticks
<1>3. kinds \cup r.calls \in SUBSET Kinds  BY <1>2 DEF Kinds
<1>4. /\ NetTyped' /\ NewOrOld
      /\ "summary" \notin kinds \cup r.calls => Summaries' = Summaries \ gone
      /\ "summary" \in kinds \cup r.calls =>
            \E x \in Slots \ (Summaries \ gone) : Summaries' = (Summaries \ gone) \cup {x}
  BY <1>1, <1>3, PostKeeps
<1>5. Summaries \ gone = Summaries  OBVIOUS
<1>6. Poked  BY <1>2, <1>4, <1>5 DEF Poked
<1>7. Typed'  BY <1>2 DEF Typed, Quiet
<1>8. Told'  BY <1>2, <1>4, ToldKept DEF Quiet
<1>9. AuthInv'  BY AuthKept DEF Quiet
<1> QED  BY <1>4, <1>6, <1>7, <1>8, <1>9 DEF PollMoves

LEMMA FocusKept == ASSUME PanelInv, Focus PROVE Kept
<1> DEFINE r == PollNow(poll, page.loggedIn)
<1>1. Ticks(poll, page.loggedIn, r)  BY PollNowGives DEF PanelInv, Typed
<1>2. PICK q : q = r  OBVIOUS
<1>3. /\ {} \cup q.calls = q.calls /\ {} \in SUBSET (Kinds \ {"summary"})
      /\ {} \in SUBSET Slots /\ {} \cap Summaries = {}
  OBVIOUS
<1>4. note' \in NoteType /\ note'.strays = note.strays
  BY DEF Focus, PanelInv, Typed
<1>5. /\ poll' = q.poll /\ Post({}, Calls({} \cup q.calls, cookie))
      /\ UNCHANGED <<cookie, page, list>> /\ Quiet
  BY <1>2, <1>3 DEF Focus
<1>6. Typed' /\ NetTyped' /\ PollMoves /\ Told' /\ AuthInv'
  BY <1>1, <1>2, <1>3, <1>4, <1>5, PokeKept
<1>7. AsksAgain'
  BY <1>1, <1>2, <1>5, AsksKept DEF PanelInv, Ticks, Focus
<1> QED  BY <1>6, <1>7 DEF Kept

LEMMA TimerFiresKept == ASSUME PanelInv, TimerFires PROVE Kept
<1> DEFINE r == Tick([poll EXCEPT !.timer = FALSE], page.loggedIn)
<1>1. Ticks(poll, page.loggedIn, r)  BY TimerGives DEF PanelInv, Typed
<1>2. PICK q : q = r  OBVIOUS
<1>3. /\ {} \cup q.calls = q.calls /\ {} \in SUBSET (Kinds \ {"summary"})
      /\ {} \in SUBSET Slots /\ {} \cap Summaries = {}
  OBVIOUS
<1>4. note' \in NoteType /\ note'.strays = note.strays
  BY DEF TimerFires, PanelInv, Typed
<1>5. /\ poll' = q.poll /\ Post({}, Calls({} \cup q.calls, cookie))
      /\ UNCHANGED <<cookie, page, list>> /\ Quiet
  BY <1>2, <1>3 DEF TimerFires
<1>6. Typed' /\ NetTyped' /\ PollMoves /\ Told' /\ AuthInv'
  BY <1>1, <1>2, <1>3, <1>4, <1>5, PokeKept
<1>7. AsksAgain'
  BY <1>1, <1>2, <1>5, AsksKept DEF PanelInv, Ticks, TimerFires
<1> QED  BY <1>6, <1>7 DEF Kept

\* The lists are refreshed, and the poll is poked or not.
LEMMA RefreshKept ==
    ASSUME PanelInv, NEW gone \in SUBSET Slots, gone \cap Summaries = {},
           NEW r, Ticks(poll, page.loggedIn, r) \/ r = [poll |-> poll, calls |-> {}],
           poll' = r.poll, Post(gone, Calls(Refreshed \cup r.calls, cookie)),
           note' = Noted(Refreshed, note.doubt),
           UNCHANGED <<cookie, page, list>>, Quiet
    PROVE  Kept
<1>1. /\ Refreshed \in SUBSET (Kinds \ {"summary"})
      /\ page.loggedIn /\ page.tab # "other" => Refreshed \cap Lists # {}
  BY ListsAsked DEF PanelInv, Typed
<1>2. /\ note' \in NoteType /\ note'.strays = note.strays
      /\ Refreshed \cap Lists # {} => note'.asked = Version
  BY NotedTyped DEF PanelInv, Typed
<1>3. Typed' /\ NetTyped' /\ PollMoves /\ Told' /\ AuthInv'
  <2>1. CASE Ticks(poll, page.loggedIn, r)  BY <2>1, <1>1, <1>2, PokeKept
  <2>2. CASE r = [poll |-> poll, calls |-> {}]
    <3>1. poll' = poll /\ Post(gone, Calls(Refreshed, cookie))  BY <2>2
    <3>2. cookie \in Tokens \cup {NoToken} /\ Refreshed \in SUBSET Kinds /\ "summary" \notin Refreshed
      BY <1>1 DEF PanelInv, Typed
    <3>3. NetTyped' /\ NewOrOld /\ Summaries' = Summaries \ gone
      BY <3>1, <3>2, PostKeeps DEF PanelInv
    <3>4. Summaries' = Summaries  BY <3>3
    <3>5. Typed'  BY <3>1, <1>2 DEF PanelInv, Typed, Quiet
    <3>6. PollMoves  BY <3>1, <3>4, <1>2 DEF PollMoves, Untouched
    <3>7. Told'  BY <3>1, <3>3, ToldKept DEF PanelInv, Quiet
    <3>8. AuthInv'  BY AuthKept DEF PanelInv, Quiet
    <3> QED  BY <3>3, <3>5, <3>6, <3>7, <3>8
  <2> QED  BY <2>1, <2>2
<1>4. AsksAgain'  BY <1>1, <1>2, <1>3, AsksNow DEF Quiet
<1> QED  BY <1>3, <1>4 DEF Kept

LEMMA RefreshListKept == ASSUME PanelInv, RefreshList PROVE Kept
<1> DEFINE poke == IF page.tab = "orders" THEN PollNow(poll, page.loggedIn)
                   ELSE [poll |-> poll, calls |-> {}]
<1>1. PICK r : r = poke  OBVIOUS
<1>2. Ticks(poll, page.loggedIn, PollNow(poll, page.loggedIn))  BY PollNowGives DEF PanelInv, Typed
<1>3. Ticks(poll, page.loggedIn, r) \/ r = [poll |-> poll, calls |-> {}]  BY <1>1, <1>2
<1>4. {} \in SUBSET Slots /\ {} \cap Summaries = {}  OBVIOUS
<1>5. /\ poll' = r.poll /\ Post({}, Calls(Refreshed \cup r.calls, cookie))
      /\ note' = Noted(Refreshed, note.doubt) /\ UNCHANGED <<cookie, page, list>> /\ Quiet
  BY <1>1 DEF RefreshList
<1> QED  BY <1>3, <1>4, <1>5, RefreshKept

\* Orders arrive or are decided: a later version.
SameSummary(s) ==
    /\ net'[s].kind = net[s].kind /\ net'[s].summary = net[s].summary
    /\ net'[s].pc = net[s].pc /\ net'[s].status = net[s].status

OtherServed(s) == net'[s].pc = "served" /\ net'[s].kind # "summary"

LEMMA NewerKept ==
    ASSUME PanelInv, Typed', NEW m \in Nat \ {0}, Version' = Version + m,
           UNCHANGED <<authVars, cookie, page, poll, list, note>>,
           NetTyped', Summaries' = Summaries,
           \A s \in Slots : SameSummary(s) \/ OtherServed(s)
    PROVE  Kept
<1> USE DEF PanelInv
<1>1. PollMoves  BY DEF PollMoves, Untouched
<1>2. PICK v \in Nat, w \in Nat : v = Version /\ w = Version' /\ w = v + m
  BY VersionTyped, BoundsTyped
<1>3. \A s \in Slots : net[s].summary.at \in Nat
  <2>1. PICK B, R : net \in [Slots -> Packets(B, R)]  BY DEF NetTyped
  <2> QED  BY <2>1, BoundsTyped DEF Packets, Summary
<1>4. poll.base # None => poll.base.at \in Nat
  BY BoundsTyped DEF Typed, PollType, Summary
<1>5. Told'
  <2>1. ASSUME NEW s \in Slots, net'[s].pc = "counted"
        PROVE  /\ net'[s].kind = "summary" /\ net'[s].status \in Passed
               /\ net'[s].summary.at <= w /\ net'[s].summary.at # w
    <3>1. /\ net'[s].kind = net[s].kind /\ net'[s].summary = net[s].summary
          /\ net'[s].pc = net[s].pc /\ net'[s].status = net[s].status
      BY <2>1 DEF SameSummary, OtherServed
    <3>2. net[s].kind = "summary" /\ net[s].status \in Passed /\ net[s].summary.at <= v
      BY <3>1, <2>1, <1>2 DEF Told
    <3> QED  BY <3>1, <3>2, <1>2, <1>3
  <2>2. ASSUME NEW s \in Slots, net'[s].pc = "served", net'[s].kind = "summary",
               net'[s].status \in Passed
        PROVE  /\ net'[s].summary.at <= w
               /\ ~net'[s].summary.torn =>
                     net'[s].summary.at = 2 * net'[s].summary.latest - net'[s].summary.pending
    <3>1. /\ net'[s].kind = net[s].kind /\ net'[s].summary = net[s].summary
          /\ net'[s].pc = net[s].pc /\ net'[s].status = net[s].status
      BY <2>2 DEF SameSummary, OtherServed
    <3>2. net[s].summary.at <= v /\ (~net[s].summary.torn =>
             net[s].summary.at = 2 * net[s].summary.latest - net[s].summary.pending)
      BY <3>1, <2>2, <1>2 DEF Told, Tells
    <3> QED  BY <3>1, <3>2, <1>2, <1>3
  <2>3. poll.base # None => poll.base.at <= w /\ (~poll.base.torn =>
             poll.base.at = 2 * poll.base.latest - poll.base.pending)
    BY <1>2, <1>4 DEF Told, Tells
  <2> QED  BY <2>1, <2>2, <2>3, <1>2 DEF Told, Tells
<1>6. AsksAgain'  BY AsksKept
<1>7. AuthInv'  BY AuthKept
<1> QED  BY <1>1, <1>5, <1>6, <1>7 DEF Kept

LEMMA OrdersArriveKept == ASSUME PanelInv, OrdersArrive PROVE Kept
<1>1. PICK n \in 1..MaxOrders :
        /\ db.latest + n <= MaxOrders
        /\ db' = [latest |-> db.latest + n, pending |-> db.pending + n]
  BY DEF OrdersArrive
<1>2. /\ db \in [latest : 0..MaxOrders, pending : 0..MaxOrders] /\ db.pending <= db.latest
  BY DEF PanelInv, Typed
<1>3. Typed'  BY <1>1, <1>2, BoundsTyped DEF OrdersArrive, PanelInv, Typed
<1>4. Version' = Version + n  BY <1>1, <1>2, BoundsTyped DEF Version
<1>5. NetTyped' /\ Summaries' = Summaries  BY DEF OrdersArrive, PanelInv, NetTyped, Summaries, Under
<1>6. n \in Nat \ {0}  BY BoundsTyped
<1>7. UNCHANGED <<authVars, cookie, page, poll, list, note>>  BY DEF OrdersArrive
<1>8. \A s \in Slots : SameSummary(s)  BY DEF OrdersArrive, SameSummary
<1> QED  BY <1>3, <1>4, <1>5, <1>6, <1>7, <1>8, NewerKept

LEMMA OneDecided ==
    ASSUME Typed, Waits, db' = [db EXCEPT !.pending = @ - 1]
    PROVE  /\ db' \in [latest : 0..MaxOrders, pending : 0..MaxOrders] /\ db'.pending <= db'.latest
           /\ Version' = Version + 1
  BY BoundsTyped DEF Typed, Waits, Version

LEMMA OrderResolvedKept == ASSUME PanelInv, OrderResolved PROVE Kept
<1>1. /\ db' \in [latest : 0..MaxOrders, pending : 0..MaxOrders] /\ db'.pending <= db'.latest
      /\ Version' = Version + 1
  BY OneDecided DEF OrderResolved, PanelInv
<1>2. Typed'  BY <1>1 DEF OrderResolved, PanelInv, Typed
<1>3. NetTyped' /\ Summaries' = Summaries  BY DEF OrderResolved, PanelInv, NetTyped, Summaries, Under
<1>4. 1 \in Nat \ {0}  OBVIOUS
<1>5. UNCHANGED <<authVars, cookie, page, poll, list, note>>  BY DEF OrderResolved
<1>6. \A s \in Slots : SameSummary(s)  BY DEF OrderResolved, SameSummary
<1> QED  BY <1>1, <1>2, <1>3, <1>4, <1>5, <1>6, NewerKept

\* The clock and the database of tokens touch nothing else.
LEMMA ClockKept == ASSUME PanelInv, Clock PROVE Kept
<1> USE DEF PanelInv
<1>1. UNCHANGED <<db, cookie, page, poll, list, net, note>>  BY DEF Clock, panelVars
<1>2. NetTyped' /\ NewOrOld /\ Summaries' = Summaries  BY <1>1 DEF NetTyped, NewOrOld, Summaries, Under
<1>3. Typed'  BY <1>1 DEF Typed
<1>4. PollMoves  BY <1>1, <1>2 DEF PollMoves, Untouched
<1>5. Told'  BY <1>1, <1>2, ToldKept
<1>6. AsksAgain'  BY <1>1, AsksKept
<1>7. AuthInv'
  <2>1. PICK d \in Leaps : now' = now + d  BY DEF Clock, TimePasses
  <2>2. d \in Nat  BY AuthAssumption
  <2> QED  BY <2>1, <2>2 DEF Clock, TimePasses, AuthInv
<1> QED  BY <1>2, <1>3, <1>4, <1>5, <1>6, <1>7 DEF Kept

-----------------------------------------------------------------------------
(* The server.                                                             *)

\* One request goes on; what it is for stays.
LEMMA ServedNet ==
    ASSUME NetTyped, NEW s \in Slots, NEW B, NEW R, NEW X \in Packets(B, R), 0 \in B, <<>> \in R,
           net \in [Slots -> Packets(B, R)],
           X.pc # "free", X.kind = net[s].kind, net' = [net EXCEPT ![s] = X]
    PROVE  /\ NetTyped' /\ Summaries' = Summaries
           /\ net'[s] = X /\ \A r \in Slots \ {s} : net'[r] = net[r]
<1>1. net'[s] = X /\ \A r \in Slots \ {s} : net'[r] = net[r]  OBVIOUS
<1>2. net' \in [Slots -> Packets(B, R)]  OBVIOUS
<1>3. \A r \in Slots : net'[r].pc = "free" => net'[r].kind = None  BY <1>1 DEF NetTyped
<1>4. NetTyped'  BY <1>2, <1>3 DEF NetTyped
<1>5. \A r \in Slots : net'[r].kind = net[r].kind  BY <1>1
<1>6. Summaries' = Summaries  BY <1>5 DEF Summaries, Under
<1> QED  BY <1>1, <1>4, <1>6

\* The page has not heard of it yet.
LEMMA ServerKept ==
    ASSUME PanelInv, NetTyped', Summaries' = Summaries, UNCHANGED db, ServerOnly, AuthInv',
           \A r \in Slots : net'[r] = net[r] \/ OtherServed(r)
    PROVE  Kept
<1> USE DEF PanelInv
<1>1. Typed'  BY DEF ServerOnly, Typed
<1>2. PollMoves  BY DEF ServerOnly, PollMoves, Untouched
<1>3. Version' = Version  BY DEF Version
<1>4. \A r \in Slots : net'[r].pc = "counted" => net'[r] = net[r]  BY DEF OtherServed
<1>5. \A r \in Slots : net'[r].pc = "served" /\ net'[r].kind = "summary" => net'[r] = net[r]
  BY DEF OtherServed
<1>7. Told'
  <2>1. ASSUME NEW r \in Slots, net'[r].pc = "counted"
        PROVE  /\ net'[r].kind = "summary" /\ net'[r].status \in Passed
               /\ net'[r].summary.at <= Version'
               /\ net'[r].summary.at = Version' => net'[r].summary.pending = db'.pending
    BY <2>1, <1>3, <1>4 DEF Told
  <2>2. ASSUME NEW r \in Slots, net'[r].pc = "served", net'[r].kind = "summary",
               net'[r].status \in Passed
        PROVE  /\ net'[r].summary.at <= Version'
               /\ ~net'[r].summary.torn =>
                     net'[r].summary.at = 2 * net'[r].summary.latest - net'[r].summary.pending
    BY <2>2, <1>3, <1>5 DEF Told, Tells
  <2>3. poll'.base # None => poll'.base.at <= Version' /\ (~poll'.base.torn =>
             poll'.base.at = 2 * poll'.base.latest - poll'.base.pending)
    BY <1>3 DEF Told, Tells, ServerOnly
  <2> QED  BY <2>1, <2>2, <2>3 DEF Told, Tells
<1>8. AsksAgain'  BY AsksKept DEF ServerOnly
<1> QED  BY <1>1, <1>2, <1>7, <1>8 DEF Kept

LEMMA ServeLoginKept ==
    ASSUME PanelInv, NEW s \in Slots, NEW t \in Tokens, ServeLogin(s, t) PROVE Kept
<1>1. PICK B, R : 0 \in B /\ <<>> \in R /\ net \in [Slots -> Packets(B, R)]
  BY DEF PanelInv, NetTyped
<1>2. PICK X : X = [Served(s, "ok") EXCEPT !.issued = t]  OBVIOUS
<1>3. X \in Packets(B, R) /\ X.pc = "served" /\ X.kind = net[s].kind /\ X.kind = "login"
  BY <1>1, <1>2 DEF ServeLogin, Served, Packets, Passed
<1>4. NetTyped' /\ Summaries' = Summaries /\ net'[s] = X /\ \A r \in Slots \ {s} : net'[r] = net[r]
  BY <1>1, <1>2, <1>3, ServedNet DEF ServeLogin, PanelInv
<1>5. \A r \in Slots : net'[r] = net[r] \/ OtherServed(r)  BY <1>3, <1>4 DEF OtherServed
<1>6. AuthInv'
  <2>1. NowSec + Life \in Int  BY AuthAssumption DEF PanelInv, AuthInv, NowSec
  <2>2. t \notin loggedOut  BY DEF ServeLogin, Issue, Issued, PanelInv, AuthInv
  <2> QED  BY <2>1, <2>2 DEF ServeLogin, Issue, PanelInv, AuthInv
<1> QED  BY <1>4, <1>5, <1>6, ServerKept DEF ServeLogin

LEMMA RevokeKept ==
    ASSUME AuthInv, NEW t \in Tokens, Issued(t), Revoke(t) PROVE AuthInv'
<1>1. PICK n \in Nat, e \in Nat : n = now /\ e = expiry[t]  BY DEF AuthInv, Issued
<1>2. PICK k \in Nat : k = n \div 2  OBVIOUS
<1>3. 2 * k <= n  BY <1>2
<1>4. RevocationSeconds(t) \in Int /\ RevocationSeconds(t) >= e - k
  BY <1>1, <1>2, AuthAssumption DEF RevocationSeconds, NowSec
<1>5. PICK q \in Int : q = RevocationSeconds(t)  BY <1>4
<1>6. n + 2 * q >= 2 * e  BY <1>3, <1>4, <1>5
<1>7. revoked' = [revoked EXCEPT ![t] = n + 2 * q] /\ loggedOut' = loggedOut \cup {t}
      /\ UNCHANGED <<now, expiry>>
  BY <1>1, <1>5 DEF Revoke
<1> QED  BY <1>1, <1>6, <1>7 DEF AuthInv

LEMMA StatusesFrom ==
    ASSUME NEW t
    PROVE  /\ Statuses(t) \subseteq Passed \cup {"refused"}
           /\ Statuses(t) \cap Passed # {} => t # NoToken /\ Issued(t)
           /\ "ok" \in Statuses(t) => Admitted(t, TRUE)
  BY DEF Statuses, Passed, Admitted, Verified

LEMMA ServeLogoutKept ==
    ASSUME PanelInv, NEW s \in Slots, ServeLogout(s) PROVE Kept
<1>1. PICK B, R : 0 \in B /\ <<>> \in R /\ net \in [Slots -> Packets(B, R)]
  BY DEF PanelInv, NetTyped
<1>2. PICK X : X = Served(s, "ok")  OBVIOUS
<1>3. X \in Packets(B, R) /\ X.pc = "served" /\ X.kind = net[s].kind /\ X.kind = "logout"
  BY <1>1, <1>2 DEF ServeLogout, Served, Packets, Passed
<1>4. NetTyped' /\ Summaries' = Summaries /\ net'[s] = X /\ \A r \in Slots \ {s} : net'[r] = net[r]
  BY <1>1, <1>2, <1>3, ServedNet DEF ServeLogout, PanelInv
<1>5. \A r \in Slots : net'[r] = net[r] \/ OtherServed(r)  BY <1>3, <1>4 DEF OtherServed
<1>6. AuthInv'
  <2>1. CASE Statuses(net[s].token) \cap Passed # {} /\ Revoke(net[s].token)
    <3>1. net[s].token \in Tokens \cup {NoToken}  BY <1>1 DEF Packets
    <3>2. net[s].token \in Tokens /\ Issued(net[s].token)  BY <3>1, <2>1, StatusesFrom
    <3> QED  BY <3>2, <2>1, RevokeKept DEF PanelInv
  <2>2. CASE UNCHANGED authVars  BY <2>2, AuthKept DEF PanelInv
  <2> QED  BY <2>1, <2>2 DEF ServeLogout
<1> QED  BY <1>4, <1>5, <1>6, ServerKept DEF ServeLogout

\* A protected route answers with what its token is, and at most decides an order.
LEMMA RouteAnswered ==
    ASSUME NEW s \in Slots, ServeRoute(s)
    PROVE  \E status, rows, at :
              /\ status \in Statuses(net[s].token)
              /\ at = IF net[s].kind \in Lists THEN Version ELSE 0
              /\ net' = [net EXCEPT ![s] = [Served(s, status) EXCEPT !.at = at, !.rows = rows]]
              /\ \/ /\ status \in Passed /\ net[s].kind = "resolve" /\ Waits
                    /\ db' = [db EXCEPT !.pending = @ - 1]
                 \/ UNCHANGED db
  BY DEF ServeRoute

LEMMA ServeRouteKept ==
    ASSUME PanelInv, NEW s \in Slots, ServeRoute(s) PROVE Kept
<1>1. PICK B, R : 0 \in B /\ <<>> \in R /\ net \in [Slots -> Packets(B, R)]
  BY DEF PanelInv, NetTyped
<1>2. PICK status, rows, at :
        /\ status \in Statuses(net[s].token)
        /\ at = IF net[s].kind \in Lists THEN Version ELSE 0
        /\ net' = [net EXCEPT ![s] = [Served(s, status) EXCEPT !.at = at, !.rows = rows]]
        /\ \/ /\ status \in Passed /\ net[s].kind = "resolve" /\ Waits
              /\ db' = [db EXCEPT !.pending = @ - 1]
           \/ UNCHANGED db
  BY RouteAnswered
<1>3. PICK Q : Q = R \cup {rows}  OBVIOUS
<1>4. net \in [Slots -> Packets(B, Q)] /\ <<>> \in Q
  BY <1>1, <1>3, Widened
<1>5. PICK X : X = [Served(s, status) EXCEPT !.at = at, !.rows = rows]  OBVIOUS
<1>6. status \in Passed \cup {"refused"}  BY <1>2, StatusesFrom
<1>7. X \in Packets(B, Q) /\ X.pc = "served" /\ X.kind = net[s].kind /\ X.kind # "summary"
  <2>1. net[s].kind # "summary"  BY DEF ServeRoute
  <2>2. PICK Z \in Packets(B, Q) : Z = net[s]  BY <1>4
  <2>3. PICK Y : Y = [Z EXCEPT !.pc = "served", !.status = status]  OBVIOUS
  <2>4. Y \in Packets(B, Q) /\ Y.pc = "served" /\ Y.kind = Z.kind  BY <1>6, <2>3 DEF Packets
  <2>5. X = [Y EXCEPT !.at = at, !.rows = rows]  BY <1>5, <2>2, <2>3 DEF Served
  <2>7. at \in Versions  BY <1>2, VersionIn DEF PanelInv
  <2>6. X \in Packets(B, Q) /\ X.pc = Y.pc /\ X.kind = Y.kind
    BY <1>3, <2>4, <2>5, <2>7 DEF Packets
  <2> QED  BY <2>1, <2>2, <2>4, <2>6
<1>8. NetTyped' /\ Summaries' = Summaries /\ net'[s] = X /\ \A r \in Slots \ {s} : net'[r] = net[r]
  BY <1>1, <1>2, <1>4, <1>5, <1>7, ServedNet DEF PanelInv
<1>9. \A r \in Slots : net'[r] = net[r] \/ OtherServed(r)  BY <1>7, <1>8 DEF OtherServed
<1>10. CASE UNCHANGED db
  <2>1. AuthInv'  BY AuthKept DEF ServeRoute, PanelInv
  <2> QED  BY <1>8, <1>9, <1>10, <2>1, ServerKept DEF ServeRoute
<1>11. CASE Waits /\ db' = [db EXCEPT !.pending = @ - 1]
  <2>1. /\ db' \in [latest : 0..MaxOrders, pending : 0..MaxOrders] /\ db'.pending <= db'.latest
        /\ Version' = Version + 1
    BY <1>11, OneDecided DEF PanelInv
  <2>2. Typed'  BY <2>1 DEF ServeRoute, ServerOnly, PanelInv, Typed
  <2>3. UNCHANGED <<authVars, cookie, page, poll, list, note>>  BY DEF ServeRoute, ServerOnly
  <2>4. \A r \in Slots : SameSummary(r) \/ OtherServed(r)  BY <1>9 DEF SameSummary
  <2>5. 1 \in Nat \ {0}  OBVIOUS
  <2> QED  BY <1>8, <2>1, <2>2, <2>3, <2>4, <2>5, NewerKept
<1> QED  BY <1>2, <1>10, <1>11

\* A summary on its way: nothing else changes.
LEMMA SummaryServed ==
    ASSUME PanelInv, NEW s \in Slots, NEW B, NEW R, NEW X \in Packets(B, R), 0 \in B, <<>> \in R,
           net \in [Slots -> Packets(B, R)],
           X.pc # "free", X.kind = net[s].kind, net' = [net EXCEPT ![s] = X],
           X.pc = "counted" =>
                /\ X.kind = "summary" /\ X.status \in Passed
                /\ X.summary.at <= Version
                /\ X.summary.at = Version => X.summary.pending = db.pending,
           X.pc = "served" /\ X.kind = "summary" /\ X.status \in Passed =>
                /\ X.summary.at <= Version
                /\ ~X.summary.torn => X.summary.at = 2 * X.summary.latest - X.summary.pending,
           Quiet, ServerOnly
    PROVE  Kept
<1> USE DEF PanelInv
<1>1. NetTyped' /\ Summaries' = Summaries /\ net'[s] = X /\ \A r \in Slots \ {s} : net'[r] = net[r]
  BY ServedNet
<1>2. Typed'  BY DEF ServerOnly, Quiet, Typed
<1>3. PollMoves  BY <1>1 DEF ServerOnly, PollMoves, Untouched
<1>4. Version' = Version /\ db' = db  BY DEF Version, Quiet
<1>5. Told'
  <2>1. ASSUME NEW r \in Slots, net'[r].pc = "counted"
        PROVE  /\ net'[r].kind = "summary" /\ net'[r].status \in Passed
               /\ net'[r].summary.at <= Version
               /\ net'[r].summary.at = Version => net'[r].summary.pending = db.pending
    BY <2>1, <1>1 DEF Told
  <2>2. ASSUME NEW r \in Slots, net'[r].pc = "served", net'[r].kind = "summary",
               net'[r].status \in Passed
        PROVE  /\ net'[r].summary.at <= Version
               /\ ~net'[r].summary.torn =>
                     net'[r].summary.at = 2 * net'[r].summary.latest - net'[r].summary.pending
    BY <2>2, <1>1 DEF Told, Tells
  <2>3. poll'.base # None => poll'.base.at <= Version /\ (~poll'.base.torn =>
             poll'.base.at = 2 * poll'.base.latest - poll'.base.pending)
    BY DEF Told, Tells, ServerOnly
  <2> QED  BY <2>1, <2>2, <2>3, <1>4 DEF Told, Tells
<1>6. AsksAgain'  BY AsksKept DEF ServerOnly
<1>7. AuthInv'  BY AuthKept DEF Quiet
<1> QED  BY <1>1, <1>2, <1>3, <1>5, <1>6, <1>7 DEF Kept

LEMMA CountPendingKept ==
    ASSUME PanelInv, NEW s \in Slots, CountPending(s) PROVE Kept
<1>1. PICK B, R : 0 \in B /\ <<>> \in R /\ net \in [Slots -> Packets(B, R)]
  BY DEF PanelInv, NetTyped
<1>2. PICK status \in Statuses(net[s].token) :
        net' = [net EXCEPT ![s] =
                  IF status \in Passed
                  THEN [@ EXCEPT !.pc = "counted", !.status = status,
                                 !.summary = [NoSummary EXCEPT !.pending = db.pending, !.at = Version]]
                  ELSE Served(s, status)]
  BY DEF CountPending
<1>3. PICK v \in 0..(2 * MaxOrders), p \in 0..MaxOrders : v = Version /\ p = db.pending
  BY VersionTyped DEF PanelInv, Typed
<1>4. CASE status \in Passed
  <2>1. PICK y : y = [NoSummary EXCEPT !.pending = p, !.at = v]  OBVIOUS
  <2>2. y \in Summary /\ y.at = v /\ y.pending = p
    <3>1. y = [pending |-> p, latest |-> 0, at |-> v, torn |-> FALSE]  BY <2>1 DEF NoSummary
    <3>2. 0 \in 0..MaxOrders  BY BoundsTyped
    <3> QED  BY <3>1, <3>2, <1>3 DEF Summary
  <2>3. PICK X : X = [net[s] EXCEPT !.pc = "counted", !.status = status, !.summary = y]  OBVIOUS
  <2>4. /\ X \in Packets(B, R) /\ X.pc = "counted" /\ X.kind = net[s].kind /\ X.kind = "summary"
        /\ X.status \in Passed /\ X.summary = y
    <3>1. net[s].kind = "summary"  BY DEF CountPending
    <3>2. PICK Z \in Packets(B, R) : Z = net[s]  BY <1>1
    <3>3. X = [Z EXCEPT !.pc = "counted", !.status = status, !.summary = y]  BY <2>3, <3>2
    <3>4. /\ X \in Packets(B, R) /\ X.pc = "counted" /\ X.kind = Z.kind
          /\ X.status = status /\ X.summary = y
      BY <1>4, <2>2, <3>3 DEF Packets
    <3> QED  BY <1>4, <3>1, <3>2, <3>4
  <2>5. net' = [net EXCEPT ![s] = X]  BY <1>1, <1>2, <1>3, <1>4, <2>1, <2>3
  <2>6. /\ X.summary.at <= Version
        /\ X.summary.at = Version => X.summary.pending = db.pending
    BY <1>3, <2>2, <2>4
  <2> QED  BY <1>1, <2>4, <2>5, <2>6, SummaryServed DEF CountPending
<1>5. CASE status \notin Passed
  <2>1. status = "refused"  BY <1>5, StatusesFrom
  <2>2. PICK X : X = Served(s, status)  OBVIOUS
  <2>3. /\ X \in Packets(B, R) /\ X.pc = "served" /\ X.kind = net[s].kind /\ X.status \notin Passed
    BY <1>1, <1>5, <2>1, <2>2 DEF Served, Packets
  <2>4. net' = [net EXCEPT ![s] = X]  BY <1>2, <1>5, <2>2
  <2> QED  BY <1>1, <2>3, <2>4, SummaryServed DEF CountPending
<1> QED  BY <1>4, <1>5

LEMMA ReadLatestKept ==
    ASSUME PanelInv, NEW s \in Slots, ReadLatest(s) PROVE Kept
<1>1. PICK B, R : 0 \in B /\ <<>> \in R /\ net \in [Slots -> Packets(B, R)]
  BY DEF PanelInv, NetTyped
<1>2. PICK v \in 0..(2 * MaxOrders), l \in 0..MaxOrders, p \in 0..MaxOrders :
        v = Version /\ l = db.latest /\ p = net[s].summary.pending
  BY <1>1, VersionTyped DEF PanelInv, Typed, Packets, Summary
<1>3. PICK torn \in BOOLEAN : torn = (net[s].summary.at # v)  OBVIOUS
<1>4. PICK y : y = [pending |-> p, latest |-> l, at |-> v, torn |-> torn]  OBVIOUS
<1>5. y \in Summary /\ y.at = v /\ y.pending = p /\ y.latest = l /\ y.torn = torn
  BY <1>4 DEF Summary
<1>6. PICK X : X = [net[s] EXCEPT !.pc = "served", !.summary = y]  OBVIOUS
<1>7. X \in Packets(B, R) /\ X.pc = "served" /\ X.kind = net[s].kind /\ X.summary = y
  BY <1>1, <1>5, <1>6 DEF Packets
<1>8. net' = [net EXCEPT ![s] = X]  BY <1>1, <1>2, <1>3, <1>4, <1>6 DEF ReadLatest
<1>9. ~torn => v = 2 * l - p
  <2>1. net[s].summary.at = Version => net[s].summary.pending = db.pending
    BY DEF ReadLatest, PanelInv, Told
  <2>2. v = 2 * l - db.pending  BY <1>2 DEF Version
  <2> QED  BY <2>1, <2>2, <1>2, <1>3
<1>10. /\ X.summary.at <= Version
       /\ ~X.summary.torn => X.summary.at = 2 * X.summary.latest - X.summary.pending
  BY <1>2, <1>5, <1>7, <1>9
<1> QED  BY <1>1, <1>7, <1>8, <1>10, SummaryServed DEF ReadLatest

-----------------------------------------------------------------------------
(* The answers.                                                            *)

LEMMA NotSummary ==
    ASSUME NEW s \in Slots, NEW kinds, "summary" \notin kinds, net[s].kind \in kinds
    PROVE  s \notin Summaries
  BY DEF Summaries, Under

\* An answer that leaves the poll and the lists alone.
LEMMA OverKept ==
    ASSUME PanelInv, NEW s \in Slots \ Summaries, Over(s), Quiet, UNCHANGED poll,
           note' \in NoteType, note'.asked = note.asked, note'.doubt = note.doubt,
           note'.strays = note.strays,
           cookie' \in Tokens \cup {NoToken},
           page' = page \/ page' = [page EXCEPT !.screen = "login"]
    PROVE  Kept
<1> USE DEF PanelInv
<1>1. NetTyped' /\ NewOrOld /\ Summaries' = Summaries \ {s}  BY OverKeeps
<1>2. /\ page' \in [screen : {"boot", "login", "app"}, loggedIn : BOOLEAN, tab : Tabs]
      /\ page'.loggedIn = page.loggedIn /\ page'.tab = page.tab
  BY DEF Typed
<1>3. Typed'  BY <1>2 DEF Quiet, Typed
<1>4. PollMoves  BY <1>1, <1>2 DEF PollMoves, Untouched
<1>5. Told'  BY <1>1, ToldKept DEF Quiet
<1>6. AsksAgain'  BY <1>2, AsksKept
<1>7. AuthInv'  BY AuthKept DEF Quiet
<1> QED  BY <1>1, <1>3, <1>4, <1>5, <1>6, <1>7 DEF Kept

LEMMA ShowAppKept ==
    ASSUME PanelInv, NEW s \in Slots \ Summaries, NEW t \in Tokens \cup {NoToken},
           ShowApp(s, t), Quiet, cookie' \in Tokens \cup {NoToken}
    PROVE  Kept
<1> USE DEF PanelInv
<1>1. PICK tab \in Tabs :
        /\ page' = [screen |-> "app", loggedIn |-> TRUE, tab |-> tab]
        /\ poll' = Started(poll)
        /\ Post({s}, Calls(Opened(tab, TRUE), t))
        /\ note' = NotedOpening(Opened(tab, TRUE))
  BY DEF ShowApp
<1>2. PICK kinds : kinds = Opened(tab, TRUE)  OBVIOUS
<1>3. kinds \in SUBSET (Kinds \ {"summary"}) /\ (tab # "other" => kinds \cap Lists # {})
  BY <1>2, ListsAsked
<1>4. NetTyped' /\ NewOrOld /\ Summaries' = Summaries \ {s}
  <2>1. {s} \in SUBSET Slots /\ kinds \in SUBSET Kinds /\ "summary" \notin kinds  BY <1>3
  <2>2. Post({s}, Calls(kinds, t))  BY <1>1, <1>2
  <2> QED  BY <2>1, <2>2, PostKeeps
<1>5. /\ note' \in NoteType /\ note'.strays = note.strays
      /\ kinds \cap Lists # {} => note'.asked = Version
  BY <1>1, <1>2, OpeningTyped
<1>6. /\ poll' \in PollType /\ poll'.active /\ poll'.busy = poll.busy /\ poll'.base = poll.base
      /\ poll'.timer \/ (poll.active /\ poll'.timer = poll.timer)
  BY <1>1, StartedStopped DEF Typed
<1>7. Typed'  BY <1>1, <1>5, <1>6 DEF Quiet, Typed
<1>8. PollMoves
  <2>1. Summaries' = Summaries  BY <1>4
  <2> QED  BY <2>1, <1>1, <1>5, <1>6 DEF PollMoves, Resumed
<1>9. Told'  BY <1>4, <1>6, ToldKept DEF Quiet
<1>10. AsksAgain'
  <2>1. page'.loggedIn /\ page'.tab # "other" => note'.asked = Version  BY <1>1, <1>3, <1>5
  <2> QED  BY <2>1, <1>9, AsksNow DEF Quiet
<1>11. AuthInv'  BY AuthKept DEF Quiet
<1> QED  BY <1>4, <1>7, <1>8, <1>9, <1>10, <1>11 DEF Kept

\* The answer to a list may change what is shown.
LEMMA ListAnswers ==
    ASSUME PanelInv, NEW s \in Slots,
           PendingAnswered(s) \/ OrdersAnswered(s) \/ OrdersFailed(s)
    PROVE  /\ note' \in NoteType /\ note'.asked = note.asked /\ note'.doubt = note.doubt
           /\ note'.strays = note.strays
<1>1. PICK at \in Nat : at = net[s].at  BY BoundsTyped DEF PanelInv, NetTyped, Packets, Versions
<1>2. note' \in {note, NotedShown(at), NotedLost}
  BY <1>1 DEF PendingAnswered, OrdersAnswered, OrdersFailed
<1> QED  BY <1>2, ShownTyped DEF PanelInv, Typed

LEMMA BootAnsweredKept == ASSUME PanelInv, NEW s \in Slots, BootAnswered(s) PROVE Kept
<1>0. note \in NoteType  BY DEF PanelInv, Typed
<1>1. s \notin Summaries  BY NotSummary DEF BootAnswered, Answered
<1>2. cookie \in Tokens \cup {NoToken} /\ cookie' = cookie  BY DEF PanelInv, Typed, BootAnswered
<1>3. CASE ShowApp(s, cookie)  BY <1>1, <1>2, <1>3, ShowAppKept DEF BootAnswered
<1>4. CASE /\ page' = [page EXCEPT !.screen = "login"]
           /\ Over(s)
           /\ UNCHANGED <<poll, list, note>>
  BY <1>0, <1>1, <1>2, <1>4, OverKept DEF BootAnswered
<1> QED  BY <1>3, <1>4 DEF BootAnswered

LEMMA LoginAnsweredKept == ASSUME PanelInv, NEW s \in Slots, LoginAnswered(s) PROVE Kept
<1>0. note \in NoteType  BY DEF PanelInv, Typed
<1>1. s \notin Summaries  BY NotSummary DEF LoginAnswered, Answered
<1>2. cookie \in Tokens \cup {NoToken} /\ net[s].issued \in Tokens \cup {NoToken}
  BY DEF PanelInv, Typed, NetTyped, Packets
<1>3. CASE cookie' = net[s].issued /\ ShowApp(s, net[s].issued)
  BY <1>1, <1>2, <1>3, ShowAppKept DEF LoginAnswered
<1>4. CASE Over(s) /\ UNCHANGED <<cookie, page, poll, list, note>>
  BY <1>0, <1>1, <1>2, <1>4, OverKept DEF LoginAnswered
<1> QED  BY <1>3, <1>4 DEF LoginAnswered

LEMMA LogoutAnsweredKept == ASSUME PanelInv, NEW s \in Slots, LogoutAnswered(s) PROVE Kept
<1>1. s \notin Summaries  BY NotSummary DEF LogoutAnswered, Answered
<1>2. cookie' \in Tokens \cup {NoToken}  BY DEF PanelInv, Typed, LogoutAnswered
<1>3. note \in NoteType  BY DEF PanelInv, Typed
<1> QED  BY <1>1, <1>2, <1>3, OverKept DEF LogoutAnswered

LEMMA PendingAnsweredKept == ASSUME PanelInv, NEW s \in Slots, PendingAnswered(s) PROVE Kept
<1>1. s \notin Summaries  BY NotSummary DEF PendingAnswered, Answered
<1>2. cookie' \in Tokens \cup {NoToken}  BY DEF PanelInv, Typed, PendingAnswered
<1> QED  BY <1>1, <1>2, ListAnswers, OverKept DEF PendingAnswered

LEMMA OrdersAnsweredKept == ASSUME PanelInv, NEW s \in Slots, OrdersAnswered(s) PROVE Kept
<1>1. s \notin Summaries  BY NotSummary DEF OrdersAnswered, Answered
<1>2. cookie' \in Tokens \cup {NoToken}  BY DEF PanelInv, Typed, OrdersAnswered
<1> QED  BY <1>1, <1>2, ListAnswers, OverKept DEF OrdersAnswered

LEMMA OrdersFailedKept == ASSUME PanelInv, NEW s \in Slots, OrdersFailed(s) PROVE Kept
<1>1. s \notin Summaries  BY NotSummary DEF OrdersFailed, Answered
<1>2. cookie' \in Tokens \cup {NoToken}  BY DEF PanelInv, Typed, OrdersFailed
<1> QED  BY <1>1, <1>2, ListAnswers, OverKept DEF OrdersFailed

LEMMA ResolveAnsweredKept == ASSUME PanelInv, NEW s \in Slots, ResolveAnswered(s) PROVE Kept
<1>1. s \notin Summaries  BY NotSummary DEF ResolveAnswered, Answered
<1>2. PICK r : r = PollNow(poll, page.loggedIn)  OBVIOUS
<1>3. Ticks(poll, page.loggedIn, r)  BY <1>2, PollNowGives DEF PanelInv, Typed
<1>4. /\ poll' = r.poll /\ Post({s}, Calls(Refreshed \cup r.calls, cookie))
      /\ note' = Noted(Refreshed, note.doubt) /\ UNCHANGED <<cookie, page, list>> /\ Quiet
  BY <1>2 DEF ResolveAnswered
<1>5. {s} \in SUBSET Slots /\ {s} \cap Summaries = {}  BY <1>1
<1> QED  BY <1>3, <1>4, <1>5, RefreshKept

LEMMA ExpiredKept ==
    ASSUME PanelInv, NEW s \in Slots, page.loggedIn, SessionExpired(s), Over(s), Quiet,
           UNCHANGED <<cookie, list>>
    PROVE  Kept
<1> USE DEF PanelInv
<1>1. NetTyped' /\ NewOrOld /\ Summaries' = Summaries \ {s}  BY OverKeeps
<1>2. /\ page' = [page EXCEPT !.screen = "login", !.loggedIn = FALSE]
      /\ poll' = Stopped(poll)
      /\ note' = [note EXCEPT !.strays = Cardinality(Summaries \ {s})]
  BY DEF SessionExpired, Summaries
<1>3. poll' \in PollType /\ ~poll'.active /\ ~poll'.busy /\ poll'.base = poll.base
  BY <1>2, StartedStopped DEF Typed
<1>4. Cardinality(Summaries \ {s}) \in Nat
  <2>1. Summaries \ {s} \subseteq Summaries  OBVIOUS
  <2> QED  BY <2>1, FiniteSummaries, FS_Subset, FS_CardinalityType
<1>5. /\ note' \in NoteType
      /\ note'.strays = Cardinality(Summaries')
  BY <1>1, <1>2, <1>4 DEF Typed
<1>6. /\ page' \in [screen : {"boot", "login", "app"}, loggedIn : BOOLEAN, tab : Tabs]
      /\ ~page'.loggedIn
  BY <1>2 DEF Typed
<1>7. Typed'  BY <1>3, <1>5, <1>6 DEF Quiet, Typed
<1>8. PollMoves  BY <1>3, <1>5, <1>6 DEF PollMoves, Halted
<1>9. Told'  BY <1>1, <1>3, ToldKept DEF Quiet
<1>10. AsksAgain'  BY <1>6 DEF AsksAgain
<1>11. AuthInv'  BY AuthKept DEF Quiet
<1> QED  BY <1>1, <1>7, <1>8, <1>9, <1>10, <1>11 DEF Kept

LEMMA RefusedKept == ASSUME PanelInv, NEW s \in Slots, Refused(s) PROVE Kept
<1>1. s \notin Summaries  BY NotSummary DEF Refused, Answered
<1>2. CASE page.loggedIn  BY <1>2, ExpiredKept DEF Refused
<1>3. CASE ~page.loggedIn
  <2>1. UNCHANGED <<page, poll, note>>  BY <1>3 DEF Refused, SessionExpired
  <2>2. cookie' \in Tokens \cup {NoToken}  BY DEF PanelInv, Typed, Refused
  <2>3. note \in NoteType  BY DEF PanelInv, Typed
  <2> QED  BY <1>1, <2>1, <2>2, <2>3, OverKept DEF Refused
<1> QED  BY <1>2, <1>3

\* A summary is over, with an answer that becomes the base or without one.
LEMMA EndKept ==
    ASSUME PanelInv, NEW s \in Summaries, NEW p \in PollType,
           p.active = poll.active, p.base # None => Tells(p.base),
           NEW r, r = Afterwards(p, page.loggedIn), poll' = r.poll,
           NEW lists \in SUBSET (Kinds \ {"summary"}), Post({s}, Calls(lists \cup r.calls, cookie)),
           note' \in NoteType, note'.strays = note.strays,
           UNCHANGED <<cookie, page>>, Quiet
    PROVE  Typed' /\ NetTyped' /\ PollMoves /\ Told' /\ AuthInv' /\ poll'.base = p.base
<1> USE DEF PanelInv
<1>1. cookie \in Tokens \cup {NoToken} /\ page.loggedIn \in BOOLEAN /\ page.loggedIn = poll.active
  BY DEF Typed, Polled
<1>2. /\ poll' \in PollType /\ poll'.active = poll.active /\ poll'.base = p.base
      /\ r.calls \in SUBSET {"summary"}
      /\ r.calls # {} <=> poll'.busy
      /\ poll.active => poll'.timer \/ poll'.busy
  BY <1>1, AfterwardsGives
<1>3. lists \cup r.calls \in SUBSET Kinds /\ {s} \in SUBSET Slots
  BY <1>2 DEF Kinds, Summaries, Under
<1>4. /\ NetTyped' /\ NewOrOld
      /\ "summary" \notin lists \cup r.calls => Summaries' = Summaries \ {s}
      /\ "summary" \in lists \cup r.calls =>
            \E x \in Slots \ (Summaries \ {s}) : Summaries' = (Summaries \ {s}) \cup {x}
  BY <1>1, <1>3, PostKeeps
<1>5. Ended(s)
  <2>1. poll'.busy \in BOOLEAN  BY <1>2 DEF PollType
  <2> QED  BY <2>1, <1>2, <1>4 DEF Ended
<1>6. PollMoves
  <2>1. s \in Slots  BY DEF Summaries, Under
  <2> QED  BY <2>1, <1>5 DEF PollMoves
<1>7. Typed'  BY <1>2 DEF Typed, Quiet
<1>8. Told'
  <2>1. Version' = Version /\ db' = db  BY DEF Version, Quiet
  <2>2. \A q \in Slots : net'[q].pc \in {"counted", "served"} => net'[q] = net[q]
    BY <1>4 DEF NewOrOld
  <2>3. ASSUME NEW q \in Slots, net'[q].pc = "counted"
        PROVE  /\ net'[q].kind = "summary" /\ net'[q].status \in Passed
               /\ net'[q].summary.at <= Version
               /\ net'[q].summary.at = Version => net'[q].summary.pending = db.pending
    BY <2>2, <2>3 DEF Told
  <2>4. ASSUME NEW q \in Slots, net'[q].pc = "served", net'[q].kind = "summary",
               net'[q].status \in Passed
        PROVE  /\ net'[q].summary.at <= Version
               /\ ~net'[q].summary.torn =>
                     net'[q].summary.at = 2 * net'[q].summary.latest - net'[q].summary.pending
    BY <2>2, <2>4 DEF Told, Tells
  <2>5. poll'.base # None => poll'.base.at <= Version /\ (~poll'.base.torn =>
             poll'.base.at = 2 * poll'.base.latest - poll'.base.pending)
    BY <1>2 DEF Tells
  <2> QED  BY <2>1, <2>3, <2>4, <2>5 DEF Told, Tells
<1>9. AuthInv'  BY AuthKept DEF Quiet
<1> QED  BY <1>2, <1>4, <1>6, <1>7, <1>8, <1>9

LEMMA SummaryFailedKept == ASSUME PanelInv, NEW s \in Slots, SummaryFailed(s) PROVE Kept
<1> USE DEF PanelInv
<1>1. s \in Summaries  BY DEF SummaryFailed, Answered, Summaries, Under
<1>2. poll \in PollType /\ (poll.base # None => Tells(poll.base))
      /\ note \in NoteType
  BY DEF Typed, Told
<1>3. PICK r : r = Afterwards(poll, page.loggedIn)  OBVIOUS
<1>4. {} \in SUBSET (Kinds \ {"summary"}) /\ {} \cup r.calls = r.calls  OBVIOUS
<1>5. /\ poll' = r.poll /\ Post({s}, Calls({} \cup r.calls, cookie))
      /\ UNCHANGED <<cookie, page, list, note>> /\ Quiet
  BY <1>3, <1>4 DEF SummaryFailed
<1>6. Typed' /\ NetTyped' /\ PollMoves /\ Told' /\ AuthInv' /\ poll'.base = poll.base
  BY <1>1, <1>2, <1>3, <1>4, <1>5, EndKept
<1>7. AsksAgain'  BY <1>5, <1>6, AsksKept
<1> QED  BY <1>6, <1>7 DEF Kept

\* An answer that tells nothing new is of a version that the list was asked for in.
LEMMA SummaryAnsweredKept == ASSUME PanelInv, NEW s \in Slots, SummaryAnswered(s) PROVE Kept
<1> USE DEF PanelInv
<1>1. s \in Summaries  BY DEF SummaryAnswered, Answered, Summaries, Under
<1>2. PICK answer : answer = net[s].summary  OBVIOUS
<1>3. answer \in Summary  BY <1>2 DEF NetTyped, Packets
<1>4. Tells(answer)
  <2>1. CASE net[s].pc = "served" /\ net[s].status \in Passed
    BY <2>1, <1>1, <1>2 DEF Told, Summaries, Under
  <2>2. "failed" \notin Passed  BY DEF Passed
  <2> QED  BY <2>1, <2>2 DEF SummaryAnswered, Answered
<1>5. PICK p : p = [poll EXCEPT !.base = answer]  OBVIOUS
<1>6. p \in PollType /\ p.active = poll.active /\ p.base = answer
  BY <1>3, <1>5 DEF Typed, PollType
<1>7. PICK r : r = Afterwards(p, page.loggedIn)  OBVIOUS
<1>8. PICK lists : lists = IF Changed(poll.base, answer) THEN Refreshed ELSE {}  OBVIOUS
<1>9. PICK doubt \in BOOLEAN : doubt = (note.doubt \/ ~Comparable(poll.base, answer))  OBVIOUS
<1>10. /\ poll' = r.poll /\ Post({s}, Calls(lists \cup r.calls, cookie))
       /\ note' = Noted(lists, note.doubt \/ ~Comparable(poll.base, answer))
       /\ UNCHANGED <<cookie, page, list>> /\ Quiet
  BY <1>2, <1>5, <1>7, <1>8 DEF SummaryAnswered
<1>11. /\ lists \in SUBSET (Kinds \ {"summary"})
       /\ Changed(poll.base, answer) /\ page.loggedIn /\ page.tab # "other" => lists \cap Lists # {}
  BY <1>8, ListsAsked DEF Typed
<1>12. /\ note' \in NoteType /\ note'.strays = note.strays
       /\ lists \cap Lists # {} => note'.asked = Version
       /\ lists \cap Lists = {} => note'.asked = note.asked /\ note'.doubt = doubt
  BY <1>9, <1>10, NotedTyped
<1>13. Typed' /\ NetTyped' /\ PollMoves /\ Told' /\ AuthInv' /\ poll'.base = answer
  BY <1>1, <1>4, <1>6, <1>7, <1>10, <1>11, <1>12, EndKept
<1>14. AsksAgain'
  <2>1. CASE lists \cap Lists # {}
    BY <2>1, <1>10, <1>12, <1>13, AsksNow DEF Quiet
  <2>2. CASE lists \cap Lists = {}
    <3>1. SUFFICES ASSUME page.loggedIn, page.tab # "other", ~doubt PROVE answer.at <= note.asked
      BY <2>2, <1>10, <1>12, <1>13 DEF AsksAgain
    <3>2. ~note.doubt /\ Comparable(poll.base, answer)  BY <3>1, <1>9
    <3>3. ~Changed(poll.base, answer)  BY <3>1, <2>2, <1>11
    <3>4. /\ poll.base # None /\ ~poll.base.torn /\ ~answer.torn
          /\ poll.base.pending = answer.pending /\ poll.base.latest = answer.latest
      BY <3>2, <3>3 DEF Comparable, Changed
    <3>5. poll.base.at = 2 * poll.base.latest - poll.base.pending
          /\ answer.at = 2 * answer.latest - answer.pending
      BY <3>4, <1>4 DEF Told, Tells
    <3>6. answer.at = poll.base.at  BY <3>4, <3>5
    <3> QED  BY <3>1, <3>2, <3>4, <3>6 DEF AsksAgain
  <2> QED  BY <2>1, <2>2
<1> QED  BY <1>13, <1>14 DEF Kept

LEMMA SummaryRefusedKept == ASSUME PanelInv, NEW s \in Slots, SummaryRefused(s) PROVE Kept
<1> USE DEF PanelInv
<1>1. CASE page.loggedIn  BY <1>1, ExpiredKept DEF SummaryRefused
<1>2. CASE ~page.loggedIn
  <2>1. s \in Summaries  BY DEF SummaryRefused, Answered, Summaries, Under
  <2>2. NetTyped' /\ NewOrOld /\ Summaries' = Summaries \ {s}
    BY OverKeeps DEF SummaryRefused
  <2>3. PICK r : r = Afterwards(poll, FALSE)  OBVIOUS
  <2>4. /\ r.poll \in PollType /\ r.poll.active = poll.active /\ r.poll.base = poll.base
        /\ ~r.poll.busy
    BY <2>3, AfterwardsGives DEF Typed
  <2>5. poll' = r.poll /\ UNCHANGED <<page, note, cookie>> /\ Quiet
    BY <1>2, <2>3 DEF SummaryRefused
  <2>6. ~poll.active  BY <1>2 DEF Polled
  <2>7. Ended(s)  BY <2>1, <2>2, <2>4, <2>5, <2>6 DEF Ended
  <2>8. Typed'  BY <2>4, <2>5 DEF Quiet, Typed
  <2>9. Told'  BY <2>2, <2>4, <2>5, ToldKept DEF Quiet
  <2>10. AsksAgain'  BY <1>2, <2>5 DEF AsksAgain
  <2>11. AuthInv'  BY <2>5, AuthKept DEF Quiet
  <2> QED  BY <2>2, <2>7, <2>8, <2>9, <2>10, <2>11 DEF Kept, PollMoves
<1> QED  BY <1>1, <1>2

-----------------------------------------------------------------------------
(* Every step.                                                             *)

LEMMA StutterKept == ASSUME PanelInv, UNCHANGED vars PROVE PanelInv'
  BY DEF PanelInv, vars, panelVars, authVars, Typed, NetTyped, Polled, Told, Tells, AsksAgain,
         AuthInv, Version, Summaries, Under

LEMMA StepKept == ASSUME PanelInv, Next PROVE Kept
<1>1. CASE People
  BY <1>1, LogInKept, LogOutKept, LoadMoreKept, RefreshListKept, ResolveOrderKept, FocusKept,
     OpenTabKept, OrdersArriveKept, OrderResolvedKept, ClockKept DEF People
<1>2. CASE Server
  BY <1>2, ServeLoginKept, ServeLogoutKept, ServeRouteKept, CountPendingKept, ReadLatestKept
     DEF Server
<1>3. CASE Page
  BY <1>3, BootAnsweredKept, LoginAnsweredKept, LogoutAnsweredKept, PendingAnsweredKept,
     OrdersAnsweredKept, OrdersFailedKept, ResolveAnsweredKept, RefusedKept,
     SummaryAnsweredKept, SummaryFailedKept, SummaryRefusedKept, TimerFiresKept DEF Page
<1> QED  BY <1>1, <1>2, <1>3 DEF Next

LEMMA PanelInvKept == PanelInv /\ [Next]_vars => PanelInv'
<1> SUFFICES ASSUME PanelInv, [Next]_vars PROVE PanelInv'  OBVIOUS
<1>1. CASE Next
  <2>1. Kept  BY <1>1, StepKept
  <2>2. Polled'  BY <2>1, PolledKept DEF Kept, PanelInv
  <2> QED  BY <2>1, <2>2 DEF Kept, PanelInv
<1>2. CASE UNCHANGED vars  BY <1>2, StutterKept
<1> QED  BY <1>1, <1>2

LEMMA PanelInvariant == Spec => []PanelInv
  BY InitInv, PanelInvKept, PTL DEF Spec

-----------------------------------------------------------------------------
(* Results.                                                                *)

\* As long as somebody is logged in, the next poll is under way or has its
\* timer, whatever the requests of the page come to (pollTick, stopPolling).
THEOREM PollingGoesOnAlways == Spec => []PollingGoesOn
<1>1. PanelInv => PollingGoesOn  BY DEF PanelInv, Polled, PollingGoesOn, Summaries
<1> QED  BY <1>1, PanelInvariant, PTL

\* Of the polls under way all but one were there when the polling was last
\* stopped (pollTick, stopPolling).
THEOREM OneAtATimeAlways == Spec => []OneAtATime
<1>1. PanelInv => OneAtATime
  BY FiniteSummaries DEF PanelInv, Polled, Typed, OneAtATime, Summaries
<1> QED  BY <1>1, PanelInvariant, PTL

-----------------------------------------------------------------------------
(* The list on the screen.                                                 *)

\* What was asked for is shown, or is on its way.
Coming ==
    page.loggedIn /\ page.tab # "other" /\ ~note.lost
        => note.asked <= note.shown \/ \E s \in Slots : Brings(s, note.asked)

ComingInv == Coming /\ note.asked <= Version

\* A request for a list is still there, or has been handled since.
Stays(s) ==
    \/ net'[s] = net[s]
    \/ net[s].kind \notin Lists
    \/ /\ net'[s].kind = net[s].kind /\ net[s].pc = "sent" /\ net'[s].pc = "served"
       /\ net'[s].at = Version

\* A step that changes nothing of the list, and one that asks for it.
Waiting ==
    /\ page'.loggedIn => page.loggedIn
    /\ page'.tab = page.tab
    /\ Version' \in Nat /\ Version <= Version'
    /\ note'.asked = note.asked /\ note'.shown = note.shown /\ (note.lost => note'.lost)
    /\ \A s \in Slots : Stays(s)

Asking ==
    /\ Version' = Version /\ (note'.asked = Version \/ note'.asked = note.asked)
    /\ page'.loggedIn /\ page'.tab # "other" =>
          \E s \in Slots : net'[s].pc = "sent" /\ net'[s].kind \in ListsOf(page'.tab)

LEMMA ListsOfIn == \A tab : tab \in Tabs => ListsOf(tab) \subseteq Lists
  BY DEF Lists

LEMMA WaitingKept ==
    ASSUME PanelInv, ComingInv, Waiting PROVE ComingInv'
<1>1. note.asked \in Nat /\ Version \in Nat /\ page.tab \in Tabs
  BY VersionTyped, BoundsTyped DEF PanelInv, Typed
<1>2. ASSUME NEW s \in Slots, Brings(s, note.asked) PROVE Brings(s, note.asked)'
  <2>1. net[s].kind \in Lists /\ net[s].kind \in ListsOf(page.tab)
    BY <1>1, <1>2, ListsOfIn DEF Brings
  <2>2. Stays(s) /\ page'.tab = page.tab /\ note'.asked = note.asked  BY DEF Waiting
  <2>3. CASE net'[s] = net[s]  BY <1>2, <2>2, <2>3 DEF Brings
  <2>4. CASE net'[s] # net[s]
    <3>1. net'[s].kind = net[s].kind /\ net'[s].pc = "served" /\ net'[s].at >= note.asked
      BY <1>1, <2>1, <2>2, <2>4 DEF Stays, ComingInv
    <3> QED  BY <2>1, <2>2, <3>1 DEF Brings
  <2> QED  BY <2>3, <2>4
<1>3. note.asked <= Version'
  <2>1. note.asked <= Version /\ Version <= Version' /\ Version' \in Nat
    BY DEF ComingInv, Waiting
  <2> QED  BY <1>1, <2>1
<1> QED  BY <1>2, <1>3 DEF ComingInv, Coming, Waiting

LEMMA AskingKept ==
    ASSUME PanelInv, ComingInv, Asking PROVE ComingInv'
<1>1. note.asked \in Nat /\ Version \in Nat  BY VersionTyped, BoundsTyped DEF PanelInv, Typed
<1>2. note'.asked <= Version'  BY <1>1 DEF Asking, ComingInv
<1>3. \A s \in Slots : net'[s].pc = "sent" /\ net'[s].kind \in ListsOf(page'.tab) =>
                           Brings(s, note.asked)'
  BY DEF Brings
<1> QED  BY <1>2, <1>3 DEF Asking, ComingInv, Coming

\* A list that nobody waits for any more is not what is asked for.
LEMMA AnswerKept ==
    ASSUME PanelInv, ComingInv, NEW r \in Slots, Over(r), page' = page, db' = db,
           \/ note' = NotedLost
           \/ note' = note /\ net[r].kind \notin ListsOf(page.tab)
           \/ note' = NotedShown(net[r].at) /\ net[r].pc = "served" /\ net[r].status \in Passed
    PROVE  ComingInv'
<1>1. /\ note.asked \in Nat /\ note.shown \in Nat /\ note.lost \in BOOLEAN
      /\ \A s \in Slots : s # r => net'[s] = net[s]
  BY DEF PanelInv, Typed, NetTyped, Over
<1>2. PICK at \in Nat : at = net[r].at  BY BoundsTyped DEF PanelInv, NetTyped, Packets, Versions
<1>3. Version' = Version  BY DEF Version
<1>4. note' = NotedLost \/ note' = NotedShown(at) \/ note' = note  BY <1>2
<1>5. note'.asked = note.asked  BY <1>2, <1>4, ShownTyped DEF PanelInv
<1>6. note'.asked <= Version'  BY <1>3, <1>5 DEF ComingInv
<1>7. ASSUME NEW s \in Slots, s # r, Brings(s, note.asked) PROVE Brings(s, note.asked)'
  BY <1>1, <1>5, <1>7 DEF Brings
<1>8. CASE note' = NotedLost
  <2>1. note'.lost  BY <1>8, <1>2, ShownTyped DEF PanelInv
  <2> QED  BY <2>1, <1>6 DEF ComingInv, Coming
<1>9. CASE note' = note /\ net[r].kind \notin ListsOf(page.tab)
  <2>1. ~Brings(r, note.asked)  BY <1>9 DEF Brings
  <2> QED  BY <2>1, <1>6, <1>7, <1>9 DEF ComingInv, Coming
<1>10. CASE note' = NotedShown(at) /\ net[r].pc = "served" /\ net[r].status \in Passed
  <2>1. note'.shown = at /\ note'.lost = (note.lost \/ at < note.shown)
    BY <1>10, ShownTyped DEF PanelInv
  <2>2. SUFFICES ASSUME page'.loggedIn, page'.tab # "other", ~note'.lost
                 PROVE  note'.asked <= note'.shown \/ \E s \in Slots : Brings(s, note.asked)'
    BY <1>6 DEF ComingInv, Coming
  <2>3. ~note.lost /\ at >= note.shown
    <3>1. ~note.lost /\ ~(at < note.shown)  BY <2>1, <2>2, Zenon
    <3> QED  BY <3>1, <1>1, <1>2
  <2>4. note.asked <= note.shown \/ \E s \in Slots : Brings(s, note.asked)
    BY <2>2, <2>3 DEF ComingInv, Coming
  <2>5. CASE note.asked <= note.shown  BY <2>1, <2>3, <2>5, <1>1, <1>2, <1>5
  <2>6. CASE Brings(r, note.asked)
    <3>1. net[r].status # "refused"  BY <1>10 DEF Passed
    <3>2. at >= note.asked  BY <3>1, <2>6, <1>2, <1>10 DEF Brings
    <3> QED  BY <3>2, <2>1, <1>1, <1>5
  <2> QED  BY <2>4, <2>5, <2>6, <1>7
<1> QED  BY <1>2, <1>4, <1>8, <1>9, <1>10, Zenon

\* Calls take the places of nothing, or of what is over.
LEMMA PostStays ==
    ASSUME NetTyped, NEW gone \in SUBSET Slots, NEW calls, Post(gone, calls),
           \A g \in gone : net[g].kind \notin Lists
    PROVE  \A s \in Slots : Stays(s)
<1>1. PICK to : Places(to, gone, calls)  BY Posted
<1>2. \A s \in Slots : net[s].pc = "free" => net[s].kind \notin Lists
  BY NoneDiffers, ListKinds DEF NetTyped, Kinds
<1>3. \A c \in calls : to[c] \in {s \in Slots : net[s].pc = "free"} \cup gone  BY <1>1 DEF Places
<1>4. ASSUME NEW s \in Slots PROVE net'[s] = net[s] \/ net[s].kind \notin Lists
  <2>1. CASE \E c \in calls : to[c] = s  BY <2>1, <1>2, <1>3
  <2>2. CASE \A c \in calls : to[c] # s
    <3>1. s \notin gone => net'[s] = net[s]  BY <2>2, <1>1 DEF Places
    <3> QED  BY <3>1
  <2> QED  BY <2>1, <2>2
<1> QED  BY <1>4 DEF Stays

LEMMA PostAsks ==
    ASSUME NEW gone \in SUBSET Slots, NEW kinds, NEW t, Post(gone, Calls(kinds, t)),
           NEW tab, NEW k \in kinds, k \in ListsOf(tab)
    PROVE  \E s \in Slots : net'[s].pc = "sent" /\ net'[s].kind \in ListsOf(tab)
<1>1. PICK to : Places(to, gone, Calls(kinds, t))  BY Posted
<1>2. Request(k, t) \in Calls(kinds, t)  BY DEF Calls
<1>3. /\ to[Request(k, t)] \in Slots
      /\ net'[to[Request(k, t)]] = Request(k, t)
  BY <1>1, <1>2 DEF Places
<1>4. net'[to[Request(k, t)]].pc = "sent" /\ net'[to[Request(k, t)]].kind = k
  BY <1>3, RequestFields
<1> QED  BY <1>3, <1>4

\* A tab that is opened, or refreshed, asks for its list.
LEMMA TabsAsk ==
    ASSUME NEW tab \in Tabs \ {"other"}
    PROVE  /\ \E k \in Opened(tab, TRUE) : k \in ListsOf(tab)
           /\ page.loggedIn /\ page.tab = tab => \E k \in Refreshed : k \in ListsOf(tab)
  BY DEF Tabs, Opened, Refreshed, ListsOf

\* The lists are refreshed, whatever else is asked for.
LEMMA RefreshComing ==
    ASSUME PanelInv, ComingInv, NEW gone \in SUBSET Slots, NEW kinds, NEW doubt \in BOOLEAN,
           Post(gone, Calls(Refreshed \cup kinds, cookie)), note' = Noted(Refreshed, doubt),
           UNCHANGED <<page, db>>
    PROVE  ComingInv'
<1>1. page.tab \in Tabs  BY DEF PanelInv, Typed
<1>2. note'.asked = Version \/ note'.asked = note.asked  BY NotedTyped DEF PanelInv
<1>3. ASSUME page.loggedIn, page.tab # "other"
      PROVE  \E s \in Slots : net'[s].pc = "sent" /\ net'[s].kind \in ListsOf(page.tab)
  <2>1. PICK k \in Refreshed : k \in ListsOf(page.tab)  BY <1>1, <1>3, TabsAsk
  <2>2. k \in Refreshed \cup kinds  BY <2>1
  <2> QED  BY <2>1, <2>2, PostAsks
<1>4. Version' = Version /\ page' = page  BY DEF Version
<1>5. Asking  BY <1>2, <1>3, <1>4 DEF Asking
<1> QED  BY <1>5, AskingKept

LEMMA PeopleComing == ASSUME PanelInv, ComingInv, People PROVE ComingInv'
<1> USE DEF PanelInv
<1>0. /\ {} \in SUBSET Slots /\ \A g \in {} : net[g].kind \notin Lists
      /\ page.loggedIn \in BOOLEAN /\ page.tab \in Tabs /\ Version \in Nat /\ note.doubt \in BOOLEAN
  BY VersionTyped, BoundsTyped DEF Typed
<1>1. CASE LogIn \/ LoadMore \/ ResolveOrder \/ Focus
  <2>1. \E calls : Post({}, calls)  BY <1>1 DEF LogIn, LoadMore, ResolveOrder, Focus
  <2>2. \A s \in Slots : Stays(s)  BY <1>0, <2>1, PostStays
  <2>3. UNCHANGED <<db, page, note>>  BY <1>1 DEF LogIn, LoadMore, ResolveOrder, Focus, Quiet
  <2>4. Version' = Version  BY <2>3 DEF Version
  <2> QED  BY <1>0, <2>2, <2>3, <2>4, WaitingKept DEF Waiting
<1>2. CASE LogOut
  <2>1. ~page'.loggedIn /\ note'.asked = note.asked /\ db' = db  BY <1>2 DEF LogOut, Typed, Quiet
  <2>2. Asking  BY <2>1 DEF Asking, Version
  <2> QED  BY <2>2, AskingKept
<1>3. ASSUME NEW tab \in Tabs, OpenTab(tab) PROVE ComingInv'
  <2>1. /\ page' = [page EXCEPT !.tab = tab] /\ note' = NotedOpening(Opened(tab, page.loggedIn))
        /\ Post({}, Calls(Opened(tab, page.loggedIn), cookie)) /\ db' = db
    BY <1>3 DEF OpenTab, Quiet
  <2>2. page'.tab = tab /\ page'.loggedIn = page.loggedIn  BY <2>1 DEF Typed
  <2>3. note'.asked = Version \/ note'.asked = note.asked  BY <2>1, OpeningTyped
  <2>4. Version' = Version  BY <2>1 DEF Version
  <2>5. ASSUME page.loggedIn, tab # "other"
        PROVE  \E s \in Slots : net'[s].pc = "sent" /\ net'[s].kind \in ListsOf(tab)
    <3>1. Opened(tab, page.loggedIn) = Opened(tab, TRUE)  BY <2>5, <1>0
    <3>2. PICK k \in Opened(tab, page.loggedIn) : k \in ListsOf(tab)  BY <2>5, <3>1, TabsAsk
    <3> QED  BY <1>0, <2>1, <3>2, PostAsks
  <2>6. Asking  BY <2>2, <2>3, <2>4, <2>5 DEF Asking
  <2> QED  BY <2>6, AskingKept
<1>4. CASE RefreshList
  <2>1. PICK kinds : Post({}, Calls(Refreshed \cup kinds, cookie))  BY <1>4 DEF RefreshList
  <2>2. note' = Noted(Refreshed, note.doubt) /\ UNCHANGED <<page, db>>  BY <1>4 DEF RefreshList, Quiet
  <2> QED  BY <1>0, <2>1, <2>2, RefreshComing
<1>5. CASE OrdersArrive \/ OrderResolved \/ Clock
  <2>1. UNCHANGED <<page, net, note>>  BY <1>5 DEF OrdersArrive, OrderResolved, Clock, panelVars
  <2>2. Version' \in Nat /\ Version <= Version'
    <3>1. CASE OrdersArrive  BY <1>0, <3>1, BoundsTyped DEF OrdersArrive, Version, Typed
    <3>2. CASE OrderResolved
      <4>1. Version' = Version + 1  BY <3>2, OneDecided DEF OrderResolved
      <4> QED  BY <4>1, <1>0
    <3>3. CASE Clock  BY <1>0, <3>3 DEF Clock, panelVars, Version
    <3> QED  BY <1>5, <3>1, <3>2, <3>3
  <2>3. \A s \in Slots : Stays(s)  BY <2>1 DEF Stays
  <2> QED  BY <2>1, <2>2, <2>3, WaitingKept DEF Waiting
<1> QED  BY <1>1, <1>2, <1>3, <1>4, <1>5 DEF People

LEMMA ServerComing == ASSUME PanelInv, ComingInv, Server PROVE ComingInv'
<1> USE DEF PanelInv
<1>0. PICK s \in Slots :
        \/ \E t \in Tokens : ServeLogin(s, t)
        \/ ServeLogout(s) \/ ServeRoute(s) \/ CountPending(s) \/ ReadLatest(s)
  BY DEF Server
<1>1. Version \in Nat  BY VersionTyped, BoundsTyped
<1>2. PICK P : net \in [Slots -> P]  BY DEF NetTyped
<1>3. UNCHANGED <<page, note>>
  BY <1>0 DEF ServeLogin, ServeLogout, ServeRoute, CountPending, ReadLatest, ServerOnly
<1>4. CASE ServeRoute(s)
  <2>1. PICK status, rows, at :
          /\ status \in Statuses(net[s].token)
          /\ at = IF net[s].kind \in Lists THEN Version ELSE 0
          /\ net' = [net EXCEPT ![s] = [Served(s, status) EXCEPT !.at = at, !.rows = rows]]
          /\ \/ /\ status \in Passed /\ net[s].kind = "resolve" /\ Waits
                /\ db' = [db EXCEPT !.pending = @ - 1]
             \/ UNCHANGED db
    BY <1>4, RouteAnswered
  <2>2. net'[s] = [Served(s, status) EXCEPT !.at = at, !.rows = rows]
        /\ \A r \in Slots : r # s => net'[r] = net[r]
    BY <2>1, <1>2
  <2>3. PICK B, R : net[s] \in Packets(B, R)  BY DEF NetTyped
  <2>4. net'[s].kind = net[s].kind /\ net'[s].pc = "served" /\ net'[s].at = at
    BY <2>2, <2>3 DEF Served, Packets
  <2>5. net[s].pc = "sent"  BY <1>4 DEF ServeRoute
  <2>6. \A r \in Slots : Stays(r)  BY <2>1, <2>2, <2>4, <2>5 DEF Stays
  <2>7. Version' \in Nat /\ Version <= Version'
    <3>1. CASE UNCHANGED db  BY <3>1, <1>1 DEF Version
    <3>2. CASE Waits /\ db' = [db EXCEPT !.pending = @ - 1]
      <4>1. Version' = Version + 1  BY <3>2, OneDecided
      <4> QED  BY <4>1, <1>1
    <3> QED  BY <2>1, <3>1, <3>2
  <2> QED  BY <1>3, <2>6, <2>7, WaitingKept DEF Waiting
<1>5. CASE (\E t \in Tokens : ServeLogin(s, t)) \/ ServeLogout(s) \/ CountPending(s) \/ ReadLatest(s)
  <2>1. net[s].kind \in {"login", "logout", "summary"}
    BY <1>5 DEF ServeLogin, ServeLogout, CountPending, ReadLatest, Told
  <2>2. \E X : net' = [net EXCEPT ![s] = X]
    <3>1. \A t : ServeLogin(s, t) => \E X : net' = [net EXCEPT ![s] = X]  BY DEF ServeLogin
    <3>2. ServeLogout(s) => \E X : net' = [net EXCEPT ![s] = X]  BY DEF ServeLogout
    <3>3. CountPending(s) => \E X : net' = [net EXCEPT ![s] = X]  BY Zenon DEF CountPending
    <3>4. ReadLatest(s) => \E X : net' = [net EXCEPT ![s] = X]  BY Zenon DEF ReadLatest
    <3> QED  BY <1>5, <3>1, <3>2, <3>3, <3>4
  <2>3. \A r \in Slots : r # s => net'[r] = net[r]  BY <2>2, <1>2
  <2>4. \A r \in Slots : Stays(r)  BY <2>1, <2>3, ListKinds DEF Stays
  <2>5. db' = db  BY <1>5 DEF ServeLogin, ServeLogout, CountPending, ReadLatest, Quiet
  <2>6. Version' \in Nat /\ Version <= Version'  BY <2>5, <1>1 DEF Version
  <2> QED  BY <1>3, <2>4, <2>6, WaitingKept DEF Waiting
<1> QED  BY <1>0, <1>4, <1>5

LEMMA PageComing == ASSUME PanelInv, ComingInv, Page PROVE ComingInv'
<1> USE DEF PanelInv
<1>0. /\ {} \in SUBSET Slots /\ \A g \in {} : net[g].kind \notin Lists
      /\ Version \in Nat /\ note.doubt \in BOOLEAN /\ page.loggedIn \in BOOLEAN
  BY VersionTyped, BoundsTyped DEF Typed
<1>1. CASE TimerFires
  <2>1. \E calls : Post({}, calls)  BY <1>1 DEF TimerFires
  <2>2. \A s \in Slots : Stays(s)  BY <1>0, <2>1, PostStays
  <2>3. UNCHANGED <<db, page, note>>  BY <1>1 DEF TimerFires, Quiet
  <2>4. Version' = Version  BY <2>3 DEF Version
  <2> QED  BY <1>0, <2>2, <2>3, <2>4, WaitingKept DEF Waiting
<1>2. SUFFICES ASSUME NEW s \in Slots,
                      \/ BootAnswered(s) \/ LoginAnswered(s) \/ LogoutAnswered(s)
                      \/ PendingAnswered(s) \/ OrdersAnswered(s) \/ OrdersFailed(s)
                      \/ ResolveAnswered(s) \/ Refused(s)
                      \/ SummaryAnswered(s) \/ SummaryFailed(s) \/ SummaryRefused(s)
               PROVE  ComingInv'
  BY <1>1 DEF Page
<1>3. {s} \in SUBSET Slots /\ net[s].kind = net[s].kind  OBVIOUS
<1>4. ASSUME net[s].kind \notin Lists, Over(s), UNCHANGED <<db, note>>,
             page' = page \/ page' = [page EXCEPT !.screen = "login"]
      PROVE  ComingInv'
  <2>1. PICK P : net \in [Slots -> P]  BY DEF NetTyped
  <2>2. \A r \in Slots : Stays(r)  BY <1>4, <2>1 DEF Over, Stays
  <2>3. page'.loggedIn = page.loggedIn /\ page'.tab = page.tab  BY <1>4 DEF Typed
  <2>4. Version' = Version  BY <1>4 DEF Version
  <2> QED  BY <1>0, <1>4, <2>2, <2>3, <2>4, WaitingKept DEF Waiting
<1>5. ASSUME NEW t, ShowApp(s, t), db' = db PROVE ComingInv'
  <2>1. PICK tab \in Tabs :
          /\ page' = [screen |-> "app", loggedIn |-> TRUE, tab |-> tab]
          /\ Post({s}, Calls(Opened(tab, TRUE), t))
          /\ note' = NotedOpening(Opened(tab, TRUE))
    BY <1>5 DEF ShowApp
  <2>2. note'.asked = Version \/ note'.asked = note.asked  BY <2>1, OpeningTyped
  <2>3. ASSUME tab # "other"
        PROVE  \E r \in Slots : net'[r].pc = "sent" /\ net'[r].kind \in ListsOf(tab)
    <3>1. PICK k \in Opened(tab, TRUE) : k \in ListsOf(tab)  BY <2>3, TabsAsk
    <3> QED  BY <1>3, <2>1, <3>1, PostAsks
  <2>4. Version' = Version /\ page'.tab = tab  BY <1>5, <2>1 DEF Version
  <2>5. Asking  BY <2>2, <2>3, <2>4 DEF Asking
  <2> QED  BY <2>5, AskingKept
<1>6. CASE BootAnswered(s) \/ LoginAnswered(s) \/ LogoutAnswered(s)
  <2>1. net[s].kind \notin Lists
    BY <1>6, ListKinds DEF BootAnswered, LoginAnswered, LogoutAnswered, Answered
  <2> QED  BY <1>4, <1>5, <1>6, <2>1 DEF BootAnswered, LoginAnswered, LogoutAnswered, Quiet
<1>7. CASE ~page'.loggedIn /\ note'.asked = note.asked /\ db' = db
  <2>1. Asking  BY <1>7 DEF Asking, Version
  <2> QED  BY <2>1, AskingKept
<1>8. CASE Refused(s) \/ SummaryRefused(s)
  <2>1. SessionExpired(s) => ~page'.loggedIn /\ note'.asked = note.asked
    BY DEF SessionExpired, Typed
  <2>2. ~page'.loggedIn /\ note'.asked = note.asked  BY <1>8, <2>1 DEF Refused, SummaryRefused
  <2> QED  BY <1>7, <1>8, <2>2 DEF Refused, SummaryRefused, Quiet
<1>9. CASE ResolveAnswered(s)
  <2>1. PICK kinds : Post({s}, Calls(Refreshed \cup kinds, cookie))  BY <1>9 DEF ResolveAnswered
  <2>2. note' = Noted(Refreshed, note.doubt) /\ UNCHANGED <<page, db>>
    BY <1>9 DEF ResolveAnswered, Quiet
  <2> QED  BY <1>0, <1>3, <2>1, <2>2, RefreshComing
<1>10. CASE SummaryAnswered(s) \/ SummaryFailed(s)
  <2>1. net[s].kind \notin Lists /\ \A g \in {s} : net[g].kind \notin Lists
    BY <1>10, ListKinds DEF SummaryAnswered, SummaryFailed, Answered
  <2>2. UNCHANGED <<page, db>>  BY <1>10 DEF SummaryAnswered, SummaryFailed, Quiet
  <2>3. ASSUME NEW calls, Post({s}, calls), note'.asked = note.asked, note'.shown = note.shown,
               note'.lost = note.lost
        PROVE  ComingInv'
    <3>1. \A r \in Slots : Stays(r)  BY <1>3, <2>1, <2>3, PostStays
    <3>2. Version' = Version  BY <2>2 DEF Version
    <3> QED  BY <1>0, <2>2, <2>3, <3>1, <3>2, WaitingKept DEF Waiting
  <2>4. CASE SummaryFailed(s)
    <3>1. note' = note /\ \E calls : Post({s}, calls)  BY <2>4 DEF SummaryFailed
    <3> QED  BY <3>1, <2>3
  <2>5. CASE SummaryAnswered(s)
    <3>1. PICK lists : lists = IF Changed(poll.base, net[s].summary) THEN Refreshed ELSE {}
      OBVIOUS
    <3>4. PICK doubt \in BOOLEAN : doubt = (note.doubt \/ ~Comparable(poll.base, net[s].summary))
      OBVIOUS
    <3>5. PICK kinds : Post({s}, Calls(lists \cup kinds, cookie))
      BY <2>5, <3>1 DEF SummaryAnswered
    <3>6. note' = Noted(lists, doubt)  BY <2>5, <3>1, <3>4 DEF SummaryAnswered
    <3>7. lists = Refreshed \/ lists = {}  BY <3>1
    <3>2. CASE lists = Refreshed  BY <1>3, <2>2, <3>2, <3>5, <3>6, RefreshComing
    <3>3. CASE lists = {}
      <4>1. lists \cap Lists = {}  BY <3>3
      <4>2. note'.asked = note.asked /\ note'.shown = note.shown /\ note'.lost = note.lost
        BY <3>6, <4>1, NotedTyped
      <4> QED  BY <2>3, <3>5, <4>2
    <3> QED  BY <3>2, <3>3, <3>7
  <2> QED  BY <1>10, <2>4, <2>5
<1>11. CASE PendingAnswered(s)
  <2>1. net[s].kind = "pending" /\ Over(s) /\ page' = page /\ db' = db
    BY <1>11 DEF PendingAnswered, Answered, Quiet
  <2>2. page.tab # "dashboard" => net[s].kind \notin ListsOf(page.tab)
    BY <2>1 DEF Typed, Tabs, ListsOf
  <2>3. "failed" \notin Passed  BY DEF Passed
  <2> QED  BY <1>11, <2>1, <2>2, <2>3, AnswerKept DEF PendingAnswered, Answered
<1>12. CASE OrdersAnswered(s) \/ OrdersFailed(s)
  <2>1. net[s].kind \in {"load", "more", "head"} /\ Over(s) /\ page' = page /\ db' = db
    BY <1>12 DEF OrdersAnswered, OrdersFailed, Answered, Quiet
  <2>2. page.tab # "orders" \/ net[s].kind = "more" => net[s].kind \notin ListsOf(page.tab)
    BY <2>1 DEF Typed, Tabs, ListsOf
  <2>3. "failed" \notin Passed  BY DEF Passed
  <2> QED  BY <1>12, <2>1, <2>2, <2>3, AnswerKept DEF OrdersAnswered, OrdersFailed, Answered
<1> QED  BY <1>2, <1>6, <1>8, <1>9, <1>10, <1>11, <1>12

LEMMA ComingKept == PanelInv /\ ComingInv /\ [Next]_vars => ComingInv'
<1>1. ASSUME UNCHANGED vars, ComingInv PROVE ComingInv'
  BY <1>1 DEF vars, panelVars, ComingInv, Coming, Brings, Version
<1> QED  BY <1>1, PeopleComing, ServerComing, PageComing DEF Next

LEMMA ComingInitially == Init => ComingInv
<1> SUFFICES ASSUME Init PROVE ComingInv  OBVIOUS
<1>1. Version \in Nat /\ note.asked = 0  BY InitInv, VersionTyped, BoundsTyped DEF Init, PanelInv
<1> QED  BY <1>1 DEF Init, ComingInv, Coming

\* The list on the screen holds what the last summary counts, or is about to, for
\* any number of requests under way, answered in any order or not at all, with
\* the exceptions that ListCatchesUp names (pollTick, refreshOrdersHead,
\* refreshDashboardLive).
THEOREM ListCatchesUpAlways == Spec => []ListCatchesUp
<1>1. PanelInv /\ ComingInv => ListCatchesUp
  <2> SUFFICES ASSUME PanelInv, ComingInv, page.loggedIn, page.tab # "other", poll.base # None,
                      ~note.doubt, ~note.lost
               PROVE  poll.base.at <= note.shown \/ \E s \in Slots : Brings(s, poll.base.at)
    BY DEF ListCatchesUp
  <2>1. PICK n \in Nat, a \in Nat, b \in Nat :
          n = note.shown /\ a = note.asked /\ b = poll.base.at /\ b <= a
    BY BoundsTyped DEF PanelInv, Typed, PollType, Summary, AsksAgain
  <2>2. ASSUME NEW s \in Slots, Brings(s, note.asked) PROVE Brings(s, poll.base.at)
    <3>1. net[s].at \in Nat  BY BoundsTyped DEF PanelInv, NetTyped, Packets, Versions
    <3> QED  BY <2>1, <2>2, <3>1 DEF Brings
  <2>3. note.asked <= note.shown \/ \E s \in Slots : Brings(s, note.asked)
    BY DEF ComingInv, Coming
  <2> QED  BY <2>1, <2>2, <2>3
<1>2. Spec => []ComingInv  BY ComingInitially, ComingKept, PanelInvariant, PTL DEF Spec
<1> QED  BY <1>1, <1>2, PanelInvariant, PTL

-----------------------------------------------------------------------------
(* Tokens that have been logged out.                                       *)

\* Nobody but the server answers a request.
Unanswered == \A s \in Slots : \/ net'[s].pc = "sent"
                               \/ net'[s].status # "ok"
                               \/ net'[s] = net[s]

LEMMA PostUnanswered ==
    ASSUME NEW gone \in SUBSET Slots, NEW calls, \A c \in calls : c.pc = "sent", Post(gone, calls)
    PROVE  Unanswered
<1>1. \A s \in Slots : \/ net'[s] \in calls
                       \/ net'[s] = NoRequest
                       \/ s \notin gone /\ net'[s] = net[s]
  BY PostedEach
<1> QED  BY <1>1, RequestFields, NoneDiffers DEF Unanswered

LEMMA CallsUnanswered ==
    ASSUME NEW gone \in SUBSET Slots, NEW kinds, NEW t, Post(gone, Calls(kinds, t)) PROVE Unanswered
<1>1. \A c \in Calls(kinds, t) : c.pc = "sent"  BY RequestFields DEF Calls
<1> QED  BY <1>1, PostUnanswered

LEMMA OverUnanswered ==
    ASSUME NetTyped, NEW s \in Slots, Over(s) PROVE Unanswered
<1>1. \A r \in Slots : net'[r] = IF r = s THEN NoRequest ELSE net[r]
  BY DEF Over, NetTyped
<1> QED  BY <1>1, RequestFields, NoneDiffers DEF Unanswered

LEMMA PeopleUnanswered == ASSUME People PROVE Unanswered
<1>0. {} \in SUBSET Slots  OBVIOUS
<1>1. CASE LogIn  BY <1>0, <1>1, CallsUnanswered DEF LogIn
<1>2. CASE LogOut  BY <1>0, <1>2, CallsUnanswered DEF LogOut
<1>3. CASE LoadMore
  <2>1. PICK call : /\ call = [Request("more", cookie) EXCEPT !.before = list.orders[Len(list.orders)]]
                    /\ Post({}, {call})
    BY <1>3 DEF LoadMore
  <2>2. call.pc = "sent"  BY <2>1 DEF Request, NoRequest
  <2> QED  BY <1>0, <2>1, <2>2, PostUnanswered
<1>4. CASE RefreshList  BY <1>0, <1>4, CallsUnanswered DEF RefreshList
<1>5. CASE ResolveOrder  BY <1>0, <1>5, CallsUnanswered DEF ResolveOrder
<1>6. CASE Focus  BY <1>0, <1>6, CallsUnanswered DEF Focus
<1>7. ASSUME NEW tab \in Tabs, OpenTab(tab) PROVE Unanswered
  BY <1>0, <1>7, CallsUnanswered DEF OpenTab
<1>8. CASE OrdersArrive \/ OrderResolved \/ Clock
  BY <1>8 DEF OrdersArrive, OrderResolved, Clock, panelVars, Unanswered
<1> QED  BY <1>1, <1>2, <1>3, <1>4, <1>5, <1>6, <1>7, <1>8 DEF People

LEMMA PageUnanswered == ASSUME NetTyped, Page PROVE Unanswered
<1>1. CASE TimerFires
  <2>1. {} \in SUBSET Slots  OBVIOUS
  <2> QED  BY <2>1, <1>1, CallsUnanswered DEF TimerFires
<1>2. ASSUME NEW s \in Slots,
             \/ BootAnswered(s) \/ LoginAnswered(s) \/ LogoutAnswered(s)
             \/ PendingAnswered(s) \/ OrdersAnswered(s) \/ OrdersFailed(s)
             \/ ResolveAnswered(s) \/ Refused(s)
             \/ SummaryAnswered(s) \/ SummaryFailed(s) \/ SummaryRefused(s)
      PROVE  Unanswered
  <2>1. {s} \in SUBSET Slots  OBVIOUS
  <2>2. \A t : ShowApp(s, t) => Unanswered  BY <2>1, CallsUnanswered DEF ShowApp
  <2>3. CASE BootAnswered(s)  BY <2>2, <2>3, OverUnanswered DEF BootAnswered
  <2>4. CASE LoginAnswered(s)  BY <2>2, <2>4, OverUnanswered DEF LoginAnswered
  <2>5. CASE LogoutAnswered(s) \/ PendingAnswered(s) \/ OrdersAnswered(s) \/ OrdersFailed(s)
    BY <2>5, OverUnanswered DEF LogoutAnswered, PendingAnswered, OrdersAnswered, OrdersFailed
  <2>6. CASE Refused(s) \/ SummaryRefused(s)
    BY <2>6, OverUnanswered DEF Refused, SummaryRefused
  <2>7. CASE ResolveAnswered(s)  BY <2>1, <2>7, CallsUnanswered DEF ResolveAnswered
  <2>8. CASE SummaryAnswered(s)  BY <2>1, <2>8, CallsUnanswered DEF SummaryAnswered
  <2>9. CASE SummaryFailed(s)  BY <2>1, <2>9, CallsUnanswered DEF SummaryFailed
  <2> QED  BY <1>2, <2>3, <2>4, <2>5, <2>6, <2>7, <2>8, <2>9
<1> QED  BY <1>1, <1>2 DEF Page

\* The server says ok to a token that has no revocation, or one that is over.
LEMMA ServerAdmits ==
    ASSUME NetTyped, Server, NEW s \in Slots,
           net[s].pc = "sent", net'[s].pc # "sent", net[s].kind \notin {"login", "logout"},
           net'[s].status = "ok"
    PROVE  Admitted(net[s].token, TRUE)
<1>0. net \in [Slots -> Packets({net[q].before : q \in Slots}, {net[q].rows : q \in Slots})]
  <2>1. PICK B, R : net \in [Slots -> Packets(B, R)]  BY DEF NetTyped
  <2> QED  BY <2>1 DEF Packets
<1>1. PICK r \in Slots :
        \/ \E t \in Tokens : ServeLogin(r, t)
        \/ ServeLogout(r) \/ ServeRoute(r) \/ CountPending(r) \/ ReadLatest(r)
  BY DEF Server
<1>2. r = s
  <2>1. PICK P : net \in [Slots -> P]  BY <1>0
  <2>2. \E X : net' = [net EXCEPT ![r] = X]
    <3>1. ServeRoute(r) => \E X : net' = [net EXCEPT ![r] = X]  BY RouteAnswered
    <3>2. \A t : ServeLogin(r, t) => \E X : net' = [net EXCEPT ![r] = X]  BY DEF ServeLogin
    <3>3. ServeLogout(r) => \E X : net' = [net EXCEPT ![r] = X]  BY DEF ServeLogout
    <3>4. CountPending(r) => \E X : net' = [net EXCEPT ![r] = X]  BY Zenon DEF CountPending
    <3>5. ReadLatest(r) => \E X : net' = [net EXCEPT ![r] = X]  BY Zenon DEF ReadLatest
    <3> QED  BY <1>1, <3>1, <3>2, <3>3, <3>4, <3>5
  <2>3. r # s => net'[s] = net[s]  BY <2>1, <2>2
  <2> QED  BY <2>3
<1>3. CASE ServeRoute(s)
  <2>1. PICK status, rows, at :
          /\ status \in Statuses(net[s].token)
          /\ at = IF net[s].kind \in Lists THEN Version ELSE 0
          /\ net' = [net EXCEPT ![s] = [Served(s, status) EXCEPT !.at = at, !.rows = rows]]
          /\ \/ /\ status \in Passed /\ net[s].kind = "resolve" /\ Waits
                /\ db' = [db EXCEPT !.pending = @ - 1]
             \/ UNCHANGED db
    BY <1>3, RouteAnswered
  <2>2. PICK P : net \in [Slots -> P]  BY <1>0
  <2>3. net'[s] = [Served(s, status) EXCEPT !.at = at, !.rows = rows]  BY <2>1, <2>2
  <2>4. PICK B, R : net[s] \in Packets(B, R)  BY <1>0
  <2>5. net'[s].status = status  BY <2>3, <2>4 DEF Served, Packets
  <2> QED  BY <2>1, <2>5, StatusesFrom
<1>4. CASE CountPending(s)
  <2>1. PICK status \in Statuses(net[s].token) :
          net' = [net EXCEPT ![s] =
                    IF status \in Passed
                    THEN [@ EXCEPT !.pc = "counted", !.status = status,
                                   !.summary = [NoSummary EXCEPT !.pending = db.pending, !.at = Version]]
                    ELSE Served(s, status)]
    BY <1>4, Zenon DEF CountPending
  <2>2. net'[s].status = status
    <3>1. CASE status \in Passed  BY <2>1, <3>1, <1>0 DEF Packets
    <3>2. CASE status \notin Passed  BY <2>1, <3>2, <1>0 DEF Served, Packets
    <3> QED  BY <3>1, <3>2
  <2> QED  BY <2>1, <2>2, StatusesFrom
<1> QED  BY <1>1, <1>2, <1>3, <1>4 DEF ServeLogin, ServeLogout, ReadLatest

\* A token that was logged out is not admitted before the second it expires in
\* (POST /logout, requireAdmin).
THEOREM LoggedOutStaysOutAlways == Spec => LoggedOutStaysOut
<1> DEFINE Out(s) ==
         net[s].pc = "sent" /\ net'[s].pc # "sent" /\ net[s].kind \notin {"login", "logout"}
             /\ net'[s].status = "ok" /\ net[s].token \in loggedOut
         => NowSec >= expiry[net[s].token]
<1>1. ASSUME PanelInv, Next, NEW s \in Slots,
             net[s].pc = "sent", net'[s].pc # "sent", net[s].kind \notin {"login", "logout"},
             net'[s].status = "ok", net[s].token \in loggedOut
      PROVE  NowSec >= expiry[net[s].token]
  <2>1. Server
    <3>1. ~Unanswered  BY <1>1 DEF Unanswered
    <3> QED  BY <3>1, <1>1, PeopleUnanswered, PageUnanswered DEF Next, PanelInv
  <2>2. Admitted(net[s].token, TRUE)  BY <2>1, <1>1, ServerAdmits DEF PanelInv
  <2>3. PICK t \in Tokens : t = net[s].token /\ t \in loggedOut
    BY <1>1 DEF PanelInv, AuthInv
  <2>4. now \in Nat /\ expiry[t] \in Int /\ revoked[t] \in Int /\ revoked[t] >= 2 * expiry[t]
    BY <1>1, <2>3 DEF PanelInv, AuthInv
  <2>5. ~(revoked[t] > now)  BY <2>2, <2>3 DEF Admitted, Revoked
  <2>6. PICK n \in Nat, e \in Int : n = now /\ e = expiry[t] /\ n >= 2 * e
    BY <2>4, <2>5
  <2>7. PICK k \in Nat : k = n \div 2  OBVIOUS
  <2>8. k >= e  BY <2>6, <2>7
  <2> QED  BY <2>3, <2>6, <2>7, <2>8 DEF NowSec
<1>2. PanelInv /\ [Next]_vars => [\A s \in Slots : Out(s)]_vars  BY <1>1
<1>3. Spec => [][\A s \in Slots : Out(s)]_vars  BY <1>2, PanelInvariant, PTL DEF Spec
<1> QED  BY <1>3 DEF LoggedOutStaysOut

-----------------------------------------------------------------------------
(* Sequences of orders.                                                    *)

\* Every set of numbers has a least one: what the proofs by induction rest on.
LEMMA LeastNumber ==
    ASSUME NEW T \in SUBSET Nat, T # {}
    PROVE  \E x \in T : \A y \in T : x <= y
<1> DEFINE R == {ss \in Nat \X Nat : ss[1] < ss[2]}
<1>1. IsWellFoundedOn(R, Nat)  BY NatLessThanWellFounded DEF OpToRel
<1> HIDE DEF R
<1>2. PICK x \in T : \A y \in T : ~ (<<y, x>> \in R)  BY <1>1, WFMin
<1>3. \A y \in T : ~(y < x)  BY <1>2 DEF R
<1> QED  BY <1>3

\* A set of numbers that has 0, and the next of each one below a bound, has all
\* up to the bound.
LEMMA AllUpTo ==
    ASSUME NEW n \in Nat, NEW T, 0 \in T, \A k \in 0..n : k > 0 /\ k - 1 \in T => k \in T
    PROVE  0..n \subseteq T
<1> DEFINE Bad == (0..n) \ T
<1>1. SUFFICES ASSUME Bad # {} PROVE FALSE  OBVIOUS
<1>2. PICK k \in Bad : \A j \in Bad : k <= j
  <2>1. Bad \in SUBSET Nat  OBVIOUS
  <2> HIDE DEF Bad
  <2> QED  BY <1>1, <2>1, LeastNumber
<1>3. k > 0 /\ k \in 0..n /\ k \notin T  BY <1>2
<1>4. k - 1 \notin Bad /\ k - 1 \in 0..n  BY <1>2, <1>3
<1>5. k - 1 \in T  BY <1>4
<1> QED  BY <1>3, <1>5

\* What OlderThan has kept of the first n orders.
Keeps(minId, orders, n, F) ==
    F = [i \in 0..n |->
           IF i = 0 THEN <<>>
           ELSE IF orders[i] < minId THEN Append(F[i - 1], orders[i])
           ELSE F[i - 1]]

LEMMA OlderDefined ==
    ASSUME NEW minId, NEW orders, Len(orders) \in Nat
    PROVE  \E F : Keeps(minId, orders, Len(orders), F) /\ OlderThan(minId, orders) = F[Len(orders)]
<1> DEFINE N == Len(orders)
           T == {n \in 0..N : \E F : Keeps(minId, orders, n, F)}
<1>1. 0 \in T
  <2>1. Keeps(minId, orders, 0, [i \in 0..0 |-> <<>>])  BY DEF Keeps
  <2> QED  BY <2>1
<1>2. ASSUME NEW k \in 0..N, k > 0, k - 1 \in T PROVE k \in T
  <2>1. PICK F : Keeps(minId, orders, k - 1, F)  BY <1>2
  <2> DEFINE more == IF orders[k] < minId THEN Append(F[k - 1], orders[k]) ELSE F[k - 1]
             G == [i \in 0..k |-> IF i < k THEN F[i] ELSE more]
  <2>2. k - 1 \in 0..k - 1 /\ k \in 0..k /\ k \in Nat  BY <1>2
  <2>3. G[k] = more  BY <2>2
  <2>4. \A i \in 0..k - 1 : G[i] = F[i]  BY <2>2
  <2>5. \A i \in 0..k - 1 : F[i] = IF i = 0 THEN <<>>
                                   ELSE IF orders[i] < minId THEN Append(F[i - 1], orders[i])
                                   ELSE F[i - 1]
    BY <2>1 DEF Keeps
  <2> HIDE DEF G, more
  <2>6. ASSUME NEW i \in 0..k
        PROVE  G[i] = IF i = 0 THEN <<>>
                      ELSE IF orders[i] < minId THEN Append(G[i - 1], orders[i])
                      ELSE G[i - 1]
    <3>1. CASE i < k
      <4>1. i \in 0..k - 1 /\ (i # 0 => i - 1 \in 0..k - 1)  BY <3>1, <2>2
      <4> QED  BY <4>1, <2>4, <2>5
    <3>2. CASE i = k
      <4>1. G[k - 1] = F[k - 1]  BY <2>2, <2>4
      <4> QED  BY <4>1, <3>2, <2>3, <1>2 DEF more
    <3> QED  BY <3>1, <3>2, <2>2
  <2>7. G = [i \in 0..k |-> G[i]]  BY DEF G
  <2>8. Keeps(minId, orders, k, G)  BY <2>6, <2>7 DEF Keeps
  <2> QED  BY <2>8
<1>3. N \in T
  <2> HIDE DEF T
  <2>1. 0..N \subseteq T  BY <1>1, <1>2, AllUpTo
  <2> QED  BY <2>1
<1>4. Keeps(minId, orders, N, CHOOSE F : Keeps(minId, orders, N, F))  BY <1>3
<1>5. OlderThan(minId, orders) = (CHOOSE F : Keeps(minId, orders, N, F))[N]
  BY DEF OlderThan, Keeps
<1> QED  BY <1>4, <1>5

\* An order is kept or left out, one after the other.
LEMMA OlderSteps ==
    ASSUME NEW S, NEW orders \in Seq(S), NEW minId
    PROVE  \E F : /\ F[0] = <<>>
                  /\ \A i \in 1..Len(orders) :
                        F[i] = IF orders[i] < minId THEN Append(F[i - 1], orders[i]) ELSE F[i - 1]
                  /\ OlderThan(minId, orders) = F[Len(orders)]
<1>1. Len(orders) \in Nat  OBVIOUS
<1>2. PICK F : Keeps(minId, orders, Len(orders), F) /\ OlderThan(minId, orders) = F[Len(orders)]
  BY <1>1, OlderDefined
<1>3. \A i \in 0..Len(orders) :
        F[i] = IF i = 0 THEN <<>>
               ELSE IF orders[i] < minId THEN Append(F[i - 1], orders[i])
               ELSE F[i - 1]
  BY <1>2 DEF Keeps
<1>4. F[0] = <<>>  BY <1>1, <1>3
<1>5. \A i \in 1..Len(orders) :
        F[i] = IF orders[i] < minId THEN Append(F[i - 1], orders[i]) ELSE F[i - 1]
  BY <1>1, <1>3
<1> QED  BY <1>2, <1>4, <1>5

LEMMA OlderTyped ==
    ASSUME NEW S, NEW orders \in Seq(S), NEW minId
    PROVE  OlderThan(minId, orders) \in Seq(S)
<1>1. PICK F : /\ F[0] = <<>>
               /\ \A i \in 1..Len(orders) :
                     F[i] = IF orders[i] < minId THEN Append(F[i - 1], orders[i]) ELSE F[i - 1]
               /\ OlderThan(minId, orders) = F[Len(orders)]
  BY OlderSteps
<1>2. PICK N \in Nat : N = Len(orders)  OBVIOUS
<1> DEFINE T == {n \in 0..N : F[n] \in Seq(S)}
<1>3. 0 \in T
  <2>1. <<>> \in Seq(S)  OBVIOUS
  <2>2. F[0] \in Seq(S)  BY <2>1, <1>1
  <2> QED  BY <2>2
<1>4. ASSUME NEW k \in 0..N, k > 0, k - 1 \in T PROVE k \in T
  <2>1. k \in 1..N /\ orders[k] \in S  BY <1>2, <1>4
  <2>2. F[k - 1] \in Seq(S)  BY <1>4
  <2>3. Append(F[k - 1], orders[k]) \in Seq(S)  BY <2>1, <2>2
  <2>4. F[k] \in Seq(S)  BY <1>1, <1>2, <2>1, <2>2, <2>3
  <2> QED  BY <2>4
<1>5. 0..N \subseteq T
  <2> HIDE DEF T
  <2> QED  BY <1>3, <1>4, AllUpTo
<1> QED  BY <1>1, <1>2, <1>5

\* Orders one after the other, in descending order.
Consecutive(q) == \A i \in 1..Len(q) : q[i] = q[1] + 1 - i

\* The older of consecutive orders that reach up to minId follow on it, and end
\* where all of them end.
LEMMA OlderOfConsecutive ==
    ASSUME NEW orders \in Seq(Nat), NEW minId \in Nat, Consecutive(orders),
           orders # <<>> => orders[1] >= minId - 1
    PROVE  LET q == OlderThan(minId, orders)
           IN  \A j \in 1..Len(q) : q[j] = minId - j
<1>1. PICK F : /\ F[0] = <<>>
               /\ \A i \in 1..Len(orders) :
                     F[i] = IF orders[i] < minId THEN Append(F[i - 1], orders[i]) ELSE F[i - 1]
               /\ OlderThan(minId, orders) = F[Len(orders)]
  BY OlderSteps
<1>2. PICK N \in Nat : N = Len(orders)  OBVIOUS
<1>3. CASE N = 0  BY <1>1, <1>2, <1>3
<1>4. CASE N > 0
  <2>1. orders # <<>> /\ orders[1] \in Nat  BY <1>2, <1>4
  <2>2. PICK k \in Nat : k = orders[1] + 1 - minId  BY <2>1
  <2>3. ASSUME NEW i \in 1..N PROVE orders[i] = minId + k - i
    <3>1. orders[i] = orders[1] + 1 - i  BY <1>2 DEF Consecutive
    <3> QED  BY <2>1, <2>2, <3>1
  <2> DEFINE Right(n) == /\ F[n] \in Seq(Int)
                         /\ Len(F[n]) = IF n <= k THEN 0 ELSE n - k
                         /\ \A j \in 1..Len(F[n]) : F[n][j] = minId - j
             T == {n \in 0..N : Right(n)}
  <2>4. 0 \in T
    <3>1. <<>> \in Seq(Int) /\ Len(<<>>) = 0  OBVIOUS
    <3>2. Right(0)  BY <1>1, <3>1
    <3> QED  BY <3>2
  <2>5. ASSUME NEW n \in 0..N, n > 0, n - 1 \in T PROVE n \in T
    <3>1. PICK p : p = F[n - 1]  OBVIOUS
    <3>2. /\ p \in Seq(Int)
          /\ Len(p) = IF n - 1 <= k THEN 0 ELSE n - 1 - k
          /\ \A j \in 1..Len(p) : p[j] = minId - j
      BY <2>5, <3>1
    <3>3. n \in 1..N /\ orders[n] = minId + k - n  BY <2>3, <2>5
    <3>4. F[n] = IF orders[n] < minId THEN Append(p, orders[n]) ELSE p
      BY <1>1, <1>2, <3>1, <3>3
    <3>5. CASE n <= k
      <4>1. F[n] = p /\ Len(p) = 0  BY <3>2, <3>3, <3>4, <3>5
      <4>2. Right(n)  BY <4>1, <3>2, <3>5
      <4> QED  BY <4>2
    <3>6. CASE n > k
      <4>1. PICK e \in Int : e = orders[n] /\ e = minId - (n - k)  BY <3>3
      <4>2. F[n] = Append(p, e)  BY <4>1, <3>3, <3>4, <3>6
      <4>3. Len(p) = n - 1 - k  BY <3>2, <3>6
      <4>4. /\ Append(p, e) \in Seq(Int) /\ Len(Append(p, e)) = n - k
            /\ \A j \in 1..Len(p) : Append(p, e)[j] = p[j]
            /\ Append(p, e)[n - k] = e
        BY <4>3, <3>2, <3>6, AppendProperties
      <4>5. \A j \in 1..n - k : Append(p, e)[j] = minId - j
        <5>1. ASSUME NEW j \in 1..n - k PROVE j \in 1..Len(p) \/ j = n - k
          BY <4>3, <3>3, <3>6
        <5> QED  BY <5>1, <4>1, <4>4, <3>2
      <4>6. Right(n)  BY <4>2, <4>4, <4>5, <3>6
      <4> QED  BY <4>6
    <3> QED  BY <3>5, <3>6
  <2>6. 0..N \subseteq T
    <3> HIDE DEF T
    <3> QED  BY <2>4, <2>5, AllUpTo
  <2>7. Right(N)  BY <2>6
  <2> QED  BY <2>7, <1>1, <1>2
<1> QED  BY <1>3, <1>4

-----------------------------------------------------------------------------
(* The list of orders.                                                     *)

\* What listOrders answers: limit orders from top on, or all that there are.
Run(top, limit) == [i \in 1..Smaller(top, limit) |-> top + 1 - i]

\* The orders listed are consecutive, and the last is the first of all unless
\* there is a button for more: OrdersListed of any list.
Listed(l) ==
    l.mixed \/ l.gap
    \/ (Consecutive(l.orders)
        /\ (Len(l.orders) > 0 /\ ~l.hasMore => l.orders[Len(l.orders)] = 1))

ListType ==
    [orders : Seq(1..MaxOrders), hasMore : BOOLEAN, drawn : BOOLEAN, mixed : BOOLEAN, gap : BOOLEAN]

LEMMA LimitsTyped == PageLimit \in Nat \ {0} /\ HeadLimit \in Nat \ {0}
  BY PanelAssumption

LEMMA RunGives ==
    ASSUME NEW top \in 0..MaxOrders, NEW limit \in Nat \ {0}
    PROVE  /\ Run(top, limit) \in Seq(1..MaxOrders)
           /\ Len(Run(top, limit)) = Smaller(top, limit)
           /\ Smaller(top, limit) \in Nat /\ Smaller(top, limit) <= top
           /\ Smaller(top, limit) <= limit
           /\ Smaller(top, limit) # limit => Smaller(top, limit) = top
           /\ \A i \in 1..Smaller(top, limit) : Run(top, limit)[i] = top + 1 - i
           /\ Consecutive(Run(top, limit))
<1>1. /\ Smaller(top, limit) \in Nat /\ Smaller(top, limit) <= top
      /\ Smaller(top, limit) <= limit
      /\ Smaller(top, limit) # limit => Smaller(top, limit) = top
  BY BoundsTyped DEF Smaller
<1>2. PICK n \in Nat : n = Smaller(top, limit) /\ n <= top  BY <1>1
<1>3. \A i \in 1..n : top + 1 - i \in 1..MaxOrders  BY <1>2, BoundsTyped
<1>4. Run(top, limit) = [i \in 1..n |-> top + 1 - i]  BY <1>2 DEF Run
<1>5. Run(top, limit) \in Seq(1..MaxOrders) /\ Len(Run(top, limit)) = n  BY <1>3, <1>4
<1>6. \A i \in 1..n : Run(top, limit)[i] = top + 1 - i  BY <1>4
<1>7. Consecutive(Run(top, limit))  BY <1>5, <1>6, BoundsTyped DEF Consecutive
<1> QED  BY <1>1, <1>2, <1>5, <1>6, <1>7

LEMMA RowsAreARun ==
    ASSUME Typed, NEW before \in 0..MaxOrders, NEW limit
    PROVE  \E top \in 0..MaxOrders :
             /\ Rows(before, limit) = Run(top, limit)
             /\ before > 0 => top = before - 1
<1>1. db.latest \in 0..MaxOrders  BY DEF Typed
<1>2. PICK top \in 0..MaxOrders : top = IF before > 0 THEN before - 1 ELSE db.latest
  BY <1>1, BoundsTyped
<1>3. Rows(before, limit) = Run(top, limit)  BY <1>2 DEF Rows, Run
<1> QED  BY <1>2, <1>3

LEMMA ReplacedListed ==
    ASSUME NEW top \in 0..MaxOrders, NEW limit \in Nat \ {0},
           limit = PageLimit \/ Len(Run(top, limit)) < limit
    PROVE  LET l == Replaced(Run(top, limit))
           IN  /\ l \in ListType
               /\ limit = PageLimit => Listed(l)
               /\ Len(Run(top, limit)) < limit => Listed([l EXCEPT !.hasMore = FALSE])
<1>1. PICK q : q = Run(top, limit)  OBVIOUS
<1>2. PICK n \in Nat : n = Smaller(top, limit)  BY RunGives
<1>3. /\ q \in Seq(1..MaxOrders) /\ Len(q) = n /\ Consecutive(q)
      /\ n # limit => n = top
      /\ \A i \in 1..n : q[i] = top + 1 - i
  BY <1>1, <1>2, RunGives
<1>4. Len(q) > 0 /\ n # limit => q[Len(q)] = 1  BY <1>2, <1>3, BoundsTyped
<1>5. PICK l : l = Replaced(q)  OBVIOUS
<1>6. l = [orders |-> q, hasMore |-> Len(q) = PageLimit, drawn |-> TRUE,
           mixed |-> FALSE, gap |-> FALSE]
  BY <1>5 DEF Replaced
<1>7. l \in ListType  BY <1>3, <1>6 DEF ListType
<1>8. limit = PageLimit => Listed(l)  BY <1>3, <1>4, <1>6 DEF Listed
<1>9. n < limit => Listed([l EXCEPT !.hasMore = FALSE])
  <2>1. PICK k : k = [l EXCEPT !.hasMore = FALSE]  OBVIOUS
  <2>2. k.orders = q  BY <2>1, <1>6
  <2>3. n < limit => n # limit  BY <1>2
  <2> QED  BY <2>1, <2>2, <2>3, <1>3, <1>4 DEF Listed
<1> QED  BY <1>1, <1>3, <1>5, <1>7, <1>8, <1>9

\* Rows that follow on the last order listed make the list longer.
LEMMA Lengthened ==
    ASSUME NEW orders \in Seq(1..MaxOrders), NEW first \in Int, NEW q \in Seq(1..MaxOrders),
           \A i \in 1..Len(orders) : orders[i] = first + 1 - i,
           \A j \in 1..Len(q) : q[j] = first + 1 - (Len(orders) + j)
    PROVE  /\ orders \o q \in Seq(1..MaxOrders)
           /\ Len(orders \o q) = Len(orders) + Len(q)
           /\ \A i \in 1..Len(orders \o q) : (orders \o q)[i] = first + 1 - i
           /\ Consecutive(orders \o q)
<1>1. PICK m \in Nat, n \in Nat : m = Len(orders) /\ n = Len(q)  OBVIOUS
<1>2. PICK r : r = orders \o q  OBVIOUS
<1>3. /\ r \in Seq(1..MaxOrders) /\ Len(r) = m + n
      /\ \A i \in 1..m + n : r[i] = IF i <= m THEN orders[i] ELSE q[i - m]
  BY <1>1, <1>2, ConcatProperties
<1>4. ASSUME NEW i \in 1..m + n PROVE r[i] = first + 1 - i
  <2>1. CASE i <= m  BY <2>1, <1>1, <1>3
  <2>2. CASE i > m
    <3>1. PICK j \in 1..n : j = i - m  BY <2>2
    <3>2. r[i] = q[j]  BY <3>1, <2>2, <1>3
    <3>3. q[j] = first + 1 - (m + j)  BY <1>1
    <3> QED  BY <3>1, <3>2, <3>3
  <2> QED  BY <2>1, <2>2
<1>5. Consecutive(r)
  <2>1. m + n > 0 => r[1] = first  BY <1>4
  <2> QED  BY <2>1, <1>3, <1>4 DEF Consecutive
<1> QED  BY <1>1, <1>2, <1>3, <1>4, <1>5

LEMMA AppendedListed ==
    ASSUME list \in ListType, OrdersListed, NEW before \in 1..MaxOrders
    PROVE  LET l == Appended(Run(before - 1, PageLimit), before)
           IN  l \in ListType /\ Listed(l)
<1>1. PICK q : q = Run(before - 1, PageLimit)  OBVIOUS
<1>2. before - 1 \in 0..MaxOrders  BY BoundsTyped
<1>3. PICK n \in Nat : n = Smaller(before - 1, PageLimit)  BY <1>2, LimitsTyped, RunGives
<1>4. /\ q \in Seq(1..MaxOrders) /\ Len(q) = n
      /\ n # PageLimit => n = before - 1
      /\ \A i \in 1..n : q[i] = before - i
  <2>1. \A i \in 1..n : before - 1 + 1 - i = before - i  BY BoundsTyped
  <2> QED  BY <2>1, <1>1, <1>2, <1>3, LimitsTyped, RunGives
<1>5. PICK o \in Seq(1..MaxOrders) : o = list.orders  BY DEF ListType
<1>6. PICK l : l = Appended(q, before)  OBVIOUS
<1>7. o \o q \in Seq(1..MaxOrders)  BY <1>4, <1>5, ConcatProperties
<1>8. /\ l \in ListType /\ l.orders = o \o q /\ l.gap = list.gap
      /\ l.hasMore = (n = PageLimit)
      /\ l.mixed = (list.mixed \/ o = <<>> \/ o[Len(o)] # before)
  BY <1>4, <1>5, <1>6, <1>7 DEF Appended, ListType
<1>9. ASSUME ~l.mixed, ~l.gap
      PROVE  /\ Consecutive(o \o q)
             /\ Len(o \o q) > 0 /\ n # PageLimit => (o \o q)[Len(o \o q)] = 1
  <2>1. ~list.mixed /\ ~list.gap /\ o # <<>> /\ o[Len(o)] = before  BY <1>8, <1>9
  <2>2. PICK m \in Nat \ {0} : m = Len(o)  BY <2>1, EmptySeq
  <2>3. PICK first \in Nat : first = o[1]  BY <2>2, BoundsTyped, ElementOfSeq
  <2>4. \A i \in 1..m : o[i] = first + 1 - i
    BY <2>1, <2>2, <2>3, <1>5 DEF OrdersListed
  <2>5. before = first + 1 - m  BY <2>1, <2>2, <2>4
  <2>6. \A j \in 1..n : q[j] = first + 1 - (m + j)  BY <2>5, <1>4
  <2>7. /\ Len(o \o q) = m + n /\ Consecutive(o \o q)
        /\ \A i \in 1..m + n : (o \o q)[i] = first + 1 - i
    <3>1. \A i \in 1..Len(o) : o[i] = first + 1 - i  BY <2>2, <2>4
    <3>2. \A j \in 1..Len(q) : q[j] = first + 1 - (Len(o) + j)  BY <2>2, <2>6, <1>4
    <3>3. first \in Int /\ Len(q) = n /\ q \in Seq(1..MaxOrders)  BY <1>4
    <3>4. /\ Len(o \o q) = Len(o) + Len(q) /\ Consecutive(o \o q)
          /\ \A i \in 1..Len(o \o q) : (o \o q)[i] = first + 1 - i
      BY <3>1, <3>2, <3>3, Lengthened
    <3> QED  BY <3>3, <3>4, <2>2
  <2>8. ASSUME n # PageLimit PROVE (o \o q)[m + n] = 1
    <3>1. n = before - 1  BY <2>8, <1>4
    <3>2. (o \o q)[m + n] = first + 1 - (m + n)  BY <2>2, <2>7
    <3> QED  BY <3>1, <3>2, <2>2, <2>5
  <2> QED  BY <2>7, <2>8
<1>10. Listed(l)  BY <1>8, <1>9 DEF Listed
<1> QED  BY <1>1, <1>6, <1>8, <1>10

LEMMA HeadedListed ==
    ASSUME list \in ListType, OrdersListed, NEW top \in 0..MaxOrders
    PROVE  LET l == Headed(Run(top, HeadLimit))
           IN  l \in ListType /\ Listed(l)
<1>1. PICK q : q = Run(top, HeadLimit)  OBVIOUS
<1>2. PICK n \in Nat : n = Smaller(top, HeadLimit)  BY LimitsTyped, RunGives
<1>3. /\ q \in Seq(1..MaxOrders) /\ Len(q) = n /\ n <= HeadLimit /\ n <= top
      /\ \A i \in 1..n : q[i] = top + 1 - i
  BY <1>1, <1>2, LimitsTyped, RunGives
<1>4. PICK l : l = Headed(q)  OBVIOUS
<1>5. CASE n < HeadLimit
  <2>1. PICK k : k = Replaced(q)  OBVIOUS
  <2>2. k \in ListType /\ Listed([k EXCEPT !.hasMore = FALSE])
    BY <2>1, <1>1, <1>3, <1>5, LimitsTyped, ReplacedListed
  <2>3. l = [k EXCEPT !.hasMore = FALSE]  BY <2>1, <1>3, <1>4, <1>5 DEF Headed
  <2>4. l \in ListType  BY <2>2, <2>3 DEF ListType
  <2> QED  BY <2>2, <2>3, <2>4, <1>1, <1>4
<1>6. CASE n = HeadLimit
  <2>1. n > 0 /\ n \in 1..n  BY <1>6, LimitsTyped
  <2>2. PICK minId \in 1..MaxOrders : minId = q[Len(q)] /\ minId = top + 1 - n
    BY <2>1, <1>3, BoundsTyped, ElementOfSeq
  <2>3. PICK o \in Seq(1..MaxOrders) : o = list.orders  BY DEF ListType
  <2>4. PICK older \in Seq(1..MaxOrders) : older = OlderThan(minId, o)  BY OlderTyped
  <2>5. q \o older \in Seq(1..MaxOrders)  BY <2>4, <1>3, ConcatProperties
  <2>6. PICK gap \in BOOLEAN : gap = (list.gap \/ (o # <<>> /\ o[1] < minId - 1))  OBVIOUS
  <2>7. l = [list EXCEPT !.orders = q \o older, !.hasMore = TRUE, !.drawn = TRUE, !.gap = gap]
    <3>1. ~(Len(q) < HeadLimit)  BY <1>3, <1>6, LimitsTyped
    <3>2. l = [list EXCEPT !.orders = q \o OlderThan(q[Len(q)], @), !.hasMore = TRUE, !.drawn = TRUE,
                           !.gap = @ \/ (list.orders # <<>> /\ list.orders[1] < q[Len(q)] - 1)]
      BY <3>1, <1>4 DEF Headed
    <3>3. q[Len(q)] = minId /\ q \o OlderThan(minId, list.orders) = q \o older
      BY <2>2, <2>3, <2>4
    <3>4. (list.gap \/ (list.orders # <<>> /\ list.orders[1] < minId - 1)) = gap
      BY <2>3, <2>6
    <3> QED  BY <3>2, <3>3, <3>4 DEF ListType
  <2>8. l \in ListType /\ l.orders = q \o older /\ l.hasMore /\ l.gap = gap /\ l.mixed = list.mixed
    BY <2>5, <2>7 DEF ListType
  <2>9. ASSUME ~l.mixed, ~l.gap PROVE Consecutive(q \o older)
    <3>1. ~list.mixed /\ ~list.gap /\ ~(o # <<>> /\ o[1] < minId - 1)  BY <2>6, <2>8, <2>9
    <3>2. Consecutive(o)  BY <3>1, <2>3 DEF OrdersListed, Consecutive
    <3>3. o \in Seq(Nat) /\ minId \in Nat
      <4>1. 1..MaxOrders \subseteq Nat  BY BoundsTyped
      <4> QED  BY <4>1, SeqMonotonic
    <3>4. o # <<>> => o[1] >= minId - 1
      <4>1. o # <<>> => o[1] \in Nat  BY <3>3, EmptySeq, ElementOfSeq
      <4> QED  BY <4>1, <3>1, <3>3
    <3>5. \A j \in 1..Len(older) : older[j] = minId - j
      BY <3>2, <3>3, <3>4, <2>4, OlderOfConsecutive
    <3>6. \A j \in 1..Len(older) : older[j] = top + 1 - (Len(q) + j)
      BY <3>5, <2>2, <1>3, BoundsTyped
    <3>7. \A i \in 1..Len(q) : q[i] = top + 1 - i  BY <1>3
    <3>8. top \in Int  OBVIOUS
    <3> QED  BY <3>6, <3>7, <3>8, <2>4, <1>3, Lengthened
  <2>10. Listed(l)  BY <2>8, <2>9 DEF Listed
  <2> QED  BY <2>8, <2>10, <1>1, <1>4
<1> QED  BY <1>3, <1>5, <1>6, LimitsTyped

-----------------------------------------------------------------------------
(* The requests, with the orders they are about.                           *)

NetExact == net \in [Slots -> Packets(0..MaxOrders, Seq(1..MaxOrders))]

\* The rows that have come for a list.
RowsTold ==
    \A s \in Slots :
        /\ net[s].kind = "more" => net[s].before \in 1..MaxOrders
        /\ net[s].pc = "served" /\ net[s].status \in Passed =>
              /\ net[s].kind = "load" =>
                    \E top \in 0..MaxOrders : net[s].rows = Run(top, PageLimit)
              /\ net[s].kind = "head" =>
                    \E top \in 0..MaxOrders : net[s].rows = Run(top, HeadLimit)
              /\ net[s].kind = "more" => net[s].rows = Run(net[s].before - 1, PageLimit)

RequestsTold == NetExact /\ RowsTold

\* A request that has just been made, or none at all.
Fresh(r) == r.pc \in {"sent", "free"} /\ (r.kind = "more" => r.before \in 1..MaxOrders)

LEMMA ToldSlots ==
    ASSUME RequestsTold, net' \in [Slots -> Packets(0..MaxOrders, Seq(1..MaxOrders))],
           \A s \in Slots : Fresh(net'[s]) \/ net'[s] = net[s]
    PROVE  RequestsTold'
<1>1. \A s \in Slots : Fresh(net'[s]) => net'[s].pc # "served"  BY DEF Fresh
<1>2. ASSUME NEW s \in Slots
      PROVE  /\ net'[s].kind = "more" => net'[s].before \in 1..MaxOrders
             /\ net'[s].pc = "served" /\ net'[s].status \in Passed =>
                 /\ net'[s].kind = "load" =>
                       \E top \in 0..MaxOrders : net'[s].rows = Run(top, PageLimit)
                 /\ net'[s].kind = "head" =>
                       \E top \in 0..MaxOrders : net'[s].rows = Run(top, HeadLimit)
                 /\ net'[s].kind = "more" => net'[s].rows = Run(net'[s].before - 1, PageLimit)
  <2>1. CASE Fresh(net'[s])  BY <2>1, <1>1 DEF Fresh
  <2>2. CASE net'[s] = net[s]  BY <2>2 DEF RequestsTold, RowsTold
  <2> QED  BY <2>1, <2>2
<1> QED  BY <1>2 DEF RequestsTold, NetExact, RowsTold

LEMMA OrdersIn == 0 \in 0..MaxOrders /\ <<>> \in Seq(1..MaxOrders)
  BY BoundsTyped

LEMMA PostedTold ==
    ASSUME RequestsTold, NEW gone \in SUBSET Slots, NEW kinds \in SUBSET (Kinds \ {"more"}),
           NEW t \in Tokens \cup {NoToken}, Post(gone, Calls(kinds, t))
    PROVE  RequestsTold'
<1>1. net \in [Slots -> Packets(0..MaxOrders, Seq(1..MaxOrders))]
  BY DEF RequestsTold, NetExact
<1>2. kinds \in SUBSET Kinds  OBVIOUS
<1>3. net' \in [Slots -> Packets(0..MaxOrders, Seq(1..MaxOrders))]
  BY <1>1, <1>2, OrdersIn, PostedTyped
<1>4. \A s \in Slots : \/ net'[s] \in Calls(kinds, t)
                       \/ net'[s] = NoRequest
                       \/ s \notin gone /\ net'[s] = net[s]
  BY PostedEach
<1>5. \A c \in Calls(kinds, t) : c.pc = "sent" /\ c.kind # "more"
  BY RequestFields DEF Calls
<1>6. \A s \in Slots : Fresh(net'[s]) \/ net'[s] = net[s]
  BY <1>4, <1>5, RequestFields, NoneDiffers DEF Fresh, Kinds
<1> QED  BY <1>3, <1>6, ToldSlots

LEMMA OverTold ==
    ASSUME RequestsTold, NEW s \in Slots, Over(s)
    PROVE  RequestsTold'
<1>1. net \in [Slots -> Packets(0..MaxOrders, Seq(1..MaxOrders))]
  BY DEF RequestsTold, NetExact
<1>2. NoRequest \in Packets(0..MaxOrders, Seq(1..MaxOrders))
  BY OrdersIn, RequestTyped DEF Kinds
<1>3. net' = [net EXCEPT ![s] = NoRequest]  BY DEF Over
<1>4. net' \in [Slots -> Packets(0..MaxOrders, Seq(1..MaxOrders))]  BY <1>1, <1>2, <1>3
<1>5. \A r \in Slots : net'[r] = IF r = s THEN NoRequest ELSE net[r]  BY <1>1, <1>3
<1>6. Fresh(NoRequest)  BY RequestFields, NoneDiffers DEF Fresh, Kinds
<1> QED  BY <1>4, <1>5, <1>6, ToldSlots

\* The button for older orders asks for those below the last one listed.
LEMMA MoreTold ==
    ASSUME PanelInv, RequestsTold, list \in ListType, LoadMore
    PROVE  RequestsTold'
<1>1. net \in [Slots -> Packets(0..MaxOrders, Seq(1..MaxOrders))]
  BY DEF RequestsTold, NetExact
<1>2. cookie \in Tokens \cup {NoToken} /\ "more" \in Kinds  BY DEF PanelInv, Typed, Kinds
<1>3. PICK before \in 1..MaxOrders : before = list.orders[Len(list.orders)]
  <2>1. list.orders \in Seq(1..MaxOrders) /\ list.orders # <<>>  BY DEF LoadMore, ListType
  <2>2. Len(list.orders) \in 1..Len(list.orders)  BY <2>1, EmptySeq
  <2> QED  BY <2>1, <2>2, ElementOfSeq
<1>4. PICK call : call = [Request("more", cookie) EXCEPT !.before = before]  OBVIOUS
<1>5. Request("more", cookie) \in Packets(0..MaxOrders, Seq(1..MaxOrders))
  BY <1>2, OrdersIn, RequestTyped
<1>6. /\ call \in Packets(0..MaxOrders, Seq(1..MaxOrders))
      /\ call.pc = "sent" /\ call.kind = "more" /\ call.before = before
  <2>1. PICK B, R : B = 0..MaxOrders /\ R = Seq(1..MaxOrders)  OBVIOUS
  <2>2. Request("more", cookie) \in Packets(B, R) /\ before \in B  BY <2>1, <1>3, <1>5, BoundsTyped
  <2>3. /\ call \in Packets(B, R)
        /\ call.pc = "sent" /\ call.kind = "more" /\ call.before = before
    BY <2>2, <1>4, RequestFields DEF Packets
  <2> QED  BY <2>1, <2>3
<1>7. Post({}, {call})  BY <1>3, <1>4 DEF LoadMore
<1>8. /\ net' = [s \in Slots |-> net'[s]]
      /\ \A s \in Slots : \/ net'[s] \in {call}
                          \/ net'[s] = NoRequest
                          \/ s \notin {} /\ net'[s] = net[s]
  <2>1. {} \in SUBSET Slots  OBVIOUS
  <2> QED  BY <2>1, <1>7, PostedEach
<1>9. Fresh(call) /\ Fresh(NoRequest)
  BY <1>3, <1>6, RequestFields, NoneDiffers DEF Fresh, Kinds
<1>10. NoRequest \in Packets(0..MaxOrders, Seq(1..MaxOrders))
  BY OrdersIn, RequestTyped DEF Kinds
<1>11. net' \in [Slots -> Packets(0..MaxOrders, Seq(1..MaxOrders))]
  BY <1>1, <1>6, <1>8, <1>10
<1> QED  BY <1>8, <1>9, <1>11, ToldSlots

\* The server goes on with a request.
LEMMA ServedTold ==
    ASSUME RequestsTold, NEW s \in Slots,
           NEW X \in Packets(0..MaxOrders, Seq(1..MaxOrders)), net' = [net EXCEPT ![s] = X],
           X.kind = net[s].kind, X.before = net[s].before,
           X.pc = "served" /\ X.status \in Passed =>
              /\ X.kind = "load" => \E top \in 0..MaxOrders : X.rows = Run(top, PageLimit)
              /\ X.kind = "head" => \E top \in 0..MaxOrders : X.rows = Run(top, HeadLimit)
              /\ X.kind = "more" => X.rows = Run(X.before - 1, PageLimit)
    PROVE  RequestsTold'
<1>1. net' \in [Slots -> Packets(0..MaxOrders, Seq(1..MaxOrders))]
      /\ \A r \in Slots : net'[r] = IF r = s THEN X ELSE net[r]
  BY DEF RequestsTold, NetExact
<1>2. ASSUME NEW r \in Slots
      PROVE  /\ net'[r].kind = "more" => net'[r].before \in 1..MaxOrders
             /\ net'[r].pc = "served" /\ net'[r].status \in Passed =>
                 /\ net'[r].kind = "load" =>
                       \E top \in 0..MaxOrders : net'[r].rows = Run(top, PageLimit)
                 /\ net'[r].kind = "head" =>
                       \E top \in 0..MaxOrders : net'[r].rows = Run(top, HeadLimit)
                 /\ net'[r].kind = "more" => net'[r].rows = Run(net'[r].before - 1, PageLimit)
  <2>1. CASE r = s
    <3>1. net'[r] = X  BY <2>1, <1>1
    <3>2. X.kind = "more" => X.before \in 1..MaxOrders  BY DEF RequestsTold, RowsTold
    <3> QED  BY <3>1, <3>2
  <2>2. CASE r # s
    <3>1. net'[r] = net[r]  BY <2>2, <1>1
    <3> QED  BY <3>1 DEF RequestsTold, RowsTold
  <2> QED  BY <2>1, <2>2
<1> QED  BY <1>1, <1>2 DEF RequestsTold, NetExact, RowsTold

LEMMA RouteTold ==
    ASSUME PanelInv, RequestsTold, NEW s \in Slots, ServeRoute(s)
    PROVE  RequestsTold'
<1>1. net[s] \in Packets(0..MaxOrders, Seq(1..MaxOrders))  BY DEF RequestsTold, NetExact
<1> DEFINE Answer(status) ==
         CASE status \notin Passed -> <<>>
           [] status \in Passed /\ net[s].kind \in {"load", "more"} ->
                Rows(net[s].before, PageLimit)
           [] status \in Passed /\ net[s].kind = "head" -> Rows(0, HeadLimit)
           [] OTHER -> <<>>
<1>2. PICK status \in Statuses(net[s].token) :
        net' = [net EXCEPT ![s] = [Served(s, status) EXCEPT
                   !.at = IF net[s].kind \in Lists THEN Version ELSE 0, !.rows = Answer(status)]]
  BY DEF ServeRoute
<1>14. PICK at \in Versions : at = IF net[s].kind \in Lists THEN Version ELSE 0
  BY VersionIn DEF PanelInv
<1> DEFINE rows == Answer(status)
<1>3. PICK X : X = [Served(s, status) EXCEPT !.at = at, !.rows = rows]  OBVIOUS
<1>4. status \in Passed \cup {"refused"}  BY StatusesFrom
<1>5. PICK before \in 0..MaxOrders : before = net[s].before  BY <1>1 DEF Packets
<1>6. PICK top \in 0..MaxOrders :
        Rows(before, PageLimit) = Run(top, PageLimit) /\ (before > 0 => top = before - 1)
  BY RowsAreARun DEF PanelInv
<1>7. PICK first \in 0..MaxOrders : Rows(0, HeadLimit) = Run(first, HeadLimit)
  BY OrdersIn, RowsAreARun DEF PanelInv
<1>8. /\ Run(top, PageLimit) \in Seq(1..MaxOrders) /\ Run(first, HeadLimit) \in Seq(1..MaxOrders)
  BY LimitsTyped, RunGives
<1>9. /\ rows \in Seq(1..MaxOrders)
      /\ status \in Passed /\ net[s].kind \in {"load", "more"} => rows = Run(top, PageLimit)
      /\ status \in Passed /\ net[s].kind = "head" => rows = Run(first, HeadLimit)
  BY <1>5, <1>6, <1>7, <1>8, OrdersIn
<1> HIDE DEF rows
<1>10. /\ X \in Packets(0..MaxOrders, Seq(1..MaxOrders))
       /\ X.kind = net[s].kind /\ X.before = before /\ X.rows = rows /\ X.status = status
  BY <1>1, <1>3, <1>4, <1>5, <1>9, <1>14 DEF Served, Packets
<1>11. X.kind = "more" => top = before - 1
  <2>1. net[s].kind = "more" => before > 0
    BY <1>5, BoundsTyped DEF RequestsTold, RowsTold
  <2> QED  BY <2>1, <1>6, <1>10
<1>12. net' = [net EXCEPT ![s] = X]  BY <1>2, <1>3, <1>14 DEF rows
<1>13. X.pc = "served" /\ X.status \in Passed =>
         /\ X.kind = "load" => \E q \in 0..MaxOrders : X.rows = Run(q, PageLimit)
         /\ X.kind = "head" => \E q \in 0..MaxOrders : X.rows = Run(q, HeadLimit)
         /\ X.kind = "more" => X.rows = Run(X.before - 1, PageLimit)
  BY <1>9, <1>10, <1>11
<1> QED  BY <1>5, <1>10, <1>12, <1>13, ServedTold

\* Answers without rows that a list would be made of.
LEMMA OtherTold ==
    ASSUME PanelInv, RequestsTold, NEW s \in Slots,
           \/ \E t \in Tokens : ServeLogin(s, t)
           \/ ServeLogout(s) \/ CountPending(s) \/ ReadLatest(s)
    PROVE  RequestsTold'
<1> DEFINE P == Packets(0..MaxOrders, Seq(1..MaxOrders))
<1>1. net[s] \in P  BY DEF RequestsTold, NetExact
<1>2. net[s].kind \in {"login", "logout", "summary"}
  BY DEF PanelInv, Told, ServeLogin, ServeLogout, CountPending, ReadLatest
<1>3. SUFFICES \E X \in P : net' = [net EXCEPT ![s] = X] /\ X.kind = net[s].kind
                                                        /\ X.before = net[s].before
  BY <1>2, ServedTold
<1>4. PICK B, R : B = 0..MaxOrders /\ R = Seq(1..MaxOrders)  OBVIOUS
<1>5. net[s] \in Packets(B, R)  BY <1>1, <1>4
<1>6. ASSUME NEW t \in Tokens, ServeLogin(s, t)
      PROVE  \E X \in P : net' = [net EXCEPT ![s] = X] /\ X.kind = net[s].kind
                                                     /\ X.before = net[s].before
  <2>1. PICK X : X = [Served(s, "ok") EXCEPT !.issued = t]  OBVIOUS
  <2>2. X \in Packets(B, R) /\ X.kind = net[s].kind /\ X.before = net[s].before
    BY <2>1, <1>5 DEF Served, Packets, Passed
  <2> QED  BY <2>1, <2>2, <1>4, <1>6 DEF ServeLogin
<1>7. CASE ServeLogout(s)
  <2>1. PICK X : X = Served(s, "ok")  OBVIOUS
  <2>2. X \in Packets(B, R) /\ X.kind = net[s].kind /\ X.before = net[s].before
    BY <2>1, <1>5 DEF Served, Packets, Passed
  <2> QED  BY <2>1, <2>2, <1>4, <1>7 DEF ServeLogout
<1>8. PICK v \in 0..(2 * MaxOrders), l \in 0..MaxOrders, p \in 0..MaxOrders :
        v = Version /\ l = db.latest /\ p = db.pending
  BY VersionTyped DEF PanelInv, Typed
<1>9. CASE CountPending(s)
  <2>1. PICK status \in Statuses(net[s].token) :
          net' = [net EXCEPT ![s] =
                    IF status \in Passed
                    THEN [@ EXCEPT !.pc = "counted", !.status = status,
                                   !.summary = [NoSummary EXCEPT !.pending = db.pending, !.at = Version]]
                    ELSE Served(s, status)]
    BY <1>9 DEF CountPending
  <2>2. status \in Passed \cup {"refused"}  BY StatusesFrom
  <2>3. PICK y : y = [NoSummary EXCEPT !.pending = p, !.at = v]  OBVIOUS
  <2>4. y \in Summary
    <3>1. y = [pending |-> p, latest |-> 0, at |-> v, torn |-> FALSE]  BY <2>3 DEF NoSummary
    <3> QED  BY <3>1, OrdersIn DEF Summary
  <2>5. CASE status \in Passed
    <3>1. PICK X : X = [net[s] EXCEPT !.pc = "counted", !.status = status, !.summary = y]  OBVIOUS
    <3>2. X \in Packets(B, R) /\ X.kind = net[s].kind /\ X.before = net[s].before
      BY <3>1, <2>4, <2>5, <1>5 DEF Packets
    <3>3. net' = [net EXCEPT ![s] = X]
      BY <3>1, <2>1, <2>3, <2>5, <1>8 DEF RequestsTold, NetExact
    <3> QED  BY <3>2, <3>3, <1>4
  <2>6. CASE status \notin Passed
    <3>1. PICK X : X = Served(s, status)  OBVIOUS
    <3>2. X \in Packets(B, R) /\ X.kind = net[s].kind /\ X.before = net[s].before
      BY <3>1, <2>2, <1>5 DEF Served, Packets
    <3>3. net' = [net EXCEPT ![s] = X]  BY <3>1, <2>1, <2>6
    <3> QED  BY <3>2, <3>3, <1>4
  <2> QED  BY <2>5, <2>6
<1>10. CASE ReadLatest(s)
  <2>1. PICK n \in 0..MaxOrders : n = net[s].summary.pending  BY <1>5 DEF Packets, Summary
  <2>2. PICK torn \in BOOLEAN : torn = (net[s].summary.at # v)  OBVIOUS
  <2>3. PICK y : y = [pending |-> n, latest |-> l, at |-> v, torn |-> torn]  OBVIOUS
  <2>4. y \in Summary  BY <2>3 DEF Summary
  <2>5. PICK X : X = [net[s] EXCEPT !.pc = "served", !.summary = y]  OBVIOUS
  <2>6. X \in Packets(B, R) /\ X.kind = net[s].kind /\ X.before = net[s].before
    BY <2>4, <2>5, <1>5 DEF Packets
  <2>7. net' = [net EXCEPT ![s] = X]
    BY <2>1, <2>2, <2>3, <2>5, <1>8, <1>10 DEF ReadLatest, RequestsTold, NetExact
  <2> QED  BY <2>6, <2>7, <1>4
<1> QED  BY <1>6, <1>7, <1>9, <1>10

-----------------------------------------------------------------------------
(* Every action, one part of the invariant after the other.                *)

\* The polls that the page makes.
LEMMA PollCalls ==
    ASSUME PanelInv
    PROVE  /\ PollNow(poll, page.loggedIn).calls \in SUBSET {"summary"}
           /\ Tick([poll EXCEPT !.timer = FALSE], page.loggedIn).calls \in SUBSET {"summary"}
           /\ Afterwards(poll, page.loggedIn).calls \in SUBSET {"summary"}
           /\ \A x \in Summary :
                 Afterwards([poll EXCEPT !.base = x], page.loggedIn).calls \in SUBSET {"summary"}
<1>1. poll \in PollType /\ page.loggedIn \in BOOLEAN  BY DEF PanelInv, Typed
<1>2. \A x \in Summary : [poll EXCEPT !.base = x] \in PollType  BY <1>1 DEF PollType
<1>3. Ticks(poll, page.loggedIn, PollNow(poll, page.loggedIn))  BY <1>1, PollNowGives
<1>4. Ticks(poll, page.loggedIn, Tick([poll EXCEPT !.timer = FALSE], page.loggedIn))
  BY <1>1, TimerGives
<1>5. \A p \in PollType : Afterwards(p, page.loggedIn).calls \in SUBSET {"summary"}
  BY <1>1, AfterwardsGives
<1> QED  BY <1>1, <1>2, <1>3, <1>4, <1>5 DEF Ticks

\* The kinds of requests that are about the lists, of which none is for more.
LEMMA ListCalls ==
    ASSUME NEW tab, NEW l
    PROVE  /\ Opened(tab, l) \in SUBSET (Kinds \ {"more"})
           /\ Refreshed \in SUBSET (Kinds \ {"more"})
           /\ \A X \in SUBSET {"summary"} : /\ X \in SUBSET (Kinds \ {"more"})
                                          /\ Refreshed \cup X \in SUBSET (Kinds \ {"more"})
  BY DEF Opened, Refreshed, Kinds

LEMMA PeopleTold ==
    ASSUME PanelInv, RequestsTold, list \in ListType, People PROVE RequestsTold'
<1>0. /\ {} \in SUBSET Slots /\ cookie \in Tokens \cup {NoToken}
      /\ {"login"} \in SUBSET (Kinds \ {"more"}) /\ {"logout"} \in SUBSET (Kinds \ {"more"})
      /\ {"resolve"} \in SUBSET (Kinds \ {"more"})
  BY DEF PanelInv, Typed, Kinds
<1>1. CASE LogIn  BY <1>0, <1>1, PostedTold DEF LogIn
<1>2. CASE LogOut  BY <1>0, <1>2, PostedTold DEF LogOut
<1>3. CASE LoadMore  BY <1>3, MoreTold
<1>4. CASE RefreshList
  <2>1. PICK kinds : /\ kinds = PollNow(poll, page.loggedIn).calls \/ kinds = {}
                     /\ Post({}, Calls(Refreshed \cup kinds, cookie))
    BY <1>4 DEF RefreshList
  <2>2. Refreshed \cup kinds \in SUBSET (Kinds \ {"more"})  BY <2>1, PollCalls, ListCalls
  <2> QED  BY <2>1, <2>2, <1>0, PostedTold
<1>5. CASE ResolveOrder  BY <1>0, <1>5, PostedTold DEF ResolveOrder
<1>6. CASE Focus
  <2>1. PICK kinds : /\ kinds = PollNow(poll, page.loggedIn).calls
                     /\ Post({}, Calls(kinds, cookie))
    BY <1>6 DEF Focus
  <2>2. kinds \in SUBSET (Kinds \ {"more"})  BY <2>1, PollCalls, ListCalls
  <2> QED  BY <2>1, <2>2, <1>0, PostedTold
<1>7. ASSUME NEW tab \in Tabs, OpenTab(tab) PROVE RequestsTold'
  <2>1. PICK kinds : kinds = Opened(tab, page.loggedIn) /\ Post({}, Calls(kinds, cookie))
    BY <1>7 DEF OpenTab
  <2> QED  BY <2>1, <1>0, ListCalls, PostedTold
<1>8. CASE OrdersArrive \/ OrderResolved \/ Clock
  BY <1>8 DEF OrdersArrive, OrderResolved, Clock, panelVars, RequestsTold, NetExact, RowsTold
<1> QED  BY <1>1, <1>2, <1>3, <1>4, <1>5, <1>6, <1>7, <1>8 DEF People

LEMMA ServerTold == ASSUME PanelInv, RequestsTold, Server PROVE RequestsTold'
  BY RouteTold, OtherTold DEF Server

LEMMA PageTold == ASSUME PanelInv, RequestsTold, Page PROVE RequestsTold'
<1>0. cookie \in Tokens \cup {NoToken}  BY DEF PanelInv, Typed
<1>1. CASE TimerFires
  <2>1. PICK kinds : /\ kinds = Tick([poll EXCEPT !.timer = FALSE], page.loggedIn).calls
                     /\ Post({}, Calls(kinds, cookie))
    BY <1>1 DEF TimerFires
  <2>2. kinds \in SUBSET (Kinds \ {"more"}) /\ {} \in SUBSET Slots  BY <2>1, PollCalls, ListCalls
  <2> QED  BY <2>1, <2>2, <1>0, PostedTold
<1>2. ASSUME NEW s \in Slots,
             \/ BootAnswered(s) \/ LoginAnswered(s) \/ LogoutAnswered(s)
             \/ PendingAnswered(s) \/ OrdersAnswered(s) \/ OrdersFailed(s)
             \/ ResolveAnswered(s) \/ Refused(s)
             \/ SummaryAnswered(s) \/ SummaryFailed(s) \/ SummaryRefused(s)
      PROVE  RequestsTold'
  <2>1. {s} \in SUBSET Slots  OBVIOUS
  <2>2. net[s].issued \in Tokens \cup {NoToken} /\ net[s].summary \in Summary
    BY DEF RequestsTold, NetExact, Packets
  <2>3. ASSUME NEW t \in Tokens \cup {NoToken}, ShowApp(s, t) PROVE RequestsTold'
    <3>1. PICK tab \in Tabs : Post({s}, Calls(Opened(tab, TRUE), t))  BY <2>3 DEF ShowApp
    <3> QED  BY <3>1, <2>1, ListCalls, PostedTold
  <2>4. CASE BootAnswered(s)  BY <2>3, <2>4, <1>0, OverTold DEF BootAnswered
  <2>5. CASE LoginAnswered(s)  BY <2>2, <2>3, <2>5, OverTold DEF LoginAnswered
  <2>6. CASE LogoutAnswered(s) \/ PendingAnswered(s) \/ OrdersAnswered(s) \/ OrdersFailed(s)
    BY <2>6, OverTold DEF LogoutAnswered, PendingAnswered, OrdersAnswered, OrdersFailed
  <2>7. CASE Refused(s) \/ SummaryRefused(s)
    BY <2>7, OverTold DEF Refused, SummaryRefused
  <2>8. CASE ResolveAnswered(s)
    <3>1. PICK kinds : /\ kinds = PollNow(poll, page.loggedIn).calls
                       /\ Post({s}, Calls(Refreshed \cup kinds, cookie))
      BY <2>8 DEF ResolveAnswered
    <3>2. Refreshed \cup kinds \in SUBSET (Kinds \ {"more"})  BY <3>1, PollCalls, ListCalls
    <3> QED  BY <3>1, <3>2, <2>1, <1>0, PostedTold
  <2>9. CASE SummaryAnswered(s)
    <3>1. PICK lists, kinds :
            /\ lists = Refreshed \/ lists = {}
            /\ kinds = Afterwards([poll EXCEPT !.base = net[s].summary], page.loggedIn).calls
            /\ Post({s}, Calls(lists \cup kinds, cookie))
      BY <2>9 DEF SummaryAnswered
    <3>2. kinds \in SUBSET {"summary"}  BY <3>1, <2>2, PollCalls
    <3>3. lists \cup kinds \in SUBSET (Kinds \ {"more"})  BY <3>1, <3>2, ListCalls
    <3> QED  BY <3>1, <3>3, <2>1, <1>0, PostedTold
  <2>10. CASE SummaryFailed(s)
    <3>1. PICK kinds : /\ kinds = Afterwards(poll, page.loggedIn).calls
                       /\ Post({s}, Calls(kinds, cookie))
      BY <2>10 DEF SummaryFailed
    <3>2. kinds \in SUBSET (Kinds \ {"more"})  BY <3>1, PollCalls, ListCalls
    <3> QED  BY <3>1, <3>2, <2>1, <1>0, PostedTold
  <2> QED  BY <1>2, <2>4, <2>5, <2>6, <2>7, <2>8, <2>9, <2>10
<1> QED  BY <1>1, <1>2 DEF Page

-----------------------------------------------------------------------------
(* The other variables.                                                    *)

ListKeeps == list' \in ListType /\ OrdersListed'

LEMMA ListedIs == list \in ListType => (OrdersListed <=> Listed(list))
  BY DEF OrdersListed, Listed, Consecutive

LEMMA ListKept ==
    ASSUME PanelInv, RequestsTold, list \in ListType, OrdersListed, Next
    PROVE  ListKeeps
<1>1. ASSUME list' = list \/ \E b \in BOOLEAN : list' = [list EXCEPT !.drawn = b] PROVE ListKeeps
  <2>1. CASE list' = list  BY <2>1 DEF ListKeeps, OrdersListed
  <2>2. ASSUME NEW b \in BOOLEAN, list' = [list EXCEPT !.drawn = b] PROVE ListKeeps
    <3>1. /\ list' \in ListType /\ list'.orders = list.orders /\ list'.hasMore = list.hasMore
          /\ list'.mixed = list.mixed /\ list'.gap = list.gap
      BY <2>2 DEF ListType
    <3> QED  BY <3>1 DEF ListKeeps, OrdersListed
  <2> QED  BY <1>1, <2>1, <2>2
<1>2. \A tab : Drawn(tab) = list \/ \E b \in BOOLEAN : Drawn(tab) = [list EXCEPT !.drawn = b]
  BY DEF Drawn
<1>3. CASE People
  BY <1>1, <1>2, <1>3 DEF People, LogIn, LogOut, LoadMore, RefreshList, ResolveOrder, Focus, OpenTab,
     OrdersArrive, OrderResolved, Clock, panelVars
<1>4. CASE Server
  BY <1>1, <1>4 DEF Server, ServeLogin, ServeLogout, ServeRoute, CountPending, ReadLatest, ServerOnly
<1>5. CASE TimerFires  BY <1>1, <1>5 DEF TimerFires
<1>6. ASSUME NEW s \in Slots,
             \/ BootAnswered(s) \/ LoginAnswered(s) \/ LogoutAnswered(s)
             \/ PendingAnswered(s) \/ OrdersFailed(s)
             \/ ResolveAnswered(s) \/ Refused(s)
             \/ SummaryAnswered(s) \/ SummaryFailed(s) \/ SummaryRefused(s)
      PROVE  ListKeeps
  <2>1. \A t : ShowApp(s, t) => \E tab : list' = Drawn(tab)  BY DEF ShowApp
  <2>2. BootAnswered(s) \/ LoginAnswered(s) => list' = list \/ \E tab : list' = Drawn(tab)
    BY <2>1 DEF BootAnswered, LoginAnswered
  <2>3. OrdersFailed(s) => list' = list \/ list' = [list EXCEPT !.drawn = FALSE]
    BY DEF OrdersFailed
  <2>4. LogoutAnswered(s) \/ PendingAnswered(s) \/ ResolveAnswered(s) \/ Refused(s) => list' = list
    BY DEF LogoutAnswered, PendingAnswered, ResolveAnswered, Refused
  <2>5. SummaryAnswered(s) \/ SummaryFailed(s) \/ SummaryRefused(s) => list' = list
    BY DEF SummaryAnswered, SummaryFailed, SummaryRefused
  <2>6. (\E tab : list' = Drawn(tab)) => list' = list \/ \E b \in BOOLEAN : list' = [list EXCEPT !.drawn = b]
    BY <1>2
  <2>7. list' = [list EXCEPT !.drawn = FALSE] => \E b \in BOOLEAN : list' = [list EXCEPT !.drawn = b]
    OBVIOUS
  <2>8. list' = list \/ \E b \in BOOLEAN : list' = [list EXCEPT !.drawn = b]
    BY <1>6, <2>2, <2>3, <2>4, <2>5, <2>6, <2>7
  <2> QED  BY <2>8, <1>1
<1>7. ASSUME NEW s \in Slots, OrdersAnswered(s) PROVE ListKeeps
  <2>1. CASE page.tab # "orders"  BY <1>1, <1>7, <2>1 DEF OrdersAnswered
  <2>2. CASE page.tab = "orders"
    <3>1. net[s].pc = "served" /\ net[s].status \in Passed /\ net[s].kind \in {"load", "more", "head"}
      <4>1. "failed" \notin Passed  BY DEF Passed
      <4> QED  BY <4>1, <1>7 DEF OrdersAnswered, Answered
    <3>2. SUFFICES list' \in ListType /\ Listed(list')
      BY DEF ListKeeps, OrdersListed, Listed, Consecutive
    <3>3. CASE net[s].kind = "load"
      <4>1. PICK top \in 0..MaxOrders : net[s].rows = Run(top, PageLimit)
        BY <3>1, <3>3 DEF RequestsTold, RowsTold
      <4>2. list' = Replaced(net[s].rows)  BY <1>7, <2>2, <3>3 DEF OrdersAnswered
      <4> QED  BY <4>1, <4>2, LimitsTyped, ReplacedListed
    <3>4. CASE net[s].kind = "more"
      <4>1. net[s].before \in 1..MaxOrders /\ net[s].rows = Run(net[s].before - 1, PageLimit)
        BY <3>1, <3>4 DEF RequestsTold, RowsTold
      <4>2. list' = Appended(net[s].rows, net[s].before)  BY <1>7, <2>2, <3>4 DEF OrdersAnswered
      <4> QED  BY <4>1, <4>2, AppendedListed
    <3>5. CASE net[s].kind = "head"
      <4>1. PICK top \in 0..MaxOrders : net[s].rows = Run(top, HeadLimit)
        BY <3>1, <3>5 DEF RequestsTold, RowsTold
      <4>2. list' = Headed(net[s].rows)  BY <1>7, <2>2, <3>5 DEF OrdersAnswered
      <4> QED  BY <4>1, <4>2, HeadedListed
    <3> QED  BY <3>1, <3>3, <3>4, <3>5
  <2> QED  BY <2>1, <2>2
<1> QED  BY <1>3, <1>4, <1>5, <1>6, <1>7 DEF Next, Page

\* The history stays within the bounds.
Bounded ==
    /\ note.asked <= 2 * MaxOrders /\ note.shown <= 2 * MaxOrders
    /\ note.strays <= Cardinality(Slots)

LEMMA SomeSlots ==
    ASSUME NEW U \in SUBSET Slots
    PROVE  Cardinality(U) \in Nat /\ Cardinality(U) <= Cardinality(Slots) /\ Cardinality(Slots) \in Nat
  BY BoundsTyped, FS_Subset, FS_CardinalityType

LEMMA BoundedKept == ASSUME PanelInv, Bounded, Next PROVE Bounded'
<1>1. note \in NoteType  BY DEF PanelInv, Typed
<1>2. ASSUME NEW kinds, NEW doubt \in BOOLEAN, note' = Noted(kinds, doubt) PROVE Bounded'
  <2>1. Version \in 0..(2 * MaxOrders)  BY VersionTyped DEF PanelInv
  <2>2. /\ note'.strays = note.strays /\ note'.shown = note.shown
        /\ note'.asked = Version \/ note'.asked = note.asked
    BY <1>2, NotedTyped DEF PanelInv
  <2> QED  BY <2>1, <2>2, BoundsTyped DEF Bounded
<1>10. ASSUME NEW kinds, note' = NotedOpening(kinds) PROVE Bounded'
  <2>1. Version \in 0..(2 * MaxOrders)  BY VersionTyped DEF PanelInv
  <2>2. /\ note'.strays = note.strays /\ note'.shown = 0
        /\ note'.asked = Version \/ note'.asked = note.asked
    BY <1>10, OpeningTyped DEF PanelInv
  <2> QED  BY <2>1, <2>2, BoundsTyped DEF Bounded
<1>11. ASSUME NEW s \in Slots, note' \in {note, NotedShown(net[s].at), NotedLost} PROVE Bounded'
  <2>1. PICK at \in Nat : at = net[s].at /\ at <= 2 * MaxOrders
    BY BoundsTyped DEF PanelInv, NetTyped, Packets, Versions
  <2>2. /\ note'.strays = note.strays /\ note'.asked = note.asked
        /\ note'.shown = at \/ note'.shown = note.shown
    BY <2>1, <1>11, ShownTyped DEF PanelInv
  <2> QED  BY <2>1, <2>2 DEF Bounded
<1>3. ASSUME NEW U \in SUBSET Slots, note' = [note EXCEPT !.strays = Cardinality(U)] PROVE Bounded'
  <2>1. note'.strays = Cardinality(U) /\ note'.asked = note.asked /\ note'.shown = note.shown
    BY <1>1, <1>3
  <2> QED  BY <2>1, SomeSlots DEF Bounded
<1>4. note' = note => Bounded'  BY DEF Bounded
<1>5. note.doubt \in BOOLEAN  BY <1>1
<1>6. CASE People
  <2>1. Under("summary") \in SUBSET Slots  BY DEF Under
  <2>2. CASE LogOut  BY <2>1, <2>2, <1>3 DEF LogOut
  <2>3. CASE RefreshList  BY <2>3, <1>2, <1>5 DEF RefreshList
  <2>4. ASSUME NEW tab, OpenTab(tab) PROVE Bounded'  BY <2>4, <1>10 DEF OpenTab
  <2> QED
    BY <2>2, <2>3, <2>4, <1>4, <1>6 DEF People, LogIn, LoadMore, ResolveOrder, Focus,
       OrdersArrive, OrderResolved, Clock, panelVars
<1>7. CASE Server
  BY <1>4, <1>7 DEF Server, ServeLogin, ServeLogout, ServeRoute, CountPending, ReadLatest, ServerOnly
<1>8. CASE TimerFires  BY <1>4, <1>8 DEF TimerFires
<1>9. ASSUME NEW s \in Slots,
             \/ BootAnswered(s) \/ LoginAnswered(s) \/ LogoutAnswered(s)
             \/ PendingAnswered(s) \/ OrdersAnswered(s) \/ OrdersFailed(s)
             \/ ResolveAnswered(s) \/ Refused(s)
             \/ SummaryAnswered(s) \/ SummaryFailed(s) \/ SummaryRefused(s)
      PROVE  Bounded'
  <2>1. Under("summary") \ {s} \in SUBSET Slots  BY DEF Under
  <2>2. SessionExpired(s) => Bounded'  BY <2>1, <1>3, <1>4 DEF SessionExpired
  <2>3. \A t : ShowApp(s, t) => Bounded'  BY <1>10 DEF ShowApp
  <2>4. BootAnswered(s) \/ LoginAnswered(s) => Bounded'
    BY <2>3, <1>4 DEF BootAnswered, LoginAnswered
  <2>5. Refused(s) \/ SummaryRefused(s) => Bounded'
    BY <2>2, <1>4 DEF Refused, SummaryRefused
  <2>6. ResolveAnswered(s) => Bounded'  BY <1>2, <1>5 DEF ResolveAnswered
  <2>7. SummaryAnswered(s) => Bounded'
    <3>1. SummaryAnswered(s) =>
            \E lists : note' = Noted(lists, note.doubt \/ ~Comparable(poll.base, net[s].summary))
      BY DEF SummaryAnswered
    <3>2. PICK doubt \in BOOLEAN :
            doubt = (note.doubt \/ ~Comparable(poll.base, net[s].summary))
      OBVIOUS
    <3> QED  BY <3>1, <3>2, <1>2
  <2>8. LogoutAnswered(s) \/ SummaryFailed(s) => Bounded'
    BY <1>4 DEF LogoutAnswered, SummaryFailed
  <2>9. PendingAnswered(s) \/ OrdersAnswered(s) \/ OrdersFailed(s) => Bounded'
    BY <1>11 DEF PendingAnswered, OrdersAnswered, OrdersFailed
  <2> QED  BY <1>9, <2>4, <2>5, <2>6, <2>7, <2>8, <2>9
<1> QED  BY <1>6, <1>7, <1>8, <1>9 DEF Next, Page

LEMMA EventsKept == ASSUME events \in 0..MaxEvents, Next PROVE events' \in 0..MaxEvents
<1>1. Event => events' \in 0..MaxEvents  BY BoundsTyped DEF Event
<1>2. CASE People
  BY <1>1, <1>2 DEF People, LogIn, LogOut, LoadMore, RefreshList, ResolveOrder, Focus, OpenTab,
     OrdersArrive, OrderResolved, Clock
<1>3. CASE Server
  BY <1>3 DEF Server, ServeLogin, ServeLogout, ServeRoute, CountPending, ReadLatest, ServerOnly
<1>4. CASE TimerFires  BY <1>4 DEF TimerFires
<1>5. \A s, kinds, status : Answered(s, kinds, status) => events' \in 0..MaxEvents
  BY <1>1 DEF Answered
<1>6. ASSUME NEW s \in Slots,
             \/ BootAnswered(s) \/ LoginAnswered(s) \/ LogoutAnswered(s)
             \/ PendingAnswered(s) \/ OrdersAnswered(s) \/ OrdersFailed(s)
             \/ ResolveAnswered(s) \/ Refused(s)
             \/ SummaryAnswered(s) \/ SummaryFailed(s) \/ SummaryRefused(s)
      PROVE  events' \in 0..MaxEvents
  BY <1>5, <1>6 DEF BootAnswered, LoginAnswered, LogoutAnswered, PendingAnswered, OrdersAnswered,
     OrdersFailed, ResolveAnswered, Refused, SummaryAnswered, SummaryFailed, SummaryRefused
<1> QED  BY <1>2, <1>3, <1>4, <1>6 DEF Next, Page

\* Tokens expire and are revoked at a time.
LEMMA AuthTypeKept == ASSUME PanelInv, AuthTypeOK, Next PROVE AuthTypeOK'
<1>0. /\ now \in 0..MaxTime /\ now \in Nat /\ expiry \in [Tokens -> Int]
      /\ revoked \in [Tokens -> Nat] /\ loggedOut \subseteq Tokens
  BY AuthAssumption DEF AuthTypeOK
<1>1. UNCHANGED authVars => AuthTypeOK'  BY DEF authVars, AuthTypeOK
<1>2. PICK k \in Nat : k = NowSec  BY <1>0 DEF NowSec
<1>3. ASSUME NEW t \in Tokens, Issue(t) PROVE AuthTypeOK'
  <2>1. k + Life \in Int  BY AuthAssumption
  <2> QED  BY <2>1, <1>0, <1>2, <1>3 DEF Issue, AuthTypeOK
<1>4. ASSUME NEW t \in Tokens, Revoke(t) PROVE AuthTypeOK'
  <2>1. RevocationSeconds(t) \in Nat  BY <1>0, <1>2, AuthAssumption DEF RevocationSeconds
  <2>2. now + 2 * RevocationSeconds(t) \in Nat  BY <2>1, <1>0
  <2> QED  BY <2>2, <1>0, <1>4 DEF Revoke, AuthTypeOK
<1>5. CASE People
  <2>1. CASE Clock
    <3>1. PICK d \in Leaps : now + d <= MaxTime /\ now' = now + d  BY <2>1 DEF Clock, TimePasses
    <3>2. d \in Nat  BY AuthAssumption
    <3>3. now' \in 0..MaxTime  BY <3>1, <3>2, <1>0, AuthAssumption
    <3> QED  BY <3>3, <2>1, <1>0 DEF Clock, TimePasses, AuthTypeOK
  <2> QED
    BY <2>1, <1>1, <1>5 DEF People, LogIn, LogOut, LoadMore, RefreshList, ResolveOrder, Focus, OpenTab,
       OrdersArrive, OrderResolved, Quiet
<1>6. CASE Server
  <2>1. ASSUME NEW s \in Slots, ServeLogout(s) PROVE AuthTypeOK'
    <3>1. CASE Statuses(net[s].token) \cap Passed # {} /\ Revoke(net[s].token)
      <4>1. net[s].token \in Tokens \cup {NoToken}  BY DEF PanelInv, NetTyped, Packets
      <4>2. net[s].token \in Tokens  BY <4>1, <3>1, StatusesFrom
      <4> QED  BY <4>2, <3>1, <1>4
    <3> QED  BY <3>1, <2>1, <1>1 DEF ServeLogout
  <2>2. \A s \in Slots, t \in Tokens : ServeLogin(s, t) => AuthTypeOK'  BY <1>3 DEF ServeLogin
  <2> QED  BY <2>1, <2>2, <1>1, <1>6 DEF Server, ServeRoute, CountPending, ReadLatest, Quiet
<1>7. CASE Page
  BY <1>1, <1>7 DEF Page, BootAnswered, LoginAnswered, LogoutAnswered, PendingAnswered, OrdersAnswered,
     OrdersFailed, ResolveAnswered, Refused, SummaryAnswered, SummaryFailed, SummaryRefused,
     TimerFires, Quiet
<1> QED  BY <1>5, <1>6, <1>7 DEF Next

-----------------------------------------------------------------------------
(* The whole.                                                              *)

ListInv ==
    /\ RequestsTold /\ list \in ListType /\ OrdersListed
    /\ Bounded /\ events \in 0..MaxEvents /\ AuthTypeOK

LEMMA ListInit == Init => ListInv
<1> SUFFICES ASSUME Init PROVE ListInv  OBVIOUS
<1>1. PICK s \in Slots : net = [t \in Slots |-> IF t = s THEN Request("me", cookie) ELSE NoRequest]
  BY DEF Init
<1>2. cookie \in Tokens \cup {NoToken} /\ "me" \in Kinds  BY DEF Init, Kinds
<1>3. RequestsTold
  <2>1. /\ NoRequest \in Packets(0..MaxOrders, Seq(1..MaxOrders))
        /\ Request("me", cookie) \in Packets(0..MaxOrders, Seq(1..MaxOrders))
    BY <1>2, OrdersIn, RequestTyped
  <2>2. NetExact  BY <1>1, <2>1 DEF NetExact
  <2>3. \A t \in Slots : net[t] = Request("me", cookie) \/ net[t] = NoRequest  BY <1>1
  <2>4. \A t \in Slots : net[t].kind # "more" /\ net[t].pc # "served"
    BY <2>3, RequestFields, NoneDiffers DEF Kinds
  <2> QED  BY <2>2, <2>4 DEF RequestsTold, RowsTold
<1>4. list \in ListType /\ OrdersListed
  <2>1. list = [orders |-> <<>>, hasMore |-> FALSE, drawn |-> FALSE, mixed |-> FALSE, gap |-> FALSE]
    BY DEF Init
  <2>2. list.orders = <<>> /\ Len(<<>>) = 0  BY <2>1
  <2> QED  BY <2>1, <2>2, OrdersIn DEF ListType, OrdersListed
<1>5. Bounded
  <2>1. Cardinality(Slots) \in Nat  BY BoundsTyped, FS_CardinalityType
  <2> QED  BY <2>1, BoundsTyped DEF Init, Bounded
<1>6. events \in 0..MaxEvents  BY BoundsTyped DEF Init
<1>7. AuthTypeOK  BY AuthAssumption DEF Init, AuthInit, AuthTypeOK
<1> QED  BY <1>3, <1>4, <1>5, <1>6, <1>7 DEF ListInv

LEMMA ListInvKept == PanelInv /\ ListInv /\ [Next]_vars => ListInv'
<1> SUFFICES ASSUME PanelInv, ListInv, [Next]_vars PROVE ListInv'  OBVIOUS
<1>1. CASE Next
  <2>1. RequestsTold'  BY <1>1, PeopleTold, ServerTold, PageTold DEF ListInv, Next
  <2>2. list' \in ListType /\ OrdersListed'  BY <1>1, ListKept DEF ListInv, ListKeeps
  <2>3. Bounded' /\ events' \in 0..MaxEvents /\ AuthTypeOK'
    BY <1>1, BoundedKept, EventsKept, AuthTypeKept DEF ListInv
  <2> QED  BY <2>1, <2>2, <2>3 DEF ListInv
<1>2. CASE UNCHANGED vars
  BY <1>2 DEF ListInv, vars, panelVars, authVars, RequestsTold, NetExact, RowsTold, OrdersListed,
     Bounded, AuthTypeOK
<1> QED  BY <1>1, <1>2

LEMMA ListInvariant == Spec => []ListInv
  BY ListInit, ListInvKept, PanelInvariant, PTL DEF Spec

\* The page, its poll, its list and its requests, the database and the tokens
\* have their types, whatever is answered, lost or late (admin.js, adminAuth.js).
THEOREM PanelTypeCorrect == Spec => []PanelTypeOK
<1>1. ASSUME PanelInv, ListInv PROVE PanelTypeOK
  <2>1. net \in [Slots -> Requests]
    <3>1. Requests = Packets(0..MaxOrders, Seq(1..MaxOrders))  BY DEF Requests, Packets, Versions
    <3> QED  BY <3>1, <1>1 DEF ListInv, RequestsTold, NetExact
  <2>2. note \in [asked : 0..(2 * MaxOrders), shown : 0..(2 * MaxOrders), lost : BOOLEAN,
                  doubt : BOOLEAN, strays : 0..Cardinality(Slots)]
    <3>1. Cardinality(Slots) \in Nat  BY BoundsTyped, FS_CardinalityType
    <3>2. note \in NoteType  BY <1>1 DEF PanelInv, Typed
    <3>3. /\ note.asked \in 0..(2 * MaxOrders) /\ note.shown \in 0..(2 * MaxOrders)
          /\ note.strays \in 0..Cardinality(Slots)
      BY <3>1, <3>2, <1>1, BoundsTyped DEF ListInv, Bounded
    <3> QED  BY <3>2, <3>3
  <2>3. /\ db \in [latest : 0..MaxOrders, pending : 0..MaxOrders] /\ db.pending <= db.latest
        /\ cookie \in Tokens \cup {NoToken}
        /\ page \in [screen : {"boot", "login", "app"}, loggedIn : BOOLEAN, tab : Tabs]
        /\ poll \in [active : BOOLEAN, timer : BOOLEAN, busy : BOOLEAN, queued : BOOLEAN,
                     base : Summary \cup {None}]
    BY <1>1 DEF PanelInv, Typed, PollType
  <2>4. AuthTypeOK /\ list \in ListType /\ events \in 0..MaxEvents  BY <1>1 DEF ListInv
  <2> QED  BY <2>1, <2>2, <2>3, <2>4 DEF PanelTypeOK, ListType
<1> QED  BY <1>1, PanelInvariant, ListInvariant, PTL

\* The orders listed are consecutive and reach down to the first of all or to a
\* button for more, with the exceptions that OrdersListed names, for pages and
\* refreshes of any length (loadOrders, refreshOrdersHead, listOrders).
THEOREM OrdersListedAlways == Spec => []OrdersListed
<1>1. ListInv => OrdersListed  BY DEF ListInv
<1> QED  BY <1>1, ListInvariant, PTL
=============================================================================
