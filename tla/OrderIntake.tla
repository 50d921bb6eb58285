----------------------------- MODULE OrderIntake -----------------------------
(***************************************************************************)
(* POST /api/orders (handleOrdersAPI of handlers/orders.js): the sequence  *)
(* of checks that stands between a request and a row of the orders table.  *)
(* Every awaited query is a step, so that handlers of the same customer,   *)
(* of the same table or with the same idempotency key interleave between a *)
(* count or a lookup and the INSERT that relies on it. A query may fail;   *)
(* each such fault takes one unit of MaxFailures.                          *)
(*                                                                         *)
(* What happens to a row afterwards is OrderDesk's; here it is only        *)
(* decided at some moment, and at some moment leaves the ten-minute        *)
(* windows that the limits count in (the two windows have the same length).*)
(* The site settings, the clock and the menu may change between any two    *)
(* steps, so each step that reads one of them finds any of its values.     *)
(***************************************************************************)
EXTENDS Naturals, Sequences, FiniteSets

CONSTANTS
    Workers,        \* handler invocations that may run at the same time
    Keys,           \* idempotency keys (requestId)
    NoKey,          \* no key, or one that IDEMPOTENCY_KEY_RE refuses
    Ips,            \* hashes of customers' addresses
    NoIp,           \* ipHash is null: no address or no secret to hash with
    Products,       \* ids of products
    MaxTable,       \* tables are 1..MaxTable; 0 is a missing or malformed one
    RateMax,        \* ORDER_RATE_LIMIT_MAX
    TableMax,       \* TABLE_PENDING_ORDER_LIMIT_MAX
    IpTableMax,     \* TABLE_PENDING_ORDER_PER_IP_MAX
    MaxRows,        \* bound on the length of the table
    MaxFailures     \* bound on the number of faults in a behaviour

ASSUME IntakeAssumption ==
    /\ IsFiniteSet(Workers)
    /\ NoKey \notin Keys /\ NoIp \notin Ips
    /\ {MaxTable, RateMax, TableMax, IpTableMax} \subseteq Nat \ {0}
    /\ {MaxRows, MaxFailures} \subseteq Nat

VARIABLES
    rows,       \* the orders table, in order of id
    worker,     \* worker[w]: the local variables of a running handler
    spent       \* number of faults so far

intakeVars == <<rows, worker, spent>>

-----------------------------------------------------------------------------
Tables == 1..MaxTable

\* What getSiteConfig may return, the default after a failed read included.
Sites == [tableCount : Tables, signing : BOOLEAN]

\* What getOpenStatus may say.
Clock == {"open", "closed"}

\* A request, as far as the handler looks at it. lines = {} stands for every
\* list of items that the checks on items refuse; signed says whether tableSig
\* verifies for that table.
Requests ==
    [key : Keys \cup {NoKey}, ip : Ips \cup {NoIp}, table : 0..MaxTable,
     lines : SUBSET Products, signed : BOOLEAN, honeypot : BOOLEAN]

\* What the handler goes on with after the first checks.
Asked(r) == [key |-> r.key, ip |-> r.ip, table |-> r.table, lines |-> r.lines]

NothingAsked == [key |-> NoKey, ip |-> NoIp, table |-> 0, lines |-> {}]

Row(r) == [key |-> r.key, ip |-> r.ip, table |-> r.table, lines |-> r.lines,
           pending |-> TRUE, recent |-> TRUE]

RowIds == DOMAIN rows
WithKey(k) == {i \in RowIds : rows[i].key = k}

\* already and blind are history: the key was recorded when the handler began,
\* and the lookup of the key failed.
IdleWorker == [pc |-> "idle", req |-> NothingAsked, reply |-> "none", row |-> 0,
               already |-> FALSE, blind |-> FALSE]

At(w, pc) == worker[w].pc = pc

Goto(w, pc) == worker' = [worker EXCEPT ![w].pc = pc]

\* An answer; of the request only the key is of interest from here on.
Answered(h, kind) ==
    [h EXCEPT !.pc = "replied", !.reply = kind,
              !.req = [NothingAsked EXCEPT !.key = h.req.key]]

AnsweredRow(h, kind, i) == [Answered(h, kind) EXCEPT !.row = i]

Reply(w, kind) == worker' = [worker EXCEPT ![w] = Answered(@, kind)]

ReplyRow(w, kind, i) ==
    worker' = [worker EXCEPT ![w] = AnsweredRow(@, kind, i)]

Init ==
    /\ rows = <<>>
    /\ worker = [w \in Workers |-> IdleWorker]
    /\ spent = 0

Works == UNCHANGED spent

Fails == spent < MaxFailures /\ spent' = spent + 1

-----------------------------------------------------------------------------
(* The handler.                                                            *)

\* The hours check, and the step that follows it: without an address there is
\* no rate limit per address. h is the handler's record so far.
CheckHours(h, cafe) ==
    IF cafe = "closed" THEN Answered(h, "closed")
    ELSE [h EXCEPT !.pc = IF h.req.ip = NoIp THEN "table" ELSE "rate"]

\* Mutant of SeatAccepted: the number of the table is not compared.
SeatSigned(r, site) == site.signing => r.signed

SeatAccepted(r, site) == r.table \in 1..site.tableCount /\ (site.signing => r.signed)

\* Mutant of FirstChecks: the hours are checked before the key.
FirstChecksHoursFirst(h, r, site, cafe) ==
    IF r.honeypot THEN Answered(h, "pretended")
    ELSE IF ~SeatAccepted(r, site) THEN Answered(h, "refused")
    ELSE IF r.key = NoKey \/ cafe = "closed" THEN CheckHours(h, cafe)
    ELSE [h EXCEPT !.pc = "lookup"]

\* From the body to the signature: the honeypot's false success, then table
\* and signature against the site settings. Without a key there is no lookup.
FirstChecks(h, r, site, cafe) ==
    IF r.honeypot THEN Answered(h, "pretended")
    ELSE IF ~SeatAccepted(r, site) THEN Answered(h, "refused")
    ELSE IF r.key = NoKey THEN CheckHours(h, cafe)
    ELSE [h EXCEPT !.pc = "lookup"]

\* The record of a handler that begins with r.
Begin(r) == [IdleWorker EXCEPT !.req = Asked(r),
                               !.already = r.key # NoKey /\ WithKey(r.key) # {}]

\* Where the first checks may leave it.
Begun(r) == {FirstChecks(Begin(r), r, site, cafe) : site \in Sites, cafe \in Clock}

Receive(w, r) ==
    /\ At(w, "idle")
    /\ \E h \in Begun(r) : worker' = [worker EXCEPT ![w] = h]
    /\ UNCHANGED <<rows, spent>>

\* SELECT by request_id; a failure is logged and the handler goes on.
Lookup(w) ==
    LET h == worker[w] IN
    /\ At(w, "lookup")
    /\ \/ Works /\ \E i \in WithKey(h.req.key) : ReplyRow(w, "duplicate", i)
       \/ \E failed \in BOOLEAN, cafe \in Clock :
             /\ IF failed THEN Fails ELSE WithKey(h.req.key) = {} /\ Works
             /\ worker' = [worker EXCEPT ![w] =
                             CheckHours([h EXCEPT !.blind = failed], cafe)]
    /\ UNCHANGED rows

\* The three counts that limit what one address and one table may have.
OfIp(ip) == {i \in RowIds : rows[i].ip = ip /\ rows[i].recent}
OfTable(t) == {i \in RowIds : rows[i].table = t /\ rows[i].pending /\ rows[i].recent}
OfIpAtTable(ip, t) == {i \in OfTable(t) : rows[i].ip = ip}

\* Mutant of Limit: one more than the limit is let through.
LimitOffByOne(w, counted, max, next, afterFailure) ==
    /\ \/ Works /\ Cardinality(counted) > max /\ Reply(w, "limited")
       \/ Works /\ Cardinality(counted) <= max /\ Goto(w, next)
       \/ Fails /\ Goto(w, afterFailure)
    /\ UNCHANGED rows

\* A count is compared with its limit; a failed query lets the request pass.
Limit(w, counted, max, next, afterFailure) ==
    /\ \/ Works /\ Cardinality(counted) >= max /\ Reply(w, "limited")
       \/ Works /\ Cardinality(counted) < max /\ Goto(w, next)
       \/ Fails /\ Goto(w, afterFailure)
    /\ UNCHANGED rows

CountIp(w) ==
    /\ At(w, "rate")
    /\ Limit(w, OfIp(worker[w].req.ip), RateMax, "table", "table")

\* One try block holds both counts of the table: a failure skips the second.
CountTable(w) ==
    /\ At(w, "table")
    /\ Limit(w, OfTable(worker[w].req.table), TableMax,
             IF worker[w].req.ip = NoIp THEN "items" ELSE "ipTable", "items")

CountIpAtTable(w) ==
    /\ At(w, "ipTable")
    /\ Limit(w, OfIpAtTable(worker[w].req.ip, worker[w].req.table), IpTableMax,
             "items", "items")

\* The checks on the items, then the products read from D1: all on sale, one
\* sold out, or one that does not exist (any more) or has no price. The query is
\* in no try block, so its failure is the answer.
LoadProducts(w) ==
    LET lines == worker[w].req.lines IN
    /\ At(w, "items")
    /\ \/ lines = {} /\ Works /\ Reply(w, "refused")
       \/ lines # {} /\ Works /\ Goto(w, "insert")
       \/ lines # {} /\ Works /\ \E kind \in {"unavailable", "refused"} : Reply(w, kind)
       \/ lines # {} /\ Fails /\ Reply(w, "error")
    /\ UNCHANGED rows

\* Mutant of Insert: no unique index on request_id.
InsertAnyKey(w) ==
    /\ At(w, "insert")
    /\ Len(rows) < MaxRows
    /\ Works
    /\ rows' = Append(rows, Row(worker[w].req))
    /\ ReplyRow(w, "created", Len(rows) + 1)

\* The INSERT of createOrder under the unique index on request_id. It may fail
\* with or without having been applied.
Insert(w) ==
    LET r == worker[w].req
        inserted == Append(rows, Row(r))
        unique == r.key = NoKey \/ WithKey(r.key) = {}
    IN
    /\ At(w, "insert")
    /\ Len(rows) < MaxRows
    /\ \/ unique /\ Works /\ rows' = inserted /\ ReplyRow(w, "created", Len(rows) + 1)
       \/ ~unique /\ Works /\ UNCHANGED rows /\ Goto(w, "reselect")
       \/ /\ Fails
          /\ \/ UNCHANGED rows
             \/ unique /\ rows' = inserted
          /\ Reply(w, "error")

\* After a UNIQUE violation: answer with the row that got there first.
Reselect(w) ==
    /\ At(w, "reselect")
    /\ \/ Works /\ \E i \in WithKey(worker[w].req.key) : ReplyRow(w, "duplicate", i)
       \/ Fails /\ Reply(w, "error")
    /\ UNCHANGED rows

\* The answer leaves; the invocation is over.
Finish(w) ==
    /\ At(w, "replied")
    /\ worker' = [worker EXCEPT ![w] = IdleWorker]
    /\ UNCHANGED <<rows, spent>>

HandlerStep(w) ==
    \/ Lookup(w) \/ CountIp(w) \/ CountTable(w) \/ CountIpAtTable(w)
    \/ LoadProducts(w) \/ Insert(w) \/ Reselect(w)

-----------------------------------------------------------------------------
(* What happens to a row later.                                            *)

\* The desk confirms or rejects a pending order.
Decide(i) ==
    /\ rows[i].pending
    /\ rows' = [rows EXCEPT ![i].pending = FALSE]
    /\ UNCHANGED <<worker, spent>>

\* Ten minutes after its insertion: created_at is the database's time of the INSERT,
\* so the older rows are out by then.
LeaveWindow(i) ==
    /\ rows[i].recent
    /\ \A j \in RowIds : rows[j].recent => i <= j
    /\ rows' = [rows EXCEPT ![i].recent = FALSE]
    /\ UNCHANGED <<worker, spent>>

Next ==
    \/ \E w \in Workers : HandlerStep(w) \/ Finish(w)
    \/ \E w \in Workers, r \in Requests : Receive(w, r)
    \/ \E i \in RowIds : Decide(i) \/ LeaveWindow(i)

Spec == Init /\ [][Next]_intakeVars

-----------------------------------------------------------------------------
(* Properties.                                                             *)

WorkerType ==
    [pc : {"idle", "lookup", "rate", "table", "ipTable", "items", "insert",
           "reselect", "replied"},
     req : [key : Keys \cup {NoKey}, ip : Ips \cup {NoIp}, table : 0..MaxTable,
            lines : SUBSET Products],
     reply : {"none", "pretended", "refused", "closed", "limited", "unavailable",
              "created", "duplicate", "error"},
     row : Nat, already : BOOLEAN, blind : BOOLEAN]

RowType ==
    [key : Keys \cup {NoKey}, ip : Ips \cup {NoIp}, table : Tables,
     lines : SUBSET Products, pending : BOOLEAN, recent : BOOLEAN]

\* The type of the state; a stored row has a real table, and so has the request
\* of every handler that got past the first checks.
TypeOK ==
    /\ rows \in Seq(RowType) /\ Len(rows) <= MaxRows
    /\ worker \in [Workers -> WorkerType]
    /\ spent \in 0..MaxFailures
    /\ \A w \in Workers : worker[w].pc \notin {"idle", "replied"} =>
          worker[w].req.table \in Tables

\* The limits are checked before the INSERT and not by it, so handlers that
\* counted the same rows may all insert. However they interleave, a limit is
\* exceeded by no more than the handlers that run besides the admitted one,
\* and by one for each failed count.
Slack == Cardinality(Workers) - 1 + spent

LimitsHold ==
    /\ \A ip \in Ips : Cardinality(OfIp(ip)) <= RateMax + Slack
    /\ \A t \in Tables : Cardinality(OfTable(t)) <= TableMax + Slack
    /\ \A ip \in Ips, t \in Tables :
          Cardinality(OfIpAtTable(ip, t)) <= IpTableMax + Slack

\* A request whose key was recorded before it came in is never recorded again,
\* and is never told that the cafe is closed, that a limit is reached or that
\* something is sold out: it gets its own order's row, unless its table or its
\* signature is refused now or the lookup of the key failed.
RetryGetsItsOrder ==
    \A w \in Workers : At(w, "replied") /\ worker[w].already =>
        /\ worker[w].reply # "created"
        /\ worker[w].reply \notin {"duplicate", "refused", "pretended"} => worker[w].blind

\* Two handlers with one key, started together: whoever loses the race for the
\* INSERT answers with the winner's row. So no key has two rows, and a success
\* with a key names the one row that has the key.
OneRowPerKey ==
    /\ \A i, j \in RowIds : rows[i].key = rows[j].key /\ i # j => rows[i].key = NoKey
    /\ \A w \in Workers :
          worker[w].reply \in {"created", "duplicate"} =>
              worker[w].row \in RowIds /\ rows[worker[w].row].key = worker[w].req.key

-----------------------------------------------------------------------------
(* The inductive invariants behind them.                                   *)

\* The handlers that have been let past a limit and have not inserted yet.
PastIp(ip) == {w \in Workers :
    worker[w].pc \in {"table", "ipTable", "items", "insert"} /\ worker[w].req.ip = ip}
PastTable(t) == {w \in Workers :
    worker[w].pc \in {"ipTable", "items", "insert"} /\ worker[w].req.table = t}
PastIpAtTable(ip, t) == {w \in Workers :
    /\ worker[w].pc \in {"items", "insert"}
    /\ worker[w].req.ip = ip /\ worker[w].req.table = t}

\* They count as if they had inserted already.
Within(counted, past, max) ==
    Cardinality(counted) + Cardinality(past) <= max + Slack

LimitInv ==
    /\ \A ip \in Ips : Within(OfIp(ip), PastIp(ip), RateMax)
    /\ \A t \in Tables : Within(OfTable(t), PastTable(t), TableMax)
    /\ \A ip \in Ips, t \in Tables :
          Within(OfIpAtTable(ip, t), PastIpAtTable(ip, t), IpTableMax)

\* A handler answers once; one whose key was recorded before it began still has
\* its row, and gets past the lookup only blindly.
RetryInv ==
    \A w \in Workers :
        /\ worker[w].pc # "replied" => worker[w].reply = "none"
        /\ worker[w].already =>
              worker[w].req.key # NoKey /\ WithKey(worker[w].req.key) # {}
        /\ worker[w].already /\ worker[w].pc \notin {"idle", "lookup", "replied"} =>
              worker[w].blind

-----------------------------------------------------------------------------
\* The README's limit: no table ever has more than three orders pending.
ThreePendingPerTable == \A t \in Tables : Cardinality(OfTable(t)) <= 3
=============================================================================
