-------------------------- MODULE OrderIntakeProofs --------------------------
(***************************************************************************)
(* Proofs about OrderIntake, for every number of concurrent handlers and   *)
(* of faults, every set of keys, addresses and products, and every limit.  *)
(***************************************************************************)
EXTENDS OrderIntake, FiniteSetTheorems, SequenceTheorems, TLAPS

-----------------------------------------------------------------------------
(* Type correctness.                                                       *)

\* What TypeOK says of one handler.
Sound(h) ==
    /\ h \in WorkerType
    /\ h.pc \notin {"idle", "replied"} => h.req.table \in Tables

Answers == {"pretended", "refused", "closed", "limited", "unavailable",
            "created", "duplicate", "error"}

Late == {"rate", "table", "ipTable", "items", "insert", "reselect"}

LEMMA ConstantsTyped ==
    /\ RateMax \in Nat \ {0} /\ TableMax \in Nat \ {0} /\ IpTableMax \in Nat \ {0}
    /\ MaxTable \in Nat \ {0} /\ MaxRows \in Nat /\ MaxFailures \in Nat
    /\ IsFiniteSet(Workers) /\ NoKey \notin Keys /\ NoIp \notin Ips
  BY IntakeAssumption

LEMMA AnsweredSound ==
    ASSUME NEW h \in WorkerType, NEW kind \in Answers
    PROVE  /\ Sound(Answered(h, kind))
           /\ Answered(h, kind).pc = "replied"
           /\ Answered(h, kind).reply = kind
           /\ Answered(h, kind).row = h.row
           /\ Answered(h, kind).req.key = h.req.key
           /\ Answered(h, kind).already = h.already
           /\ Answered(h, kind).blind = h.blind
<1>1. [NothingAsked EXCEPT !.key = h.req.key] \in
        [key : Keys \cup {NoKey}, ip : Ips \cup {NoIp}, table : 0..MaxTable,
         lines : SUBSET Products]
  BY ConstantsTyped DEF NothingAsked, WorkerType
<1>2. [NothingAsked EXCEPT !.key = h.req.key].key = h.req.key
  BY DEF NothingAsked
<1>3. QED
  BY <1>1, <1>2 DEF Answered, WorkerType, Sound, Answers

\* The hours check ends in an answer or at the next count, nothing else changed.
LEMMA CheckHoursSound ==
    ASSUME NEW h \in WorkerType, h.req.table \in Tables, NEW cafe \in Clock
    PROVE  /\ Sound(CheckHours(h, cafe))
           /\ CheckHours(h, cafe).req.key = h.req.key
           /\ CheckHours(h, cafe).already = h.already
           /\ CheckHours(h, cafe).blind = h.blind
           /\ \/ /\ CheckHours(h, cafe).pc = "replied"
                 /\ CheckHours(h, cafe).reply = "closed"
              \/ /\ CheckHours(h, cafe).pc = IF h.req.ip = NoIp THEN "table" ELSE "rate"
                 /\ CheckHours(h, cafe).req = h.req
                 /\ CheckHours(h, cafe).reply = h.reply
<1>1. CASE cafe = "open"
  BY <1>1 DEF CheckHours, Sound, WorkerType
<1>2. CASE cafe = "closed"
  BY <1>2, AnsweredSound DEF CheckHours, Answers
<1>3. QED
  BY <1>1, <1>2 DEF Clock

LEMMA StoreWorker ==
    ASSUME TypeOK, NEW w \in Workers, NEW h, Sound(h),
           worker' = [worker EXCEPT ![w] = h]
    PROVE  /\ worker' \in [Workers -> WorkerType]
           /\ \A v \in Workers : worker'[v].pc \notin {"idle", "replied"} =>
                 worker'[v].req.table \in Tables
  BY DEF TypeOK, Sound

LEMMA WorkersSound == ASSUME TypeOK, NEW w \in Workers PROVE Sound(worker[w])
  BY DEF TypeOK, Sound

\* Each way a handler's record is written.
LEMMA GotoSound ==
    ASSUME TypeOK, NEW w \in Workers, NEW pc \in Late, worker[w].pc \notin {"idle", "replied"}
    PROVE  Sound([worker[w] EXCEPT !.pc = pc])
  BY DEF TypeOK, Sound, WorkerType, Late

LEMMA ReplyRowSound ==
    ASSUME TypeOK, NEW w \in Workers, NEW kind \in Answers, NEW i \in Nat
    PROVE  LET h == AnsweredRow(worker[w], kind, i) IN
           /\ Sound(h)
           /\ h.pc = "replied" /\ h.reply = kind /\ h.row = i
           /\ h.req.key = worker[w].req.key
           /\ h.already = worker[w].already
           /\ h.blind = worker[w].blind
<1> DEFINE answer == Answered(worker[w], kind)
<1>1. /\ Sound(answer) /\ answer.pc = "replied" /\ answer.reply = kind
      /\ answer.req.key = worker[w].req.key
      /\ answer.already = worker[w].already /\ answer.blind = worker[w].blind
  BY AnsweredSound DEF TypeOK
<1>2. AnsweredRow(worker[w], kind, i) = [answer EXCEPT !.row = i]
  BY DEF AnsweredRow
<1> HIDE DEF answer
<1>3. QED
  BY <1>1, <1>2 DEF Sound, WorkerType

LEMMA IdleSound == Sound(IdleWorker)
  BY ConstantsTyped DEF Sound, IdleWorker, WorkerType, NothingAsked

LEMMA BeginSound ==
    ASSUME NEW r \in Requests
    PROVE  /\ Begin(r) \in WorkerType
           /\ Begin(r).pc = "idle" /\ Begin(r).reply = "none" /\ Begin(r).blind = FALSE
           /\ Begin(r).req.key = r.key
           /\ Begin(r).req.table = r.table
           /\ Begin(r).already = (r.key # NoKey /\ WithKey(r.key) # {})
<1>1. Asked(r) \in [key : Keys \cup {NoKey}, ip : Ips \cup {NoIp}, table : 0..MaxTable,
                    lines : SUBSET Products]
  BY DEF Asked, Requests
<1>2. Asked(r).key = r.key /\ Asked(r).table = r.table
  BY DEF Asked
<1>3. (r.key # NoKey /\ WithKey(r.key) # {}) \in BOOLEAN
  OBVIOUS
<1>4. Begin(r) \in WorkerType
  BY <1>1, <1>3 DEF Begin, IdleWorker, WorkerType
<1>5. QED
  BY <1>2, <1>4 DEF Begin, IdleWorker

\* The first checks end in an answer, before the lookup, or without a key at a
\* count; a request that goes on has a table.
LEMMA FirstChecksSound ==
    ASSUME NEW r \in Requests, NEW site \in Sites, NEW cafe \in Clock
    PROVE  LET h == FirstChecks(Begin(r), r, site, cafe) IN
           /\ Sound(h)
           /\ h.req.key = r.key
           /\ h.already = Begin(r).already
           /\ \/ h.pc = "replied" /\ h.reply \in {"pretended", "refused"}
              \/ h.pc = "replied" /\ h.reply = "closed" /\ r.key = NoKey
              \/ h.pc = "lookup" /\ h.reply = "none"
              \/ /\ r.key = NoKey /\ h.reply = "none"
                 /\ h.pc = IF h.req.ip = NoIp THEN "table" ELSE "rate"
<1> DEFINE b == Begin(r)
<1>1. /\ b \in WorkerType /\ b.req.key = r.key /\ b.req.table = r.table
      /\ b.pc = "idle" /\ b.reply = "none"
  BY BeginSound
<1> HIDE DEF b
<1> SUFFICES
       LET h == FirstChecks(b, r, site, cafe) IN
           /\ Sound(h)
           /\ h.req.key = r.key
           /\ h.already = b.already
           /\ \/ h.pc = "replied" /\ h.reply \in {"pretended", "refused"}
              \/ h.pc = "replied" /\ h.reply = "closed" /\ r.key = NoKey
              \/ h.pc = "lookup" /\ h.reply = "none"
              \/ /\ r.key = NoKey /\ h.reply = "none"
                 /\ h.pc = IF h.req.ip = NoIp THEN "table" ELSE "rate"
  BY DEF b
<1>2. CASE r.honeypot
  BY <1>1, <1>2, AnsweredSound DEF FirstChecks, Answers
<1>3. CASE ~r.honeypot /\ ~SeatAccepted(r, site)
  BY <1>1, <1>3, AnsweredSound DEF FirstChecks, Answers
<1>4. CASE ~r.honeypot /\ SeatAccepted(r, site)
  <2>1. b.req.table \in Tables
    BY <1>1, <1>4, ConstantsTyped DEF SeatAccepted, Sites, Tables, Requests
  <2>2. CASE r.key = NoKey
    BY <1>1, <1>4, <2>1, <2>2, CheckHoursSound DEF FirstChecks
  <2>3. CASE r.key # NoKey
    <3>1. FirstChecks(b, r, site, cafe) = [b EXCEPT !.pc = "lookup"]
      BY <1>4, <2>3 DEF FirstChecks
    <3>2. QED
      BY <1>1, <2>1, <3>1 DEF Sound, WorkerType
  <2>4. QED
    BY <2>2, <2>3
<1>5. QED
  BY <1>2, <1>3, <1>4

-----------------------------------------------------------------------------
(* Every action keeps the types.                                           *)

LEMMA FaultsTyped ==
    ASSUME TypeOK, Works \/ Fails
    PROVE  spent' \in 0..MaxFailures /\ spent' >= spent
  BY ConstantsTyped DEF TypeOK, Works, Fails

\* A handler's step that leaves the rows alone.
LEMMA WorkerStepTyped ==
    ASSUME TypeOK, NEW w \in Workers, NEW h, Sound(h),
           worker' = [worker EXCEPT ![w] = h], rows' = rows, spent' \in 0..MaxFailures
    PROVE  TypeOK'
<1>1. /\ worker' \in [Workers -> WorkerType]
      /\ \A v \in Workers : worker'[v].pc \notin {"idle", "replied"} =>
            worker'[v].req.table \in Tables
  BY StoreWorker
<1>2. QED
  BY <1>1 DEF TypeOK

LEMMA GotoTyped ==
    ASSUME TypeOK, NEW w \in Workers, NEW pc \in Late, Goto(w, pc), rows' = rows,
           worker[w].pc \notin {"idle", "replied"}, spent' \in 0..MaxFailures
    PROVE  TypeOK'
<1>1. Sound([worker[w] EXCEPT !.pc = pc])
  BY GotoSound
<1>2. worker' = [worker EXCEPT ![w] = [worker[w] EXCEPT !.pc = pc]]
  BY DEF Goto, TypeOK
<1>3. QED
  BY <1>1, <1>2, WorkerStepTyped

LEMMA ReplyTyped ==
    ASSUME TypeOK, NEW w \in Workers, NEW kind \in Answers, Reply(w, kind), rows' = rows,
           spent' \in 0..MaxFailures
    PROVE  TypeOK'
<1>1. Sound(Answered(worker[w], kind))
  BY AnsweredSound DEF TypeOK
<1>2. worker' = [worker EXCEPT ![w] = Answered(worker[w], kind)]
  BY DEF Reply, TypeOK
<1>3. QED
  BY <1>1, <1>2, WorkerStepTyped

LEMMA ReplyRowTyped ==
    ASSUME TypeOK, NEW w \in Workers, NEW kind \in Answers, NEW i \in Nat,
           ReplyRow(w, kind, i), rows' = rows, spent' \in 0..MaxFailures
    PROVE  TypeOK'
<1>1. Sound(AnsweredRow(worker[w], kind, i))
  BY ReplyRowSound
<1>2. worker' = [worker EXCEPT ![w] = AnsweredRow(worker[w], kind, i)]
  BY DEF ReplyRow, TypeOK
<1>3. QED
  BY <1>1, <1>2, WorkerStepTyped

LEMMA RowIdsAre ==
    ASSUME TypeOK
    PROVE  /\ RowIds = 1..Len(rows) /\ Len(rows) \in Nat
           /\ \A i \in RowIds : rows[i] \in RowType
           /\ \A k : WithKey(k) \subseteq Nat
<1>1. rows \in Seq(RowType)
  BY DEF TypeOK
<1>2. RowIds = 1..Len(rows) /\ Len(rows) \in Nat
  BY <1>1, LenProperties DEF RowIds
<1>3. \A i \in RowIds : rows[i] \in RowType
  BY <1>1, <1>2, ElementOfSeq
<1>4. QED
  BY <1>2, <1>3 DEF WithKey

LEMMA ReceiveTyped ==
    ASSUME TypeOK, NEW w \in Workers, NEW r \in Requests, Receive(w, r)
    PROVE  TypeOK'
<1>1. PICK h \in Begun(r) : worker' = [worker EXCEPT ![w] = h]
  BY DEF Receive
<1>2. Sound(h)
  BY FirstChecksSound DEF Begun
<1>3. QED
  BY <1>1, <1>2, WorkerStepTyped DEF Receive, TypeOK

LEMMA LookupTyped ==
    ASSUME TypeOK, NEW w \in Workers, Lookup(w)
    PROVE  TypeOK'
<1>1. At(w, "lookup") /\ rows' = rows
  BY DEF Lookup
<1>2. CASE Works /\ \E i \in WithKey(worker[w].req.key) : ReplyRow(w, "duplicate", i)
  BY <1>1, <1>2, FaultsTyped, ReplyRowTyped, RowIdsAre DEF Answers
<1>3. ASSUME NEW failed \in BOOLEAN, NEW cafe \in Clock,
             IF failed THEN Fails ELSE WithKey(worker[w].req.key) = {} /\ Works,
             worker' = [worker EXCEPT ![w] =
                          CheckHours([worker[w] EXCEPT !.blind = failed], cafe)]
      PROVE  TypeOK'
  <2> DEFINE h == [worker[w] EXCEPT !.blind = failed]
  <2>1. h \in WorkerType /\ h.req.table \in Tables
    BY <1>1 DEF TypeOK, WorkerType, At
  <2> HIDE DEF h
  <2>2. Sound(CheckHours(h, cafe))
    BY <2>1, CheckHoursSound
  <2>3. worker' = [worker EXCEPT ![w] = CheckHours(h, cafe)]
    BY <1>3 DEF h
  <2>4. spent' \in 0..MaxFailures
    BY <1>3, FaultsTyped
  <2>5. QED
    BY <1>1, <2>2, <2>3, <2>4, WorkerStepTyped
<1>4. QED
  BY <1>2, <1>3 DEF Lookup

LEMMA LimitTyped ==
    ASSUME TypeOK, NEW w \in Workers, NEW counted, NEW max, NEW next \in Late,
           NEW afterFailure \in Late, worker[w].pc \notin {"idle", "replied"},
           Limit(w, counted, max, next, afterFailure)
    PROVE  TypeOK'
<1>1. rows' = rows /\ spent' \in 0..MaxFailures
  BY FaultsTyped DEF Limit
<1>2. CASE Reply(w, "limited")
  BY <1>1, <1>2, ReplyTyped DEF Answers
<1>3. CASE Goto(w, next)
  BY <1>1, <1>3, GotoTyped
<1>4. CASE Goto(w, afterFailure)
  BY <1>1, <1>4, GotoTyped
<1>5. QED
  BY <1>2, <1>3, <1>4 DEF Limit

LEMMA LoadProductsTyped ==
    ASSUME TypeOK, NEW w \in Workers, LoadProducts(w)
    PROVE  TypeOK'
<1>1. rows' = rows /\ spent' \in 0..MaxFailures /\ worker[w].pc = "items"
  BY FaultsTyped DEF LoadProducts, At
<1>2. CASE Goto(w, "insert")
  BY <1>1, <1>2, GotoTyped DEF Late
<1>3. CASE \E kind \in {"refused", "unavailable", "error"} : Reply(w, kind)
  BY <1>1, <1>3, ReplyTyped DEF Answers
<1>4. QED
  BY <1>2, <1>3 DEF LoadProducts

\* What an INSERT does to the table: nothing, or one row at the end.
LEMMA InsertRows ==
    ASSUME TypeOK, NEW w \in Workers, Insert(w)
    PROVE  /\ Row(worker[w].req) \in RowType
           /\ \/ rows' = rows
              \/ /\ rows' = Append(rows, Row(worker[w].req))
                 /\ worker[w].req.key = NoKey \/ WithKey(worker[w].req.key) = {}
           /\ rows' \in Seq(RowType) /\ Len(rows') <= MaxRows
           /\ spent' \in 0..MaxFailures /\ spent' >= spent
<1>1. worker[w].pc = "insert" /\ worker[w] \in WorkerType /\ worker[w].req.table \in Tables
  BY DEF TypeOK, Insert, At
<1>2. Row(worker[w].req) \in RowType
  BY <1>1 DEF Row, RowType, WorkerType
<1>3. \/ rows' = rows
      \/ /\ rows' = Append(rows, Row(worker[w].req))
         /\ worker[w].req.key = NoKey \/ WithKey(worker[w].req.key) = {}
  BY DEF Insert
<1>4. rows \in Seq(RowType) /\ Len(rows) <= MaxRows /\ Len(rows) < MaxRows
  BY DEF TypeOK, Insert
<1>5. rows' \in Seq(RowType) /\ Len(rows') <= MaxRows
  <2>1. CASE rows' = rows
    BY <1>4, <2>1
  <2>2. CASE rows' = Append(rows, Row(worker[w].req))
    BY <1>2, <1>4, <2>2, AppendProperties, ConstantsTyped, LenProperties
  <2>3. QED
    BY <1>3, <2>1, <2>2
<1>6. QED
  BY <1>2, <1>3, <1>5, FaultsTyped DEF Insert

LEMMA InsertTyped ==
    ASSUME TypeOK, NEW w \in Workers, Insert(w)
    PROVE  TypeOK'
<1>1. \E h : Sound(h) /\ worker' = [worker EXCEPT ![w] = h]
  <2>1. CASE ReplyRow(w, "created", Len(rows) + 1)
    <3>1. Len(rows) + 1 \in Nat
      BY RowIdsAre
    <3>2. Sound(AnsweredRow(worker[w], "created", Len(rows) + 1))
      BY <3>1, ReplyRowSound DEF Answers
    <3>3. QED
      BY <2>1, <3>2 DEF ReplyRow
  <2>2. CASE Goto(w, "reselect")
    <3>1. worker' = [worker EXCEPT ![w] = [worker[w] EXCEPT !.pc = "reselect"]]
      BY <2>2 DEF Goto, TypeOK
    <3>2. QED
      BY <3>1, GotoSound DEF Insert, At, Late
  <2>3. CASE Reply(w, "error")
    BY <2>3, AnsweredSound DEF Reply, Answers, TypeOK
  <2>4. QED
    BY <2>1, <2>2, <2>3 DEF Insert
<1>2. /\ worker' \in [Workers -> WorkerType]
      /\ \A v \in Workers : worker'[v].pc \notin {"idle", "replied"} =>
            worker'[v].req.table \in Tables
  BY <1>1, StoreWorker
<1>3. QED
  BY <1>2, InsertRows DEF TypeOK

LEMMA ReselectTyped ==
    ASSUME TypeOK, NEW w \in Workers, Reselect(w)
    PROVE  TypeOK'
<1>1. rows' = rows /\ spent' \in 0..MaxFailures
  BY FaultsTyped DEF Reselect
<1>2. CASE \E i \in WithKey(worker[w].req.key) : ReplyRow(w, "duplicate", i)
  BY <1>1, <1>2, ReplyRowTyped, RowIdsAre DEF Answers
<1>3. CASE Reply(w, "error")
  BY <1>1, <1>3, ReplyTyped DEF Answers
<1>4. QED
  BY <1>2, <1>3 DEF Reselect

\* The later life of a row: only pending and recent change, from TRUE to FALSE.
LEMMA LaterLife ==
    ASSUME TypeOK, NEW i \in RowIds, Decide(i) \/ LeaveWindow(i)
    PROVE  /\ rows' \in Seq(RowType) /\ Len(rows') = Len(rows)
           /\ \A j \in RowIds :
                 /\ rows'[j].key = rows[j].key
                 /\ rows'[j].ip = rows[j].ip
                 /\ rows'[j].table = rows[j].table
                 /\ rows'[j].lines = rows[j].lines
                 /\ rows'[j].pending => rows[j].pending
                 /\ rows'[j].recent => rows[j].recent
<1>1. rows \in Seq(RowType) /\ i \in 1..Len(rows) /\ rows[i] \in RowType
  BY RowIdsAre DEF TypeOK
<1>2. PICK e \in RowType :
         /\ rows' = [rows EXCEPT ![i] = e]
         /\ e.key = rows[i].key /\ e.ip = rows[i].ip /\ e.table = rows[i].table
         /\ e.lines = rows[i].lines
         /\ e.pending => rows[i].pending
         /\ e.recent => rows[i].recent
  <2>1. CASE Decide(i)
    <3>1. rows' = [rows EXCEPT ![i] = [rows[i] EXCEPT !.pending = FALSE]]
      BY <2>1 DEF Decide
    <3>2. [rows[i] EXCEPT !.pending = FALSE] \in RowType
      BY <1>1 DEF RowType
    <3>3. QED
      BY <1>1, <3>1, <3>2 DEF RowType
  <2>2. CASE LeaveWindow(i)
    <3>1. rows' = [rows EXCEPT ![i] = [rows[i] EXCEPT !.recent = FALSE]]
      BY <2>2 DEF LeaveWindow
    <3>2. [rows[i] EXCEPT !.recent = FALSE] \in RowType
      BY <1>1 DEF RowType
    <3>3. QED
      BY <1>1, <3>1, <3>2 DEF RowType
  <2>3. QED
    BY <2>1, <2>2
<1>3. rows' \in Seq(RowType) /\ Len(rows') = Len(rows)
  BY <1>1, <1>2, ExceptSeq
<1>4. \A j \in RowIds : rows'[j] = IF j = i THEN e ELSE rows[j]
  BY <1>1, <1>2, ExceptSeq, RowIdsAre
<1>5. QED
  BY <1>2, <1>3, <1>4

LEMMA TypeStep == ASSUME TypeOK, [Next]_intakeVars PROVE TypeOK'
<1>1. ASSUME NEW w \in Workers, HandlerStep(w) PROVE TypeOK'
  <2>1. CASE Lookup(w)
    BY <2>1, LookupTyped
  <2>2. CASE CountIp(w)
    <3>1. worker[w].pc = "rate"
      BY <2>2 DEF CountIp, At
    <3>2. Limit(w, OfIp(worker[w].req.ip), RateMax, "table", "table")
      BY <2>2 DEF CountIp
    <3>3. QED
      BY <3>1, <3>2, LimitTyped DEF Late
  <2>3. CASE CountTable(w)
    <3>1. worker[w].pc = "table"
      BY <2>3 DEF CountTable, At
    <3>2. Limit(w, OfTable(worker[w].req.table), TableMax,
                IF worker[w].req.ip = NoIp THEN "items" ELSE "ipTable", "items")
      BY <2>3 DEF CountTable
    <3>3. QED
      BY <3>1, <3>2, LimitTyped DEF Late
  <2>4. CASE CountIpAtTable(w)
    <3>1. worker[w].pc = "ipTable"
      BY <2>4 DEF CountIpAtTable, At
    <3>2. Limit(w, OfIpAtTable(worker[w].req.ip, worker[w].req.table), IpTableMax,
                "items", "items")
      BY <2>4 DEF CountIpAtTable
    <3>3. QED
      BY <3>1, <3>2, LimitTyped DEF Late
  <2>5. CASE LoadProducts(w)
    BY <2>5, LoadProductsTyped
  <2>6. CASE Insert(w)
    BY <2>6, InsertTyped
  <2>7. CASE Reselect(w)
    BY <2>7, ReselectTyped
  <2>8. QED
    BY <1>1, <2>1, <2>2, <2>3, <2>4, <2>5, <2>6, <2>7 DEF HandlerStep
<1>2. ASSUME NEW w \in Workers, Finish(w) PROVE TypeOK'
  BY <1>2, IdleSound, WorkerStepTyped DEF Finish, TypeOK
<1>3. ASSUME NEW w \in Workers, NEW r \in Requests, Receive(w, r) PROVE TypeOK'
  BY <1>3, ReceiveTyped
<1>4. ASSUME NEW i \in RowIds, Decide(i) \/ LeaveWindow(i) PROVE TypeOK'
  <2>1. UNCHANGED <<worker, spent>>
    BY <1>4 DEF Decide, LeaveWindow
  <2>2. QED
    BY <1>4, <2>1, LaterLife DEF TypeOK
<1>5. CASE UNCHANGED intakeVars
  BY <1>5 DEF intakeVars, TypeOK
<1>6. QED
  BY <1>1, <1>2, <1>3, <1>4, <1>5 DEF Next

LEMMA TypeInit == ASSUME Init PROVE TypeOK
<1>1. <<>> \in Seq(RowType) /\ Len(<<>>) = 0
  BY EmptySeq, LenProperties
<1>2. IdleWorker \in WorkerType /\ IdleWorker.pc = "idle"
  BY IdleSound DEF Sound, IdleWorker
<1>3. QED
  BY <1>1, <1>2, ConstantsTyped DEF Init, TypeOK

\* Every reachable state of the order intake has the types of TypeOK.
THEOREM IntakeTypeCorrect == Spec => []TypeOK
  BY TypeInit, TypeStep, PTL DEF Spec

-----------------------------------------------------------------------------
(* Keys: rows keep theirs, no two rows share one, answers name the right row. *)

\* Where a handler's step takes it. One whose key was recorded before it began
\* is answered with that row unless it is blind.
LEMMA Outcome ==
    ASSUME TypeOK, RetryInv, NEW w \in Workers, HandlerStep(w)
    PROVE  \E h :
             /\ worker' = [worker EXCEPT ![w] = h]
             /\ h.req.key = worker[w].req.key
             /\ h.already = worker[w].already
             /\ \/ /\ h.pc \in Late /\ h.reply = "none"
                   /\ h.already => h.blind
                \/ /\ h.pc = "replied" /\ h.reply \notin {"created", "duplicate"}
                   /\ h.already => h.blind
                \/ /\ h.pc = "replied" /\ h.reply = "duplicate"
                   /\ h.row \in WithKey(h.req.key)
                \/ /\ h.pc = "replied" /\ h.reply = "created"
                   /\ rows' = Append(rows, Row(worker[w].req)) /\ h.row = Len(rows) + 1
                   /\ Row(worker[w].req) \in RowType
                   /\ h.req.key = NoKey \/ WithKey(h.req.key) = {}
<1>1. worker \in [Workers -> WorkerType] /\ worker[w] \in WorkerType
  BY DEF TypeOK
<1>2. ASSUME NEW pc \in Late, Goto(w, pc), worker[w].pc \in Late
      PROVE  \E h : /\ worker' = [worker EXCEPT ![w] = h]
                    /\ h.req.key = worker[w].req.key /\ h.already = worker[w].already
                    /\ h.pc \in Late /\ h.reply = "none" /\ (h.already => h.blind)
  <2> DEFINE h == [worker[w] EXCEPT !.pc = pc]
  <2>1. worker' = [worker EXCEPT ![w] = h]
    BY <1>1, <1>2 DEF Goto
  <2>2. /\ h.req.key = worker[w].req.key /\ h.already = worker[w].already
        /\ h.pc \in Late /\ h.reply = worker[w].reply /\ h.blind = worker[w].blind
    BY <1>1, <1>2 DEF WorkerType
  <2>3. worker[w].reply = "none" /\ (worker[w].already => worker[w].blind)
    BY <1>2 DEF RetryInv, Late
  <2> HIDE DEF h
  <2>4. QED
    BY <2>1, <2>2, <2>3
<1>3. ASSUME NEW kind \in Answers, Reply(w, kind), worker[w].pc \in Late
      PROVE  \E h : /\ worker' = [worker EXCEPT ![w] = h]
                    /\ h.req.key = worker[w].req.key /\ h.already = worker[w].already
                    /\ h.pc = "replied" /\ h.reply = kind /\ (h.already => h.blind)
  <2> DEFINE h == Answered(worker[w], kind)
  <2>1. worker' = [worker EXCEPT ![w] = h]
    BY <1>1, <1>3 DEF Reply
  <2>2. worker[w].already => worker[w].blind
    BY <1>3 DEF RetryInv, Late
  <2>3. /\ h.req.key = worker[w].req.key /\ h.already = worker[w].already
        /\ h.pc = "replied" /\ h.reply = kind /\ h.blind = worker[w].blind
    BY <1>1, AnsweredSound
  <2> HIDE DEF h
  <2>4. QED
    BY <2>1, <2>2, <2>3
<1>4. ASSUME NEW kind \in Answers, NEW i \in Nat, ReplyRow(w, kind, i)
      PROVE  \E h : /\ worker' = [worker EXCEPT ![w] = h]
                    /\ h.req.key = worker[w].req.key /\ h.already = worker[w].already
                    /\ h.pc = "replied" /\ h.reply = kind /\ h.row = i
  <2> DEFINE h == AnsweredRow(worker[w], kind, i)
  <2>1. worker' = [worker EXCEPT ![w] = h]
    BY <1>1, <1>4 DEF ReplyRow
  <2>2. /\ h.req.key = worker[w].req.key /\ h.already = worker[w].already
        /\ h.pc = "replied" /\ h.reply = kind /\ h.row = i
    BY ReplyRowSound
  <2> HIDE DEF h
  <2>3. QED
    BY <2>1, <2>2
<1>5. CASE Lookup(w)
  <2>1. CASE \E i \in WithKey(worker[w].req.key) : ReplyRow(w, "duplicate", i)
    BY <1>4, <2>1, RowIdsAre DEF Answers
  <2>2. ASSUME NEW failed \in BOOLEAN, NEW cafe \in Clock,
               IF failed THEN Fails ELSE WithKey(worker[w].req.key) = {} /\ Works,
               worker' = [worker EXCEPT ![w] =
                            CheckHours([worker[w] EXCEPT !.blind = failed], cafe)]
        PROVE  \E h : /\ worker' = [worker EXCEPT ![w] = h]
                      /\ h.req.key = worker[w].req.key /\ h.already = worker[w].already
                      /\ h.already => h.blind
                      /\ \/ h.pc \in Late /\ h.reply = "none"
                         \/ h.pc = "replied" /\ h.reply \notin {"created", "duplicate"}
    <3> DEFINE b == [worker[w] EXCEPT !.blind = failed]
    <3>1. b \in WorkerType /\ b.req.table \in Tables
      BY <1>1, <1>5 DEF TypeOK, WorkerType, At, Lookup
    <3>2. /\ b.req = worker[w].req /\ b.already = worker[w].already
          /\ b.blind = failed /\ b.reply = worker[w].reply
      BY <1>1 DEF WorkerType
    <3>3. worker[w].reply = "none"
      BY <1>5 DEF RetryInv, Lookup, At
    <3>4. worker[w].already => failed
      BY <2>2 DEF RetryInv
    <3> DEFINE h == CheckHours(b, cafe)
    <3>5. worker' = [worker EXCEPT ![w] = h]
      BY <2>2
    <3> HIDE DEF b
    <3>6. /\ h.req.key = b.req.key /\ h.already = b.already /\ h.blind = b.blind
          /\ \/ h.pc = "replied" /\ h.reply = "closed"
             \/ h.pc \in Late /\ h.reply = b.reply
      BY <3>1, CheckHoursSound DEF Late
    <3> HIDE DEF h
    <3>7. QED
      BY <3>2, <3>3, <3>4, <3>5, <3>6
  <2>3. QED
    BY <1>5, <2>1, <2>2 DEF Lookup
<1>6. CASE CountIp(w) \/ CountTable(w) \/ CountIpAtTable(w)
  <2>1. worker[w].pc \in Late
    BY <1>6 DEF CountIp, CountTable, CountIpAtTable, At, Late
  <2>2. Reply(w, "limited") \/ \E pc \in Late : Goto(w, pc)
    BY <1>6 DEF CountIp, CountTable, CountIpAtTable, Limit, Late
  <2>3. CASE Reply(w, "limited")
    BY <1>3, <2>1, <2>3 DEF Answers
  <2>4. CASE \E pc \in Late : Goto(w, pc)
    BY <1>2, <2>1, <2>4
  <2>5. QED
    BY <2>2, <2>3, <2>4
<1>7. CASE LoadProducts(w)
  <2>1. worker[w].pc \in Late
    BY <1>7 DEF LoadProducts, At, Late
  <2>2. \/ Goto(w, "insert")
        \/ \E kind \in {"refused", "unavailable", "error"} : Reply(w, kind)
    BY <1>7 DEF LoadProducts
  <2>3. CASE Goto(w, "insert")
    BY <1>2, <2>1, <2>3 DEF Late
  <2>4. CASE \E kind \in {"refused", "unavailable", "error"} : Reply(w, kind)
    BY <1>3, <2>1, <2>4 DEF Answers
  <2>5. QED
    BY <2>2, <2>3, <2>4
<1>8. CASE Insert(w)
  <2>1. worker[w].pc \in Late
    BY <1>8 DEF Insert, At, Late
  <2>2. CASE /\ ReplyRow(w, "created", Len(rows) + 1)
             /\ rows' = Append(rows, Row(worker[w].req))
             /\ Row(worker[w].req) \in RowType
             /\ worker[w].req.key = NoKey \/ WithKey(worker[w].req.key) = {}
    <3>1. Len(rows) + 1 \in Nat /\ "created" \in Answers
      BY RowIdsAre DEF Answers
    <3>2. PICK h : /\ worker' = [worker EXCEPT ![w] = h]
                   /\ h.req.key = worker[w].req.key /\ h.already = worker[w].already
                   /\ h.pc = "replied" /\ h.reply = "created" /\ h.row = Len(rows) + 1
      BY <1>4, <2>2, <3>1
    <3>3. QED
      BY <2>2, <3>2
  <2>3. CASE Goto(w, "reselect")
    BY <1>2, <2>1, <2>3 DEF Late
  <2>4. CASE Reply(w, "error")
    BY <1>3, <2>1, <2>4 DEF Answers
  <2>5. QED
    BY <1>8, <2>2, <2>3, <2>4, InsertRows DEF Insert
<1>9. CASE Reselect(w)
  <2>1. worker[w].pc \in Late
    BY <1>9 DEF Reselect, At, Late
  <2>2. CASE \E i \in WithKey(worker[w].req.key) : ReplyRow(w, "duplicate", i)
    BY <1>4, <2>2, RowIdsAre DEF Answers
  <2>3. CASE Reply(w, "error")
    BY <1>3, <2>1, <2>3 DEF Answers
  <2>4. QED
    BY <1>9, <2>2, <2>3 DEF Reselect
<1>10. QED
  BY <1>5, <1>6, <1>7, <1>8, <1>9 DEF HandlerStep

\* No step takes a row away or changes its key.
LEMMA KeysPersist ==
    ASSUME TypeOK, [Next]_intakeVars
    PROVE  /\ \A i \in RowIds : i \in RowIds' /\ rows'[i].key = rows[i].key
           /\ \A k : WithKey(k) \subseteq WithKey(k)'
<1>1. rows \in Seq(RowType)
  BY DEF TypeOK
<1>2. \/ rows' = rows
      \/ \E w \in Workers : Insert(w)
      \/ \E i \in RowIds : Decide(i) \/ LeaveWindow(i)
  BY DEF Next, intakeVars, HandlerStep, Lookup, CountIp, CountTable, CountIpAtTable,
         Limit, LoadProducts, Reselect, Finish, Receive
<1>3. \A i \in RowIds : i \in RowIds' /\ rows'[i].key = rows[i].key
  <2>1. CASE rows' = rows
    BY <2>1 DEF RowIds
  <2>2. ASSUME NEW w \in Workers, Insert(w)
        PROVE  \A i \in RowIds : i \in RowIds' /\ rows'[i].key = rows[i].key
    <3>1. CASE rows' = Append(rows, Row(worker[w].req))
      <4>1. /\ Len(rows') = Len(rows) + 1
            /\ \A i \in 1..Len(rows) : rows'[i] = rows[i]
        BY <1>1, <2>2, <3>1, InsertRows, AppendProperties
      <4>2. RowIds' = 1..Len(rows') /\ RowIds = 1..Len(rows) /\ Len(rows) \in Nat
        BY <1>1, <2>2, InsertRows, LenProperties DEF RowIds
      <4>3. QED
        BY <4>1, <4>2
    <3>2. QED
      BY <2>1, <2>2, <3>1, InsertRows
  <2>3. ASSUME NEW i \in RowIds, Decide(i) \/ LeaveWindow(i)
        PROVE  \A j \in RowIds : j \in RowIds' /\ rows'[j].key = rows[j].key
    <3>1. RowIds' = 1..Len(rows') /\ RowIds = 1..Len(rows)
      BY <1>1, <2>3, LaterLife, LenProperties DEF RowIds
    <3>2. QED
      BY <2>3, <3>1, LaterLife
  <2>4. QED
    BY <1>2, <2>1, <2>2, <2>3
<1>4. QED
  BY <1>3 DEF WithKey

\* The unique index holds of the rows after every step.
LEMMA KeysUnique ==
    ASSUME TypeOK, OneRowPerKey, [Next]_intakeVars
    PROVE  \A i, j \in RowIds' :
              rows'[i].key = rows'[j].key /\ i # j => rows'[i].key = NoKey
<1>1. rows \in Seq(RowType) /\ RowIds = 1..Len(rows) /\ Len(rows) \in Nat
  BY RowIdsAre DEF TypeOK
<1>2. \A i, j \in RowIds : rows[i].key = rows[j].key /\ i # j => rows[i].key = NoKey
  BY DEF OneRowPerKey
<1>3. CASE RowIds' = RowIds
  BY <1>2, <1>3, KeysPersist
<1>4. ASSUME NEW w \in Workers, rows' = Append(rows, Row(worker[w].req)),
             Row(worker[w].req) \in RowType,
             worker[w].req.key = NoKey \/ WithKey(worker[w].req.key) = {}
      PROVE  \A i, j \in RowIds' :
                rows'[i].key = rows'[j].key /\ i # j => rows'[i].key = NoKey
  <2> DEFINE k == worker[w].req.key
             n == Len(rows) + 1
  <2>1. /\ Len(rows') = n
        /\ \A i \in 1..Len(rows) : rows'[i] = rows[i]
        /\ rows'[n] = Row(worker[w].req)
    BY <1>1, <1>4, AppendProperties
  <2>2. rows' \in Seq(RowType)
    BY <1>1, <1>4, AppendProperties
  <2>3. RowIds' = RowIds \cup {n}
    BY <1>1, <2>1, <2>2, LenProperties DEF RowIds
  <2>4. rows'[n].key = k
    BY <2>1 DEF Row
  <2>5. k = NoKey \/ \A i \in RowIds : rows[i].key # k
    BY <1>4 DEF WithKey
  <2>6. \A i \in RowIds : rows'[i].key = rows[i].key
    BY <1>1, <2>1
  <2> HIDE DEF k, n
  <2>7. QED
    BY <1>2, <2>3, <2>4, <2>5, <2>6
<1>5. \/ RowIds' = RowIds
      \/ \E w \in Workers : Insert(w)
  <2>1. ASSUME NEW i \in RowIds, Decide(i) \/ LeaveWindow(i) PROVE RowIds' = RowIds
    BY <1>1, <2>1, LaterLife, LenProperties DEF RowIds
  <2>2. rows' = rows => RowIds' = RowIds
    BY DEF RowIds
  <2>3. QED
    BY <2>1, <2>2 DEF Next, intakeVars, HandlerStep, Lookup, CountIp, CountTable,
       CountIpAtTable, Limit, LoadProducts, Reselect, Finish, Receive
<1>6. ASSUME NEW w \in Workers, Insert(w)
      PROVE  \A i, j \in RowIds' :
                rows'[i].key = rows'[j].key /\ i # j => rows'[i].key = NoKey
  BY <1>3, <1>4, <1>6, InsertRows DEF RowIds
<1>7. QED
  BY <1>3, <1>5, <1>6

\* Everything about keys that the properties say, and what it rests on.
KeyInv == RetryInv /\ RetryGetsItsOrder /\ OneRowPerKey

\* What KeyInv says of one handler's record.
KeySound(h) ==
    /\ h.pc # "replied" => h.reply = "none"
    /\ h.already => h.req.key # NoKey /\ WithKey(h.req.key) # {}
    /\ h.already /\ h.pc \notin {"idle", "lookup", "replied"} => h.blind
    /\ h.pc = "replied" /\ h.already =>
          /\ h.reply # "created"
          /\ h.reply \notin {"duplicate", "refused", "pretended"} => h.blind
    /\ h.reply \in {"created", "duplicate"} => h.row \in WithKey(h.req.key)

LEMMA KeySoundAll ==
    ASSUME \A w \in Workers : KeySound(worker[w]),
           \A i, j \in RowIds : rows[i].key = rows[j].key /\ i # j => rows[i].key = NoKey
    PROVE  KeyInv
  BY DEF KeyInv, KeySound, RetryInv, RetryGetsItsOrder, OneRowPerKey, WithKey, At

LEMMA KeySoundOne ==
    ASSUME KeyInv, NEW w \in Workers
    PROVE  KeySound(worker[w])
  BY DEF KeyInv, KeySound, RetryInv, RetryGetsItsOrder, OneRowPerKey, WithKey, At

LEMMA KeyInit == ASSUME Init PROVE KeyInv
<1>1. rows \in Seq(RowType) /\ Len(rows) = 0
  BY EmptySeq DEF Init
<1>2. RowIds = {}
  BY <1>1, LenProperties DEF RowIds
<1>3. \A w \in Workers : KeySound(worker[w])
  BY DEF Init, IdleWorker, KeySound
<1>4. QED
  BY <1>2, <1>3, KeySoundAll

\* The record that the handler which steps is left with.
LEMMA KeyWritten ==
    ASSUME TypeOK, KeyInv, [Next]_intakeVars, NEW w \in Workers,
           \/ HandlerStep(w) \/ Finish(w)
           \/ \E r \in Requests : Receive(w, r)
    PROVE  \E h : worker' = [worker EXCEPT ![w] = h] /\ KeySound(h)'
<1>1. \A k : WithKey(k) \subseteq WithKey(k)'
  BY KeysPersist
<1>2. CASE HandlerStep(w)
  <2>1. PICK h :
             /\ worker' = [worker EXCEPT ![w] = h]
             /\ h.req.key = worker[w].req.key
             /\ h.already = worker[w].already
             /\ \/ /\ h.pc \in Late /\ h.reply = "none"
                   /\ h.already => h.blind
                \/ /\ h.pc = "replied" /\ h.reply \notin {"created", "duplicate"}
                   /\ h.already => h.blind
                \/ /\ h.pc = "replied" /\ h.reply = "duplicate"
                   /\ h.row \in WithKey(h.req.key)
                \/ /\ h.pc = "replied" /\ h.reply = "created"
                   /\ rows' = Append(rows, Row(worker[w].req)) /\ h.row = Len(rows) + 1
                   /\ Row(worker[w].req) \in RowType
                   /\ h.req.key = NoKey \/ WithKey(h.req.key) = {}
    BY <1>2, Outcome DEF KeyInv
  <2>2. h.already => h.req.key # NoKey /\ WithKey(h.req.key) # {}
    BY <2>1 DEF KeyInv, RetryInv
  <2>3. h.already => WithKey(h.req.key)' # {}
    BY <1>1, <2>2
  <2>4. CASE h.reply # "created"
    BY <1>1, <2>1, <2>2, <2>3, <2>4 DEF KeySound, Late
  <2>5. CASE h.reply = "created"
    <3> DEFINE n == Len(rows) + 1
    <3>1. /\ h.pc = "replied" /\ ~h.already /\ h.row = n
          /\ h.req.key = worker[w].req.key
          /\ rows' = Append(rows, Row(worker[w].req)) /\ Row(worker[w].req) \in RowType
      BY <2>1, <2>2, <2>5
    <3>2. rows \in Seq(RowType) /\ Len(rows) \in Nat
      BY RowIdsAre DEF TypeOK
    <3>3. rows' \in Seq(RowType) /\ Len(rows') = n /\ rows'[n] = Row(worker[w].req)
      BY <3>1, <3>2, AppendProperties
    <3>4. n \in RowIds' /\ rows'[n].key = worker[w].req.key
      BY <3>2, <3>3, LenProperties DEF RowIds, Row
    <3>5. n \in WithKey(h.req.key)'
      BY <3>1, <3>4 DEF WithKey
    <3> HIDE DEF n
    <3>6. QED
      BY <2>1, <2>5, <3>1, <3>5 DEF KeySound
  <2>6. QED
    BY <2>4, <2>5, <2>1
<1>3. CASE Finish(w)
  <2>1. KeySound(IdleWorker)'
    BY DEF IdleWorker, KeySound
  <2>2. QED
    BY <1>3, <2>1 DEF Finish
<1>4. ASSUME NEW r \in Requests, Receive(w, r)
      PROVE  \E h : worker' = [worker EXCEPT ![w] = h] /\ KeySound(h)'
  <2>1. PICK h \in Begun(r) : worker' = [worker EXCEPT ![w] = h]
    BY <1>4 DEF Receive
  <2>2. PICK site \in Sites, cafe \in Clock : h = FirstChecks(Begin(r), r, site, cafe)
    BY DEF Begun
  <2>3. /\ h.req.key = r.key
        /\ h.already => r.key # NoKey /\ WithKey(r.key) # {}
        /\ \/ h.pc = "replied" /\ h.reply \in {"pretended", "refused"}
           \/ h.pc = "replied" /\ h.reply = "closed" /\ r.key = NoKey
           \/ h.pc = "lookup" /\ h.reply = "none"
           \/ r.key = NoKey /\ h.reply = "none" /\ h.pc \in Late
    <3>1. Begin(r).already => r.key # NoKey /\ WithKey(r.key) # {}
      BY BeginSound, Zenon
    <3>2. /\ h.req.key = r.key
          /\ h.already = Begin(r).already
          /\ \/ h.pc = "replied" /\ h.reply \in {"pretended", "refused"}
             \/ h.pc = "replied" /\ h.reply = "closed" /\ r.key = NoKey
             \/ h.pc = "lookup" /\ h.reply = "none"
             \/ r.key = NoKey /\ h.reply = "none" /\ h.pc \in {"table", "rate"}
      <4> DEFINE g == FirstChecks(Begin(r), r, site, cafe)
      <4>1. /\ g.req.key = r.key
            /\ g.already = Begin(r).already
            /\ \/ g.pc = "replied" /\ g.reply \in {"pretended", "refused"}
               \/ g.pc = "replied" /\ g.reply = "closed" /\ r.key = NoKey
               \/ g.pc = "lookup" /\ g.reply = "none"
               \/ /\ r.key = NoKey /\ g.reply = "none"
                  /\ g.pc = IF g.req.ip = NoIp THEN "table" ELSE "rate"
        BY FirstChecksSound
      <4>2. h = g
        BY <2>2
      <4> HIDE DEF g
      <4>3. QED
        BY <4>1, <4>2
    <3>3. QED
      BY <3>1, <3>2 DEF Late
  <2>4. WithKey(r.key) # {} => WithKey(r.key)' # {}
    BY <1>1
  <2>5. KeySound(h)'
    BY <2>3, <2>4 DEF KeySound, Late
  <2>6. QED
    BY <2>1, <2>5
<1>5. QED
  BY <1>2, <1>3, <1>4

\* The records of the other handlers stay as they should be.
LEMMA KeyKept ==
    ASSUME TypeOK, KeyInv, [Next]_intakeVars, NEW v \in Workers
    PROVE  KeySound(worker[v])
           /\ \A h : h = worker[v] => KeySound(h)'
<1>1. KeySound(worker[v])
  BY KeySoundOne
<1>2. ASSUME NEW h, h = worker[v] PROVE KeySound(h)'
  BY <1>1, <1>2, KeysPersist DEF KeySound
<1>3. QED
  BY <1>1, <1>2

LEMMA KeyStep == ASSUME TypeOK, KeyInv, [Next]_intakeVars PROVE KeyInv'
<1>1. \A i, j \in RowIds' :
         rows'[i].key = rows'[j].key /\ i # j => rows'[i].key = NoKey
  BY KeysUnique DEF KeyInv
<1>3. ASSUME NEW w \in Workers, NEW h, worker' = [worker EXCEPT ![w] = h], KeySound(h)',
             NEW v \in Workers
      PROVE  KeySound(worker[v])'
  <2>1. worker \in [Workers -> WorkerType]
    BY DEF TypeOK
  <2>2. CASE v = w
    <3>1. worker'[v] = h
      BY <1>3, <2>1, <2>2
    <3>2. QED
      BY <1>3, <3>1
  <2>3. CASE v # w
    <3>1. PICK g : g = worker[v]
      OBVIOUS
    <3>2. worker'[v] = g /\ KeySound(g)'
      BY <1>3, <2>1, <2>3, <3>1, KeyKept
    <3>3. QED
      BY <3>2
  <2>4. QED
    BY <2>2, <2>3
<1>4. \A w \in Workers : KeySound(worker[w])'
  <2>1. \/ worker' = worker
        \/ \E w \in Workers : \/ HandlerStep(w) \/ Finish(w)
                              \/ \E r \in Requests : Receive(w, r)
    BY DEF Next, intakeVars, Decide, LeaveWindow
  <2>2. CASE worker' = worker
    <3>1. ASSUME NEW v \in Workers PROVE KeySound(worker[v])'
      <4>1. PICK g : g = worker[v]
        OBVIOUS
      <4>2. worker'[v] = g /\ KeySound(g)'
        BY <2>2, <4>1, KeyKept
      <4>3. QED
        BY <4>2
    <3>2. QED
      BY <3>1
  <2>3. ASSUME NEW w \in Workers,
               \/ HandlerStep(w) \/ Finish(w)
               \/ \E r \in Requests : Receive(w, r)
        PROVE  \A v \in Workers : KeySound(worker[v])'
    <3>1. PICK h : worker' = [worker EXCEPT ![w] = h] /\ KeySound(h)'
      BY <2>3, KeyWritten
    <3>2. QED
      BY <1>3, <3>1
  <2>4. QED
    BY <2>1, <2>2, <2>3
<1>5. QED
  BY <1>1, <1>4 DEF KeyInv, KeySound, RetryInv, RetryGetsItsOrder, OneRowPerKey, WithKey, At

\* KeyInv is an invariant.
THEOREM KeyInvariant == Spec => []KeyInv
<1>1. Init => TypeOK /\ KeyInv
  BY TypeInit, KeyInit
<1>2. TypeOK /\ KeyInv /\ [Next]_intakeVars => (TypeOK /\ KeyInv)'
  BY TypeStep, KeyStep
<1>3. QED
  BY <1>1, <1>2, PTL DEF Spec

\* However handlers interleave, whatever fails, and whatever the limits are: a
\* request whose idempotency key was recorded before it came in is never recorded
\* again, and is answered with its own order unless the key's lookup failed.
THEOREM RetrySafe == Spec => []RetryGetsItsOrder
<1>1. KeyInv => RetryGetsItsOrder
  BY DEF KeyInv
<1>2. QED
  BY <1>1, KeyInvariant, PTL

\* No two orders ever have one idempotency key, and every success with a key names
\* the order that has it.
THEOREM KeysIdentify == Spec => []OneRowPerKey
<1>1. KeyInv => OneRowPerKey
  BY DEF KeyInv
<1>2. QED
  BY <1>1, KeyInvariant, PTL
-----------------------------------------------------------------------------
(* The limits. A handler that has been let past a limit counts as if it had   *)
(* inserted: it was let past when fewer than the limit were counted, and then *)
(* at most every handler is past it, or a fault let it pass, or it was past   *)
(* already.                                                                   *)

LEMMA CardLeq ==
    ASSUME NEW S, NEW T, S \subseteq T, IsFiniteSet(T)
    PROVE  /\ IsFiniteSet(S) /\ Cardinality(S) \in Nat /\ Cardinality(T) \in Nat
           /\ Cardinality(S) <= Cardinality(T)
  BY FS_Subset, FS_CardinalityType

LEMMA CardAdd ==
    ASSUME NEW S, NEW T, NEW x, S \subseteq T \cup {x}, IsFiniteSet(T)
    PROVE  Cardinality(S) \in Nat /\ Cardinality(S) <= Cardinality(T) + 1
<1>1. Cardinality(T) \in Nat
  BY FS_CardinalityType
<1>2. IsFiniteSet(T \cup {x}) /\ Cardinality(T \cup {x}) <= Cardinality(T) + 1
  BY <1>1, FS_AddElement
<1>3. /\ Cardinality(S) \in Nat /\ Cardinality(T \cup {x}) \in Nat
      /\ Cardinality(S) <= Cardinality(T \cup {x})
  BY <1>2, CardLeq
<1>4. QED
  BY <1>1, <1>2, <1>3

LEMMA CardRemove ==
    ASSUME NEW S, NEW T, NEW x \in T, S \subseteq T \ {x}, IsFiniteSet(T)
    PROVE  Cardinality(S) \in Nat /\ Cardinality(S) <= Cardinality(T) - 1
<1>1. IsFiniteSet(T \ {x}) /\ Cardinality(T \ {x}) = Cardinality(T) - 1
  BY FS_RemoveElement
<1>2. QED
  BY <1>1, CardLeq

\* Four ways in which the rows C that count towards a limit, the handlers P past
\* it and the faults s may change to D, Q and t.
LEMMA Counting ==
    ASSUME NEW C, IsFiniteSet(C), NEW D, NEW P \in SUBSET Workers,
           NEW Q \in SUBSET Workers, NEW max \in Nat, NEW s \in Nat, NEW t \in Nat,
           s <= t, NEW n, NEW w,
           Cardinality(C) + Cardinality(P) <= max + (Cardinality(Workers) - 1 + s),
           \/ D \subseteq C /\ Q \subseteq P
           \/ D \subseteq C /\ Cardinality(C) < max
           \/ D \subseteq C /\ Q \subseteq P \cup {w} /\ t = s + 1
           \/ D \subseteq C \cup {n} /\ w \in P /\ Q \subseteq P \ {w}
    PROVE  Cardinality(D) + Cardinality(Q) <= max + (Cardinality(Workers) - 1 + t)
<1>1. IsFiniteSet(Workers) /\ Cardinality(Workers) \in Nat
  BY ConstantsTyped, FS_CardinalityType
<1>2. /\ IsFiniteSet(P) /\ Cardinality(P) \in Nat
      /\ Cardinality(Q) \in Nat /\ Cardinality(Q) <= Cardinality(Workers)
      /\ Cardinality(C) \in Nat
  BY <1>1, CardLeq, FS_CardinalityType
<1>3. CASE D \subseteq C /\ Q \subseteq P
  BY <1>1, <1>2, <1>3, CardLeq
<1>4. CASE D \subseteq C /\ Cardinality(C) < max
  BY <1>1, <1>2, <1>4, CardLeq
<1>5. CASE D \subseteq C /\ Q \subseteq P \cup {w} /\ t = s + 1
  <2>1. Cardinality(D) \in Nat /\ Cardinality(D) <= Cardinality(C)
    BY <1>5, CardLeq
  <2>2. Cardinality(Q) <= Cardinality(P) + 1
    BY <1>2, <1>5, CardAdd
  <2>3. QED
    BY <1>1, <1>2, <1>5, <2>1, <2>2
<1>6. CASE D \subseteq C \cup {n} /\ w \in P /\ Q \subseteq P \ {w}
  <2>1. Cardinality(D) \in Nat /\ Cardinality(D) <= Cardinality(C) + 1
    BY <1>6, CardAdd
  <2>2. Cardinality(Q) <= Cardinality(P) - 1
    BY <1>2, <1>6, CardRemove
  <2>3. QED
    BY <1>1, <1>2, <2>1, <2>2
<1>7. QED
  BY <1>3, <1>4, <1>5, <1>6

LEMMA CountedFinite ==
    ASSUME TypeOK, NEW S \in SUBSET RowIds
    PROVE  IsFiniteSet(S)
<1>1. IsFiniteSet(1..Len(rows)) /\ RowIds = 1..Len(rows)
  BY RowIdsAre, FS_Interval
<1>2. QED
  BY <1>1, FS_Subset
\* Where a step takes a handler, as far as the limits are concerned: h is past no
\* limit, or only past those that need an address it does not have, or one
\* count further, let by because fewer rows than the limit were counted or
\* because the count failed.
Advanced(w, h) ==
    LET g == worker[w]
        faulty == spent' = spent + 1
    IN
    /\ h.req = g.req
    /\ \/ /\ g.pc = "rate" /\ h.pc = "table"
          /\ faulty \/ Cardinality(OfIp(h.req.ip)) < RateMax
       \/ /\ g.pc = "table" /\ h.pc = "ipTable"
          /\ Cardinality(OfTable(h.req.table)) < TableMax
       \/ g.pc = "table" /\ h.pc = "items" /\ faulty
       \/ /\ g.pc = "table" /\ h.pc = "items" /\ h.req.ip = NoIp
          /\ Cardinality(OfTable(h.req.table)) < TableMax
       \/ /\ g.pc = "ipTable" /\ h.pc = "items"
          /\ faulty \/ Cardinality(OfIpAtTable(h.req.ip, h.req.table)) < IpTableMax
       \/ g.pc = "items" /\ h.pc = "insert"

Outside(h) == h.pc \in {"idle", "lookup", "rate", "reselect", "replied"}

LEMMA HoursOutside ==
    ASSUME NEW h \in WorkerType, h.req.table \in Tables, NEW cafe \in Clock
    PROVE  LET g == CheckHours(h, cafe) IN
           Outside(g) \/ (g.pc = "table" /\ g.req.ip = NoIp)
<1> DEFINE g == CheckHours(h, cafe)
<1>1. \/ g.pc = "replied"
      \/ g.pc = (IF h.req.ip = NoIp THEN "table" ELSE "rate") /\ g.req = h.req
  BY CheckHoursSound
<1> HIDE DEF g
<1>2. QED
  BY <1>1 DEF Outside, g

\* A handler's step leaves it with h.
Moved(w, h) ==
    /\ worker' = [worker EXCEPT ![w] = h]
    /\ \/ Outside(h)
       \/ rows' = rows /\ h.pc = "table" /\ h.req.ip = NoIp
       \/ rows' = rows /\ Advanced(w, h)
    /\ rows' # rows => Insert(w) /\ h.pc = "replied"

LEMMA MovesToAnswer ==
    ASSUME TypeOK, NEW w \in Workers, NEW kind \in Answers, NEW i \in Nat,
           Reply(w, kind) \/ ReplyRow(w, kind, i), rows' = rows \/ Insert(w)
    PROVE  \E h : Moved(w, h)
<1>1. CASE Reply(w, kind)
  <2> DEFINE h == Answered(worker[w], kind)
  <2>1. worker' = [worker EXCEPT ![w] = h]
    BY <1>1 DEF Reply, TypeOK
  <2>2. h.pc = "replied"
    BY AnsweredSound DEF TypeOK
  <2> HIDE DEF h
  <2>3. QED
    BY <2>1, <2>2 DEF Moved, Outside
<1>2. CASE ReplyRow(w, kind, i)
  <2> DEFINE h == AnsweredRow(worker[w], kind, i)
  <2>1. worker' = [worker EXCEPT ![w] = h]
    BY <1>2 DEF ReplyRow, TypeOK
  <2>2. h.pc = "replied"
    BY ReplyRowSound
  <2> HIDE DEF h
  <2>3. QED
    BY <2>1, <2>2 DEF Moved, Outside
<1>3. QED
  BY <1>1, <1>2

\* A step within the handler that leaves the rows alone and is no answer.
LEMMA MovesOn ==
    ASSUME TypeOK, NEW w \in Workers, NEW pc \in Late, Goto(w, pc), rows' = rows,
           \/ pc = "reselect"
           \/ \A h : h.req = worker[w].req /\ h.pc = pc => Advanced(w, h)
    PROVE  \E h : Moved(w, h)
<1> DEFINE h == [worker[w] EXCEPT !.pc = pc]
<1>1. worker' = [worker EXCEPT ![w] = h]
  BY DEF Goto, TypeOK
<1>2. h.req = worker[w].req /\ h.pc = pc
  BY DEF TypeOK, WorkerType
<1> HIDE DEF h
<1>3. Outside(h) \/ Advanced(w, h)
  BY <1>2 DEF Outside
<1>4. QED
  BY <1>1, <1>3 DEF Moved

LEMMA Moves ==
    ASSUME TypeOK, NEW w \in Workers,
           \/ HandlerStep(w) \/ Finish(w)
           \/ \E r \in Requests : Receive(w, r)
    PROVE  \E h : Moved(w, h)
<1>1. CASE Lookup(w)
  <2>1. rows' = rows /\ worker[w].pc = "lookup"
    BY <1>1 DEF Lookup, At
  <2>2. CASE \E i \in WithKey(worker[w].req.key) : ReplyRow(w, "duplicate", i)
    BY <2>1, <2>2, MovesToAnswer, RowIdsAre DEF Answers
  <2>3. ASSUME NEW failed \in BOOLEAN, NEW cafe \in Clock,
               worker' = [worker EXCEPT ![w] =
                            CheckHours([worker[w] EXCEPT !.blind = failed], cafe)]
        PROVE  \E h : Moved(w, h)
    <3> DEFINE b == [worker[w] EXCEPT !.blind = failed]
               h == CheckHours(b, cafe)
    <3>1. b \in WorkerType /\ b.req.table \in Tables
      BY <2>1 DEF TypeOK, WorkerType
    <3>2. worker' = [worker EXCEPT ![w] = h]
      BY <2>3
    <3> HIDE DEF b
    <3>3. Outside(h) \/ (h.pc = "table" /\ h.req.ip = NoIp)
      BY <3>1, HoursOutside
    <3> HIDE DEF h
    <3>4. QED
      BY <2>1, <3>2, <3>3 DEF Moved
  <2>4. QED
    BY <1>1, <2>2, <2>3 DEF Lookup
<1>2. CASE CountIp(w)
  <2>1. /\ worker[w].pc = "rate" /\ rows' = rows
        /\ \/ Reply(w, "limited")
           \/ /\ Goto(w, "table")
              /\ spent' = spent + 1 \/ Cardinality(OfIp(worker[w].req.ip)) < RateMax
    BY <1>2 DEF CountIp, Limit, At, Fails
  <2>2. QED
    BY <2>1, MovesToAnswer, MovesOn DEF Answers, Late, Advanced
<1>3. CASE CountTable(w)
  <2>1. /\ worker[w].pc = "table" /\ rows' = rows
        /\ \/ Reply(w, "limited")
           \/ /\ Goto(w, "ipTable") /\ worker[w].req.ip # NoIp
              /\ Cardinality(OfTable(worker[w].req.table)) < TableMax
           \/ /\ Goto(w, "items") /\ worker[w].req.ip = NoIp
              /\ Cardinality(OfTable(worker[w].req.table)) < TableMax
           \/ Goto(w, "items") /\ spent' = spent + 1
    BY <1>3 DEF CountTable, Limit, At, Fails
  <2>2. QED
    BY <2>1, MovesToAnswer, MovesOn DEF Answers, Late, Advanced
<1>4. CASE CountIpAtTable(w)
  <2>1. /\ worker[w].pc = "ipTable" /\ rows' = rows
        /\ \/ Reply(w, "limited")
           \/ /\ Goto(w, "items")
              /\ \/ spent' = spent + 1
                 \/ Cardinality(OfIpAtTable(worker[w].req.ip, worker[w].req.table))
                       < IpTableMax
    BY <1>4 DEF CountIpAtTable, Limit, At, Fails
  <2>2. QED
    BY <2>1, MovesToAnswer, MovesOn DEF Answers, Late, Advanced
<1>5. CASE LoadProducts(w)
  <2>1. /\ worker[w].pc = "items" /\ rows' = rows
        /\ \/ Goto(w, "insert")
           \/ \E kind \in {"refused", "unavailable", "error"} : Reply(w, kind)
    BY <1>5 DEF LoadProducts, At
  <2>2. QED
    BY <2>1, MovesToAnswer, MovesOn DEF Answers, Late, Advanced
<1>6. CASE Insert(w)
  <2>1. \/ ReplyRow(w, "created", Len(rows) + 1)
        \/ Goto(w, "reselect") /\ rows' = rows
        \/ Reply(w, "error")
    BY <1>6 DEF Insert
  <2>2. Len(rows) + 1 \in Nat
    BY RowIdsAre
  <2>3. QED
    BY <1>6, <2>1, <2>2, MovesToAnswer, MovesOn DEF Answers, Late
<1>7. CASE Reselect(w)
  <2>1. /\ rows' = rows
        /\ \/ \E i \in WithKey(worker[w].req.key) : ReplyRow(w, "duplicate", i)
           \/ Reply(w, "error")
    BY <1>7 DEF Reselect
  <2>2. QED
    BY <2>1, MovesToAnswer, RowIdsAre DEF Answers
<1>8. CASE Finish(w)
  <2>1. worker' = [worker EXCEPT ![w] = IdleWorker] /\ rows' = rows
    BY <1>8 DEF Finish
  <2>2. Outside(IdleWorker)
    BY DEF Outside, IdleWorker
  <2>3. QED
    BY <2>1, <2>2 DEF Moved
<1>9. ASSUME NEW r \in Requests, Receive(w, r)
      PROVE  \E h : Moved(w, h)
  <2>1. rows' = rows
    BY <1>9 DEF Receive
  <2>2. PICK h \in Begun(r) : worker' = [worker EXCEPT ![w] = h]
    BY <1>9 DEF Receive
  <2>3. PICK site \in Sites, cafe \in Clock : h = FirstChecks(Begin(r), r, site, cafe)
    BY DEF Begun
  <2>4. Outside(h) \/ (h.pc = "table" /\ h.req.ip = NoIp)
    <3> DEFINE g == FirstChecks(Begin(r), r, site, cafe)
    <3>1. \/ g.pc = "replied"
          \/ g.pc = "lookup"
          \/ g.pc = IF g.req.ip = NoIp THEN "table" ELSE "rate"
      BY FirstChecksSound
    <3>2. h = g
      BY <2>3
    <3> HIDE DEF g
    <3>3. QED
      BY <3>1, <3>2 DEF Outside
  <2>5. QED
    BY <2>1, <2>2, <2>4 DEF Moved
<1>10. QED
  BY <1>1, <1>2, <1>3, <1>4, <1>5, <1>6, <1>7, <1>8, <1>9 DEF HandlerStep
\* What a step does to the rows that count: none is added, except by an INSERT,
\* which may add its own to those of its address and its table.
RowsShrink ==
    /\ \A ip : OfIp(ip)' \subseteq OfIp(ip)
    /\ \A t : OfTable(t)' \subseteq OfTable(t)
    /\ \A ip, t : OfIpAtTable(ip, t)' \subseteq OfIpAtTable(ip, t)

RowsGrow(r) ==
    /\ \A ip : OfIp(ip)' \subseteq OfIp(ip) \cup {Len(rows) + 1}
    /\ \A ip : ip # r.ip => OfIp(ip)' \subseteq OfIp(ip)
    /\ \A t : OfTable(t)' \subseteq OfTable(t) \cup {Len(rows) + 1}
    /\ \A t : t # r.table => OfTable(t)' \subseteq OfTable(t)
    /\ \A ip, t : OfIpAtTable(ip, t)' \subseteq OfIpAtTable(ip, t) \cup {Len(rows) + 1}
    /\ \A ip, t : ip # r.ip \/ t # r.table =>
                     OfIpAtTable(ip, t)' \subseteq OfIpAtTable(ip, t)

LEMMA RowsSame == ASSUME rows' = rows PROVE RowsShrink
  BY DEF RowsShrink, OfIp, OfTable, OfIpAtTable, RowIds

LEMMA RowsLater ==
    ASSUME TypeOK, NEW i \in RowIds, Decide(i) \/ LeaveWindow(i)
    PROVE  RowsShrink
<1>1. RowIds' = RowIds
  BY RowIdsAre, LaterLife, LenProperties DEF RowIds
<1>2. \A j \in RowIds :
         /\ rows'[j].ip = rows[j].ip
         /\ rows'[j].table = rows[j].table
         /\ rows'[j].pending => rows[j].pending
         /\ rows'[j].recent => rows[j].recent
  BY LaterLife
<1>3. QED
  BY <1>1, <1>2 DEF RowsShrink, OfIp, OfTable, OfIpAtTable

LEMMA RowsInserted ==
    ASSUME TypeOK, NEW w \in Workers, Insert(w)
    PROVE  RowsShrink \/ RowsGrow(worker[w].req)
<1>1. CASE rows' = rows
  BY <1>1, RowsSame
<1>2. CASE rows' = Append(rows, Row(worker[w].req))
  <2> DEFINE n == Len(rows) + 1
             r == worker[w].req
  <2>1. rows \in Seq(RowType) /\ RowIds = 1..Len(rows) /\ Len(rows) \in Nat
    BY RowIdsAre DEF TypeOK
  <2>2. Row(r) \in RowType
    BY InsertRows
  <2>3. /\ rows' \in Seq(RowType) /\ Len(rows') = n
        /\ \A i \in 1..Len(rows) : rows'[i] = rows[i]
        /\ rows'[n] = Row(r)
    BY <1>2, <2>1, <2>2, AppendProperties
  <2>4. RowIds' = RowIds \cup {n} /\ \A i \in RowIds : rows'[i] = rows[i]
    BY <2>1, <2>3, LenProperties DEF RowIds
  <2>5. rows'[n].ip = r.ip /\ rows'[n].table = r.table
    BY <2>3 DEF Row
  <2> HIDE DEF n, r
  <2>6. RowsGrow(r)
    BY <2>4, <2>5 DEF RowsGrow, OfIp, OfTable, OfIpAtTable, n
  <2>7. QED
    BY <2>6 DEF r
<1>3. QED
  BY <1>1, <1>2, InsertRows

\* The two kinds of step.
LEMMA LimitCases ==
    ASSUME TypeOK, [Next]_intakeVars
    PROVE  /\ \/ worker' = worker /\ RowsShrink
              \/ \E w \in Workers : \E h : Moved(w, h)
           /\ spent \in Nat /\ spent' \in Nat /\ spent <= spent'
<1>1. \/ worker' = worker /\ RowsShrink
      \/ \E w \in Workers : \E h : Moved(w, h)
  <2>1. ASSUME NEW w \in Workers,
               \/ HandlerStep(w) \/ Finish(w)
               \/ \E r \in Requests : Receive(w, r)
        PROVE  \E h : Moved(w, h)
    BY <2>1, Moves
  <2>2. ASSUME NEW i \in RowIds, Decide(i) \/ LeaveWindow(i)
        PROVE  worker' = worker /\ RowsShrink
    BY <2>2, RowsLater DEF Decide, LeaveWindow
  <2>3. CASE UNCHANGED intakeVars
    BY <2>3, RowsSame DEF intakeVars
  <2>4. QED
    BY <2>1, <2>2, <2>3 DEF Next
<1>2. spent \in Nat
  BY ConstantsTyped DEF TypeOK
<1>3. spent' = spent \/ spent' = spent + 1
  BY DEF Next, HandlerStep, Lookup, CountIp, CountTable, CountIpAtTable, Limit, LoadProducts,
     Insert, Reselect, Finish, Receive, Decide, LeaveWindow, intakeVars, Works, Fails
<1>4. QED
  BY <1>1, <1>2, <1>3

LEMMA PastMoved ==
    ASSUME TypeOK, NEW w \in Workers, NEW h, worker' = [worker EXCEPT ![w] = h],
           NEW v \in Workers
    PROVE  worker'[v] = IF v = w THEN h ELSE worker[v]
  BY DEF TypeOK

\* The limit per address: what a handler's step does to the two sets.
LEMMA IpMoved ==
    ASSUME TypeOK, NEW ip \in Ips, NEW w \in Workers, NEW h, Moved(w, h)
    PROVE  LET C == OfIp(ip)
               D == OfIp(ip)'
               P == PastIp(ip)
               Q == PastIp(ip)'
           IN  \/ D \subseteq C /\ Q \subseteq P
               \/ D \subseteq C /\ Cardinality(C) < RateMax
               \/ D \subseteq C /\ Q \subseteq P \cup {w} /\ spent' = spent + 1
               \/ D \subseteq C \cup {Len(rows) + 1} /\ w \in P /\ Q \subseteq P \ {w}
<1> DEFINE C == OfIp(ip)
           D == OfIp(ip)'
           P == PastIp(ip)
           Q == PastIp(ip)'
<1>1. \A v \in Workers : worker'[v] = IF v = w THEN h ELSE worker[v]
  BY PastMoved DEF Moved
<1>2. \A v : v \in Q <=>
         /\ v \in Workers /\ worker'[v].pc \in {"table", "ipTable", "items", "insert"}
         /\ worker'[v].req.ip = ip
  BY DEF PastIp
<1>3. \A v : v \in P <=>
         /\ v \in Workers /\ worker[v].pc \in {"table", "ipTable", "items", "insert"}
         /\ worker[v].req.ip = ip
  BY DEF PastIp
<1>4. CASE rows' = rows
  <2>1. D \subseteq C
    BY <1>4, RowsSame DEF RowsShrink
  <2> HIDE DEF C, D, P, Q
  <2>2. CASE w \in P \/ w \notin Q
    BY <1>1, <1>2, <1>3, <2>1, <2>2 DEF C, D, P, Q
  <2>3. CASE w \notin P /\ w \in Q
    <3>1. Cardinality(C) < RateMax \/ spent' = spent + 1
      <4>1. /\ h.pc \in {"table", "ipTable", "items", "insert"} /\ h.req.ip = ip
            /\ Advanced(w, h)
        BY <1>1, <1>2, <2>3, ConstantsTyped DEF Moved, Outside
      <4>2. QED
        BY <1>3, <2>3, <4>1, ConstantsTyped DEF Advanced, C
    <3>2. Q \subseteq P \cup {w}
      BY <1>1, <1>2, <1>3
    <3>3. QED
      BY <2>1, <3>1, <3>2 DEF C, D, P, Q
  <2>4. QED
    BY <2>2, <2>3
<1>5. CASE rows' # rows
  <2>1. Insert(w) /\ h.pc = "replied" /\ worker[w].pc = "insert"
    BY <1>5 DEF Moved, Insert, At
  <2>2. Q \subseteq P \ {w}
    BY <1>1, <1>2, <1>3, <2>1
  <2>3. RowsShrink \/ RowsGrow(worker[w].req)
    BY <2>1, RowsInserted
  <2>4. CASE w \in P
    <3>1. D \subseteq C \cup {Len(rows) + 1}
      BY <2>3 DEF RowsShrink, RowsGrow
    <3>2. QED
      BY <2>2, <2>4, <3>1
  <2>5. CASE w \notin P
    <3>1. ~(worker[w].req.ip = ip)
      BY <1>3, <2>1, <2>5
    <3>2. D \subseteq C
      BY <2>3, <3>1 DEF RowsShrink, RowsGrow
    <3>3. QED
      BY <2>2, <3>2
  <2>6. QED
    BY <2>4, <2>5
<1>6. QED
  BY <1>4, <1>5

LEMMA IpStep ==
    ASSUME TypeOK, [Next]_intakeVars, NEW ip \in Ips,
           Within(OfIp(ip), PastIp(ip), RateMax)
    PROVE  Within(OfIp(ip), PastIp(ip), RateMax)'
<1> DEFINE C == OfIp(ip)
           D == OfIp(ip)'
           P == PastIp(ip)
           Q == PastIp(ip)'
           n == Len(rows) + 1
<1>1. /\ IsFiniteSet(C) /\ RateMax \in Nat
      /\ P \in SUBSET Workers /\ Q \in SUBSET Workers
      /\ spent \in Nat /\ spent' \in Nat /\ spent <= spent'
      /\ Cardinality(C) + Cardinality(P) <= RateMax + (Cardinality(Workers) - 1 + spent)
  BY CountedFinite, ConstantsTyped, LimitCases DEF OfIp, PastIp, Within, Slack
<1>2. ASSUME worker' = worker, RowsShrink
      PROVE  D \subseteq C /\ Q \subseteq P
  BY <1>2 DEF RowsShrink, PastIp
<1>3. ASSUME NEW w \in Workers, NEW h, Moved(w, h)
      PROVE  \/ D \subseteq C /\ Q \subseteq P
             \/ D \subseteq C /\ Cardinality(C) < RateMax
             \/ D \subseteq C /\ Q \subseteq P \cup {w} /\ spent' = spent + 1
             \/ D \subseteq C \cup {n} /\ w \in P /\ Q \subseteq P \ {w}
  BY <1>3, IpMoved
<1> HIDE DEF C, D, P, Q, n
<1>4. Cardinality(D) + Cardinality(Q) <= RateMax + (Cardinality(Workers) - 1 + spent')
  BY <1>1, <1>2, <1>3, Counting, LimitCases
<1>5. QED
  BY <1>4 DEF Within, Slack, D, Q

\* The same for the limit per table.
LEMMA TableMoved ==
    ASSUME TypeOK, NEW t \in Tables, NEW w \in Workers, NEW h, Moved(w, h)
    PROVE  LET C == OfTable(t)
               D == OfTable(t)'
               P == PastTable(t)
               Q == PastTable(t)'
           IN  \/ D \subseteq C /\ Q \subseteq P
               \/ D \subseteq C /\ Cardinality(C) < TableMax
               \/ D \subseteq C /\ Q \subseteq P \cup {w} /\ spent' = spent + 1
               \/ D \subseteq C \cup {Len(rows) + 1} /\ w \in P /\ Q \subseteq P \ {w}
<1> DEFINE C == OfTable(t)
           D == OfTable(t)'
           P == PastTable(t)
           Q == PastTable(t)'
<1>1. \A v \in Workers : worker'[v] = IF v = w THEN h ELSE worker[v]
  BY PastMoved DEF Moved
<1>2. \A v : v \in Q <=>
         /\ v \in Workers /\ worker'[v].pc \in {"ipTable", "items", "insert"}
         /\ worker'[v].req.table = t
  BY DEF PastTable
<1>3. \A v : v \in P <=>
         /\ v \in Workers /\ worker[v].pc \in {"ipTable", "items", "insert"}
         /\ worker[v].req.table = t
  BY DEF PastTable
<1>4. CASE rows' = rows
  <2>1. D \subseteq C
    BY <1>4, RowsSame DEF RowsShrink
  <2> HIDE DEF C, D, P, Q
  <2>2. CASE w \in P \/ w \notin Q
    BY <1>1, <1>2, <1>3, <2>1, <2>2 DEF C, D, P, Q
  <2>3. CASE w \notin P /\ w \in Q
    <3>1. Cardinality(C) < TableMax \/ spent' = spent + 1
      <4>1. /\ h.pc \in {"ipTable", "items", "insert"} /\ h.req.table = t
            /\ Advanced(w, h)
        BY <1>1, <1>2, <2>3, ConstantsTyped DEF Moved, Outside
      <4>2. QED
        BY <1>3, <2>3, <4>1, ConstantsTyped DEF Advanced, C
    <3>2. Q \subseteq P \cup {w}
      BY <1>1, <1>2, <1>3
    <3>3. QED
      BY <2>1, <3>1, <3>2 DEF C, D, P, Q
  <2>4. QED
    BY <2>2, <2>3
<1>5. CASE rows' # rows
  <2>1. Insert(w) /\ h.pc = "replied" /\ worker[w].pc = "insert"
    BY <1>5 DEF Moved, Insert, At
  <2>2. Q \subseteq P \ {w}
    BY <1>1, <1>2, <1>3, <2>1
  <2>3. RowsShrink \/ RowsGrow(worker[w].req)
    BY <2>1, RowsInserted
  <2>4. CASE w \in P
    <3>1. D \subseteq C \cup {Len(rows) + 1}
      BY <2>3 DEF RowsShrink, RowsGrow
    <3>2. QED
      BY <2>2, <2>4, <3>1
  <2>5. CASE w \notin P
    <3>1. ~(worker[w].req.table = t)
      BY <1>3, <2>1, <2>5
    <3>2. D \subseteq C
      BY <2>3, <3>1 DEF RowsShrink, RowsGrow
    <3>3. QED
      BY <2>2, <3>2
  <2>6. QED
    BY <2>4, <2>5
<1>6. QED
  BY <1>4, <1>5

LEMMA TableStep ==
    ASSUME TypeOK, [Next]_intakeVars, NEW t \in Tables,
           Within(OfTable(t), PastTable(t), TableMax)
    PROVE  Within(OfTable(t), PastTable(t), TableMax)'
<1> DEFINE C == OfTable(t)
           D == OfTable(t)'
           P == PastTable(t)
           Q == PastTable(t)'
           n == Len(rows) + 1
<1>1. /\ IsFiniteSet(C) /\ TableMax \in Nat
      /\ P \in SUBSET Workers /\ Q \in SUBSET Workers
      /\ spent \in Nat /\ spent' \in Nat /\ spent <= spent'
      /\ Cardinality(C) + Cardinality(P) <= TableMax + (Cardinality(Workers) - 1 + spent)
  BY CountedFinite, ConstantsTyped, LimitCases DEF OfTable, PastTable, Within, Slack
<1>2. ASSUME worker' = worker, RowsShrink
      PROVE  D \subseteq C /\ Q \subseteq P
  BY <1>2 DEF RowsShrink, PastTable
<1>3. ASSUME NEW w \in Workers, NEW h, Moved(w, h)
      PROVE  \/ D \subseteq C /\ Q \subseteq P
             \/ D \subseteq C /\ Cardinality(C) < TableMax
             \/ D \subseteq C /\ Q \subseteq P \cup {w} /\ spent' = spent + 1
             \/ D \subseteq C \cup {n} /\ w \in P /\ Q \subseteq P \ {w}
  BY <1>3, TableMoved
<1> HIDE DEF C, D, P, Q, n
<1>4. Cardinality(D) + Cardinality(Q) <= TableMax + (Cardinality(Workers) - 1 + spent')
  BY <1>1, <1>2, <1>3, Counting, LimitCases
<1>5. QED
  BY <1>4 DEF Within, Slack, D, Q

\* The same for the limit per address at a table.
LEMMA IpAtTableMoved ==
    ASSUME TypeOK, NEW ip \in Ips, NEW t \in Tables, NEW w \in Workers, NEW h, Moved(w, h)
    PROVE  LET C == OfIpAtTable(ip, t)
               D == OfIpAtTable(ip, t)'
               P == PastIpAtTable(ip, t)
               Q == PastIpAtTable(ip, t)'
           IN  \/ D \subseteq C /\ Q \subseteq P
               \/ D \subseteq C /\ Cardinality(C) < IpTableMax
               \/ D \subseteq C /\ Q \subseteq P \cup {w} /\ spent' = spent + 1
               \/ D \subseteq C \cup {Len(rows) + 1} /\ w \in P /\ Q \subseteq P \ {w}
<1> DEFINE C == OfIpAtTable(ip, t)
           D == OfIpAtTable(ip, t)'
           P == PastIpAtTable(ip, t)
           Q == PastIpAtTable(ip, t)'
<1>1. \A v \in Workers : worker'[v] = IF v = w THEN h ELSE worker[v]
  BY PastMoved DEF Moved
<1>2. \A v : v \in Q <=>
         /\ v \in Workers /\ worker'[v].pc \in {"items", "insert"}
         /\ worker'[v].req.ip = ip /\ worker'[v].req.table = t
  BY DEF PastIpAtTable
<1>3. \A v : v \in P <=>
         /\ v \in Workers /\ worker[v].pc \in {"items", "insert"}
         /\ worker[v].req.ip = ip /\ worker[v].req.table = t
  BY DEF PastIpAtTable
<1>4. CASE rows' = rows
  <2>1. D \subseteq C
    BY <1>4, RowsSame DEF RowsShrink
  <2> HIDE DEF C, D, P, Q
  <2>2. CASE w \in P \/ w \notin Q
    BY <1>1, <1>2, <1>3, <2>1, <2>2 DEF C, D, P, Q
  <2>3. CASE w \notin P /\ w \in Q
    <3>1. Cardinality(C) < IpTableMax \/ spent' = spent + 1
      <4>1. /\ h.pc \in {"items", "insert"} /\ h.req.ip = ip /\ h.req.table = t
            /\ Advanced(w, h)
        BY <1>1, <1>2, <2>3, ConstantsTyped DEF Moved, Outside
      <4>2. QED
        BY <1>3, <2>3, <4>1, ConstantsTyped DEF Advanced, C
    <3>2. Q \subseteq P \cup {w}
      BY <1>1, <1>2, <1>3
    <3>3. QED
      BY <2>1, <3>1, <3>2 DEF C, D, P, Q
  <2>4. QED
    BY <2>2, <2>3
<1>5. CASE rows' # rows
  <2>1. Insert(w) /\ h.pc = "replied" /\ worker[w].pc = "insert"
    BY <1>5 DEF Moved, Insert, At
  <2>2. Q \subseteq P \ {w}
    BY <1>1, <1>2, <1>3, <2>1
  <2>3. RowsShrink \/ RowsGrow(worker[w].req)
    BY <2>1, RowsInserted
  <2>4. CASE w \in P
    <3>1. D \subseteq C \cup {Len(rows) + 1}
      BY <2>3 DEF RowsShrink, RowsGrow
    <3>2. QED
      BY <2>2, <2>4, <3>1
  <2>5. CASE w \notin P
    <3>1. ~(worker[w].req.ip = ip /\ worker[w].req.table = t)
      BY <1>3, <2>1, <2>5
    <3>2. D \subseteq C
      BY <2>3, <3>1 DEF RowsShrink, RowsGrow
    <3>3. QED
      BY <2>2, <3>2
  <2>6. QED
    BY <2>4, <2>5
<1>6. QED
  BY <1>4, <1>5

LEMMA IpAtTableStep ==
    ASSUME TypeOK, [Next]_intakeVars, NEW ip \in Ips, NEW t \in Tables,
           Within(OfIpAtTable(ip, t), PastIpAtTable(ip, t), IpTableMax)
    PROVE  Within(OfIpAtTable(ip, t), PastIpAtTable(ip, t), IpTableMax)'
<1> DEFINE C == OfIpAtTable(ip, t)
           D == OfIpAtTable(ip, t)'
           P == PastIpAtTable(ip, t)
           Q == PastIpAtTable(ip, t)'
           n == Len(rows) + 1
<1>1. /\ IsFiniteSet(C) /\ IpTableMax \in Nat
      /\ P \in SUBSET Workers /\ Q \in SUBSET Workers
      /\ spent \in Nat /\ spent' \in Nat /\ spent <= spent'
      /\ Cardinality(C) + Cardinality(P) <= IpTableMax + (Cardinality(Workers) - 1 + spent)
  BY CountedFinite, ConstantsTyped, LimitCases
     DEF OfIpAtTable, OfTable, PastIpAtTable, Within, Slack
<1>2. ASSUME worker' = worker, RowsShrink
      PROVE  D \subseteq C /\ Q \subseteq P
  BY <1>2 DEF RowsShrink, PastIpAtTable
<1>3. ASSUME NEW w \in Workers, NEW h, Moved(w, h)
      PROVE  \/ D \subseteq C /\ Q \subseteq P
             \/ D \subseteq C /\ Cardinality(C) < IpTableMax
             \/ D \subseteq C /\ Q \subseteq P \cup {w} /\ spent' = spent + 1
             \/ D \subseteq C \cup {n} /\ w \in P /\ Q \subseteq P \ {w}
  BY <1>3, IpAtTableMoved
<1> HIDE DEF C, D, P, Q, n
<1>4. Cardinality(D) + Cardinality(Q) <= IpTableMax + (Cardinality(Workers) - 1 + spent')
  BY <1>1, <1>2, <1>3, Counting, LimitCases
<1>5. QED
  BY <1>4 DEF Within, Slack, D, Q

LEMMA LimitInit == ASSUME Init PROVE LimitInv
<1>1. rows \in Seq(RowType) /\ Len(rows) = 0
  BY EmptySeq DEF Init
<1>2. RowIds = {}
  BY <1>1, LenProperties DEF RowIds
<1>3. /\ \A ip : OfIp(ip) = {} /\ PastIp(ip) = {}
      /\ \A t : OfTable(t) = {} /\ PastTable(t) = {}
      /\ \A ip, t : OfIpAtTable(ip, t) = {} /\ PastIpAtTable(ip, t) = {}
  BY <1>2 DEF OfIp, OfTable, OfIpAtTable, PastIp, PastTable, PastIpAtTable, Init, IdleWorker
<1>4. spent = 0 /\ Cardinality({}) = 0 /\ Cardinality(Workers) \in Nat
  BY FS_EmptySet, FS_CardinalityType, ConstantsTyped DEF Init
<1>5. ASSUME NEW max \in Nat \ {0} PROVE Within({}, {}, max)
  BY <1>4 DEF Within, Slack
<1>6. QED
  BY <1>3, <1>5, ConstantsTyped DEF LimitInv

\* LimitInv is an invariant.
THEOREM LimitInvariant == Spec => []LimitInv
<1>1. Init => TypeOK /\ LimitInv
  BY TypeInit, LimitInit
<1>2. TypeOK /\ LimitInv /\ [Next]_intakeVars => (TypeOK /\ LimitInv)'
  <2>1. ASSUME TypeOK, LimitInv, [Next]_intakeVars PROVE LimitInv'
    <3>1. \A ip \in Ips : Within(OfIp(ip), PastIp(ip), RateMax)'
      BY <2>1, IpStep DEF LimitInv
    <3>2. \A t \in Tables : Within(OfTable(t), PastTable(t), TableMax)'
      BY <2>1, TableStep DEF LimitInv
    <3>3. \A ip \in Ips, t \in Tables :
             Within(OfIpAtTable(ip, t), PastIpAtTable(ip, t), IpTableMax)'
      BY <2>1, IpAtTableStep DEF LimitInv
    <3>4. QED
      BY <3>1, <3>2, <3>3 DEF LimitInv, Tables
  <2>2. QED
    BY <2>1, TypeStep
<1>3. QED
  BY <1>1, <1>2, PTL DEF Spec

\* The three limits, for every number of concurrent handlers and of failed counts:
\* each is exceeded by at most the handlers beyond one, and the failures.
THEOREM LimitsBounded == Spec => []LimitsHold
<1>1. ASSUME TypeOK, LimitInv PROVE LimitsHold
  <2>1. ASSUME NEW C, IsFiniteSet(C), NEW P \in SUBSET Workers, NEW max \in Nat,
               Within(C, P, max)
        PROVE  Cardinality(C) <= max + Slack
    <3>1. Cardinality(P) \in Nat /\ Cardinality(C) \in Nat /\ Cardinality(Workers) \in Nat
      BY <2>1, CardLeq, FS_CardinalityType, ConstantsTyped
    <3>2. spent \in Nat
      BY <1>1, ConstantsTyped DEF TypeOK
    <3>3. QED
      BY <2>1, <3>1, <3>2 DEF Within, Slack
  <2>2. ASSUME NEW ip \in Ips PROVE Cardinality(OfIp(ip)) <= RateMax + Slack
    <3>1. /\ IsFiniteSet(OfIp(ip)) /\ PastIp(ip) \in SUBSET Workers
          /\ Within(OfIp(ip), PastIp(ip), RateMax)
      BY <1>1, CountedFinite DEF LimitInv, OfIp, PastIp
    <3>2. QED
      BY <2>1, <3>1, ConstantsTyped
  <2>3. ASSUME NEW t \in Tables PROVE Cardinality(OfTable(t)) <= TableMax + Slack
    <3>1. /\ IsFiniteSet(OfTable(t)) /\ PastTable(t) \in SUBSET Workers
          /\ Within(OfTable(t), PastTable(t), TableMax)
      BY <1>1, CountedFinite DEF LimitInv, OfTable, PastTable
    <3>2. QED
      BY <2>1, <3>1, ConstantsTyped
  <2>4. ASSUME NEW ip \in Ips, NEW t \in Tables
        PROVE  Cardinality(OfIpAtTable(ip, t)) <= IpTableMax + Slack
    <3>1. /\ IsFiniteSet(OfIpAtTable(ip, t)) /\ PastIpAtTable(ip, t) \in SUBSET Workers
          /\ Within(OfIpAtTable(ip, t), PastIpAtTable(ip, t), IpTableMax)
      BY <1>1, CountedFinite DEF LimitInv, OfIpAtTable, OfTable, PastIpAtTable
    <3>2. QED
      BY <2>1, <3>1, ConstantsTyped
  <2>5. QED
    BY <2>2, <2>3, <2>4 DEF LimitsHold
<1>2. QED
  BY <1>1, IntakeTypeCorrect, LimitInvariant, PTL

\* Handlers that wait for one another and queries that succeed: the three limits of
\* config.js hold to the letter, so nothing but a race or a failed count exceeds them.
THEOREM LimitsExactInSequence ==
    ASSUME Cardinality(Workers) = 1, MaxFailures = 0
    PROVE  Spec => [](/\ \A ip \in Ips : Cardinality(OfIp(ip)) <= RateMax
                      /\ \A t \in Tables : Cardinality(OfTable(t)) <= TableMax
                      /\ \A ip \in Ips, t \in Tables :
                            Cardinality(OfIpAtTable(ip, t)) <= IpTableMax)
<1> DEFINE Exact == /\ \A ip \in Ips : Cardinality(OfIp(ip)) <= RateMax
                    /\ \A t \in Tables : Cardinality(OfTable(t)) <= TableMax
                    /\ \A ip \in Ips, t \in Tables :
                          Cardinality(OfIpAtTable(ip, t)) <= IpTableMax
<1>1. TypeOK /\ LimitsHold => Exact
  <2>1. SUFFICES ASSUME TypeOK, LimitsHold PROVE Exact
    OBVIOUS
  <2>2. Slack = 0
    BY <2>1 DEF TypeOK, Slack
  <2>3. \A max \in Nat : max + Slack = max
    BY <2>2
  <2>4. RateMax + Slack = RateMax /\ TableMax + Slack = TableMax /\ IpTableMax + Slack = IpTableMax
    BY <2>3, ConstantsTyped
  <2>5. QED
    BY <2>1, <2>4 DEF LimitsHold
<1>2. QED
  BY <1>1, IntakeTypeCorrect, LimitsBounded, PTL
=============================================================================
