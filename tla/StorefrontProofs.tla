-------------------------- MODULE StorefrontProofs --------------------------
(***************************************************************************)
(* Proofs about the page: Storefront and the receipts on top of it, for    *)
(* any carts, tables and keys, any number of handlers behind the network,  *)
(* of tries, changes and faults; and Dialogs, for every bound on the       *)
(* history.                                                                *)
(***************************************************************************)
EXTENDS Receipt, Dialogs, OrderIntakeProofs

-----------------------------------------------------------------------------
(* The inductive invariant.                                                *)

\* Key k stands for an order of lines l at table t, which was sent under it.
Stands(k, t, l) == k \in Keys /\ \E u \in 0..MaxWishes : sent[k] = {<<u, t, l>>}

\* No key was sent with two orders.
SentOnce == \A k \in Keys : sent[k] = {} \/ \E x \in sent[k] : sent[k] = {x}

\* The key that the page holds was sent with the cart as it still is; only the table
\* may have been deselected since, and then nothing can be sent.
PhoneKey ==
    phone.key # NoKey =>
        \E t \in Tables : phone.table \in {0, t} /\ sent[phone.key] = {<<wish, t, phone.cart>>}

\* So do the keys under way, those of the handlers and those of the rows.
NetKeys == \A m \in net : Stands(m[2].key, m[2].table, m[2].lines)

WorkerKeys ==
    \A w \in Workers :
        /\ worker[w].pc # "idle" => worker[w].req.key \in Keys
        /\ worker[w].pc \notin {"idle", "replied"} =>
              Stands(worker[w].req.key, worker[w].req.table, worker[w].req.lines)

RowKeys == \A i \in RowIds : Stands(rows[i].key, rows[i].table, rows[i].lines)

CartInv == SentOnce /\ PhoneKey /\ NetKeys /\ WorkerKeys /\ RowKeys

WishSent == \E k \in Keys : \E m \in sent[k] : m[1] = wish

WishesPast == \A k \in Keys : \A m \in sent[k] : m[1] <= wish

\* Without a key the order as it is has not been sent, unless the page itself dropped
\* the key, or it was recorded and the cart is empty, in sessionStorage too.
NothingToSend ==
    phone.key = NoKey /\ WishSent /\ wish \notin renewed => phone.cart = {} /\ phone.saved.cart = {}

\* An order was sent under two keys only if the page dropped the first.
KeysApart ==
    \A k, l \in Keys : \A m \in sent[k], n \in sent[l] :
        k # l /\ m[1] = n[1] => m[1] \in renewed

WishInv == WishesPast /\ NothingToSend /\ KeysApart

\* Typing of the whole, and what OrderIntakeProofs knows of keys.
StoreBase == StoreTypeOK /\ TypeOK /\ KeyInv

StoreInv == StoreBase /\ CartInv /\ WishInv

-----------------------------------------------------------------------------
(* The intake, seen from the page.                                         *)

\* A step of a handler: it keeps its key, and its table and lines until it answers.
StepsTo(w, h) ==
    /\ worker' = [worker EXCEPT ![w] = h]
    /\ h.pc # "idle" /\ h.req.key = worker[w].req.key
    /\ h.pc # "replied" => h.req = worker[w].req

LEMMA GotoSteps ==
    ASSUME TypeOK, NEW w \in Workers, NEW pc \in Late, Goto(w, pc)
    PROVE  \E h : StepsTo(w, h)
<1> DEFINE h == [worker[w] EXCEPT !.pc = pc]
<1>1. worker' = [worker EXCEPT ![w] = h]
  BY DEF Goto, TypeOK
<1>2. h.req = worker[w].req /\ h.pc = pc
  BY DEF TypeOK, WorkerType
<1> HIDE DEF h
<1> QED BY <1>1, <1>2 DEF StepsTo, Late

LEMMA ReplySteps ==
    ASSUME TypeOK, NEW w \in Workers, NEW kind \in Answers, NEW i \in Nat,
           Reply(w, kind) \/ ReplyRow(w, kind, i)
    PROVE  \E h : StepsTo(w, h)
<1>1. CASE Reply(w, kind)
  <2> DEFINE h == Answered(worker[w], kind)
  <2>1. worker' = [worker EXCEPT ![w] = h]
    BY <1>1 DEF Reply, TypeOK
  <2>2. h.pc = "replied" /\ h.req.key = worker[w].req.key
    BY AnsweredSound DEF TypeOK
  <2> HIDE DEF h
  <2> QED BY <2>1, <2>2 DEF StepsTo
<1>2. CASE ReplyRow(w, kind, i)
  <2> DEFINE h == AnsweredRow(worker[w], kind, i)
  <2>1. worker' = [worker EXCEPT ![w] = h]
    BY <1>2 DEF ReplyRow, TypeOK
  <2>2. h.pc = "replied" /\ h.req.key = worker[w].req.key
    BY ReplyRowSound
  <2> HIDE DEF h
  <2> QED BY <2>1, <2>2 DEF StepsTo
<1> QED BY <1>1, <1>2

\* Every step of a handler but the first and the last.
LEMMA HandlerSteps ==
    ASSUME TypeOK, NEW w \in Workers, HandlerStep(w)
    PROVE  /\ worker[w].pc \notin {"idle", "replied"}
           /\ \E h : StepsTo(w, h)
           /\ \/ rows' = rows
              \/ rows' = Append(rows, Row(worker[w].req)) /\ Row(worker[w].req) \in RowType
<1>1. CASE Lookup(w)
  <2>1. rows' = rows /\ worker[w].pc = "lookup"
    BY <1>1 DEF Lookup, At
  <2>2. CASE \E i \in WithKey(worker[w].req.key) : ReplyRow(w, "duplicate", i)
    BY <2>1, <2>2, ReplySteps, RowIdsAre DEF Answers
  <2>3. ASSUME NEW failed \in BOOLEAN, NEW cafe \in Clock,
               worker' = [worker EXCEPT ![w] =
                            CheckHours([worker[w] EXCEPT !.blind = failed], cafe)]
        PROVE  \E h : StepsTo(w, h)
    <3> DEFINE b == [worker[w] EXCEPT !.blind = failed]
               h == CheckHours(b, cafe)
    <3>1. b \in WorkerType /\ b.req.table \in Tables /\ b.req = worker[w].req
      BY <2>1 DEF TypeOK, WorkerType
    <3>2. worker' = [worker EXCEPT ![w] = h]
      BY <2>3
    <3> HIDE DEF b
    <3>3. /\ h.req.key = b.req.key
          /\ \/ h.pc = "replied"
             \/ h.pc = (IF b.req.ip = NoIp THEN "table" ELSE "rate") /\ h.req = b.req
      BY <3>1, CheckHoursSound
    <3> HIDE DEF h
    <3> QED BY <3>1, <3>2, <3>3 DEF StepsTo
  <2> QED BY <1>1, <2>1, <2>2, <2>3 DEF Lookup
<1>2. CASE CountIp(w)
  <2>1. /\ worker[w].pc = "rate" /\ rows' = rows
        /\ Reply(w, "limited") \/ Goto(w, "table")
    BY <1>2 DEF CountIp, Limit, At
  <2> QED BY <2>1, ReplySteps, GotoSteps DEF Answers, Late
<1>3. CASE CountTable(w)
  <2>1. /\ worker[w].pc = "table" /\ rows' = rows
        /\ Reply(w, "limited") \/ Goto(w, "ipTable") \/ Goto(w, "items")
    BY <1>3 DEF CountTable, Limit, At
  <2> QED BY <2>1, ReplySteps, GotoSteps DEF Answers, Late
<1>4. CASE CountIpAtTable(w)
  <2>1. /\ worker[w].pc = "ipTable" /\ rows' = rows
        /\ Reply(w, "limited") \/ Goto(w, "items")
    BY <1>4 DEF CountIpAtTable, Limit, At
  <2> QED BY <2>1, ReplySteps, GotoSteps DEF Answers, Late
<1>5. CASE LoadProducts(w)
  <2>1. /\ worker[w].pc = "items" /\ rows' = rows
        /\ \/ Goto(w, "insert")
           \/ \E kind \in {"refused", "unavailable", "error"} : Reply(w, kind)
    BY <1>5 DEF LoadProducts, At
  <2> QED BY <2>1, ReplySteps, GotoSteps DEF Answers, Late
<1>6. CASE Insert(w)
  <2>1. /\ worker[w].pc = "insert"
        /\ \/ ReplyRow(w, "created", Len(rows) + 1)
           \/ Goto(w, "reselect")
           \/ Reply(w, "error")
    BY <1>6 DEF Insert, At
  <2>2. Len(rows) + 1 \in Nat
    BY RowIdsAre
  <2>3. \/ rows' = rows
        \/ rows' = Append(rows, Row(worker[w].req)) /\ Row(worker[w].req) \in RowType
    BY <1>6, InsertRows
  <2> QED BY <2>1, <2>2, <2>3, ReplySteps, GotoSteps DEF Answers, Late
<1>7. CASE Reselect(w)
  <2>1. /\ worker[w].pc = "reselect" /\ rows' = rows
        /\ \/ \E i \in WithKey(worker[w].req.key) : ReplyRow(w, "duplicate", i)
           \/ Reply(w, "error")
    BY <1>7 DEF Reselect, At
  <2> QED BY <2>1, ReplySteps, RowIdsAre DEF Answers
<1> QED BY <1>1, <1>2, <1>3, <1>4, <1>5, <1>6, <1>7 DEF HandlerStep

\* The first checks keep the key, and of an accepted request table and lines.
LEMMA FirstChecksKeep ==
    ASSUME NEW r \in Requests, NEW h \in Begun(r)
    PROVE  /\ h.pc # "idle" /\ h.req.key = r.key
           /\ h.pc # "replied" => h.req.table = r.table /\ h.req.lines = r.lines
<1>1. PICK site \in Sites, cafe \in Clock : h = FirstChecks(Begin(r), r, site, cafe)
  BY DEF Begun
<1> DEFINE b == Begin(r)
<1>2. b \in WorkerType /\ b.req = Asked(r)
  BY BeginSound DEF Begin, IdleWorker
<1>3. b.req.key = r.key /\ b.req.table = r.table /\ b.req.lines = r.lines
  BY <1>2 DEF Asked
<1> HIDE DEF b
<1>4. h = FirstChecks(b, r, site, cafe)
  BY <1>1 DEF b
<1>5. ASSUME NEW kind \in Answers, h = Answered(b, kind)
      PROVE h.pc = "replied" /\ h.req.key = r.key
  BY <1>2, <1>3, <1>5, AnsweredSound
<1>6. CASE r.honeypot
  BY <1>4, <1>5, <1>6 DEF FirstChecks, Answers
<1>7. CASE ~r.honeypot /\ ~SeatAccepted(r, site)
  BY <1>4, <1>5, <1>7 DEF FirstChecks, Answers
<1>8. CASE ~r.honeypot /\ SeatAccepted(r, site)
  <2>1. CASE r.key = NoKey
    <3>1. h = CheckHours(b, cafe)
      BY <1>4, <1>8, <2>1 DEF FirstChecks
    <3>2. CASE cafe = "closed"
      BY <1>5, <3>1, <3>2 DEF CheckHours, Answers
    <3>3. CASE cafe # "closed"
      <4>1. h = [b EXCEPT !.pc = IF b.req.ip = NoIp THEN "table" ELSE "rate"]
        BY <3>1, <3>3 DEF CheckHours
      <4> QED BY <1>2, <1>3, <4>1 DEF WorkerType
    <3> QED BY <3>2, <3>3
  <2>2. CASE r.key # NoKey
    <3>1. h = [b EXCEPT !.pc = "lookup"]
      BY <1>4, <1>8, <2>2 DEF FirstChecks
    <3> QED BY <1>2, <1>3, <3>1 DEF WorkerType
  <2> QED BY <2>1, <2>2
<1> QED BY <1>6, <1>7, <1>8

\* Rows stay, with key, table and lines, and a decision is not taken back.
RowsStay ==
    /\ RowIds \subseteq RowIds'
    /\ \A i \in RowIds :
          /\ rows'[i].key = rows[i].key /\ rows'[i].table = rows[i].table
          /\ rows'[i].lines = rows[i].lines
          /\ rows'[i].pending => rows[i].pending

\* Every new row is a handler's request.
RowsOfHandlers ==
    \A i \in RowIds' \ RowIds : \E w \in Workers :
        /\ worker[w].pc \notin {"idle", "replied"}
        /\ rows'[i] = Row(worker[w].req)

\* The table of the orders only grows, and by what handlers hold.
LEMMA RowsOnlyGrow ==
    ASSUME TypeOK, [Next]_intakeVars
    PROVE  RowsStay /\ RowsOfHandlers
<1>1. CASE rows' = rows
  BY <1>1 DEF RowsStay, RowsOfHandlers, RowIds
<1>2. ASSUME NEW w \in Workers, HandlerStep(w) PROVE RowsStay /\ RowsOfHandlers
  <2>1. CASE rows' = Append(rows, Row(worker[w].req)) /\ Row(worker[w].req) \in RowType
    <3> DEFINE n == Len(rows) + 1
    <3>1. rows \in Seq(RowType) /\ RowIds = 1..Len(rows) /\ Len(rows) \in Nat
      BY RowIdsAre DEF TypeOK
    <3>2. /\ rows' \in Seq(RowType) /\ Len(rows') = n
          /\ \A i \in 1..Len(rows) : rows'[i] = rows[i]
          /\ rows'[n] = Row(worker[w].req)
      BY <2>1, <3>1, AppendProperties
    <3>3. RowIds' = RowIds \cup {n} /\ \A i \in RowIds : rows'[i] = rows[i]
      BY <3>1, <3>2, LenProperties DEF RowIds
    <3>4. worker[w].pc \notin {"idle", "replied"}
      BY <1>2, HandlerSteps
    <3> HIDE DEF n
    <3> QED BY <3>2, <3>3, <3>4 DEF RowsStay, RowsOfHandlers
  <2> QED BY <1>1, <1>2, <2>1, HandlerSteps
<1>3. ASSUME NEW i \in RowIds, Decide(i) \/ LeaveWindow(i) PROVE RowsStay /\ RowsOfHandlers
  <2>1. RowIds' = RowIds
    BY <1>3, RowIdsAre, LaterLife, LenProperties DEF RowIds
  <2> QED BY <1>3, <2>1, LaterLife DEF RowsStay, RowsOfHandlers
<1>4. ASSUME NEW w \in Workers, Finish(w) PROVE rows' = rows
  BY <1>4 DEF Finish
<1>5. ASSUME NEW w \in Workers, NEW r \in Requests, Receive(w, r) PROVE rows' = rows
  BY <1>5 DEF Receive
<1> QED BY <1>1, <1>2, <1>3, <1>4, <1>5 DEF Next, intakeVars

-----------------------------------------------------------------------------
(* The page.                                                               *)

PhoneType ==
    [cart : SUBSET Products, table : 0..MaxTable, signed : BOOLEAN,
     key : Keys \cup {NoKey}, busyWith : 0..MaxTries, saved : SavedType]

LEMMA StoreConstants ==
    /\ PhoneIp \in Ips \cup {NoIp} /\ MaxWishes \in Nat /\ MaxTries \in Nat
    /\ MaxTable \in Nat \ {0} /\ NoKey \notin Keys
  BY StorefrontAssumption, ConstantsTyped

\* What saveCart leaves: no key, and a copy of the cart and of the table.
LEMMA SaveCartTyped ==
    ASSUME NEW p \in PhoneType
    PROVE  LET q == SaveCart(p) IN
           /\ q \in PhoneType /\ q.key = NoKey
           /\ q.cart = p.cart /\ q.table = p.table /\ q.saved.cart = p.cart
  BY DEF SaveCart, PhoneType, SavedType

\* What a load makes of sessionStorage: no key, and nothing that was not stored.
LEMMA RestoredTyped ==
    ASSUME StoreTypeOK, NEW kept, NEW rewrite \in BOOLEAN
    PROVE  LET q == Restored(kept, rewrite) IN
           /\ q \in PhoneType /\ q.key = NoKey
           /\ q.cart \subseteq phone.saved.cart /\ q.saved.cart \subseteq phone.saved.cart
<1> DEFINE p == [EmptyPhone EXCEPT !.cart = phone.saved.cart \cap kept,
                                   !.table = phone.saved.table,
                                   !.signed = phone.saved.signed,
                                   !.saved = phone.saved]
<1>1. phone.saved \in SavedType
  BY DEF StoreTypeOK
<1>2. /\ phone.saved.cart \cap kept \in SUBSET Products
      /\ phone.saved.table \in 0..MaxTable /\ phone.saved.signed \in BOOLEAN
      /\ NoTry \in 0..MaxTries
  BY <1>1, StoreConstants DEF SavedType, NoTry
<1> DEFINE e == EmptyPhone
<1>3. e \in PhoneType /\ e.key = NoKey
  BY <1>2, StoreConstants DEF PhoneType, SavedType, EmptyPhone
<1> HIDE DEF e
<1>4. p \in PhoneType /\ p.key = NoKey /\ p.saved = phone.saved
      /\ p.cart = phone.saved.cart \cap kept
  <2>1. p = [e EXCEPT !.cart = phone.saved.cart \cap kept,
                      !.table = phone.saved.table,
                      !.signed = phone.saved.signed,
                      !.saved = phone.saved]
    BY DEF e
  <2> HIDE DEF p
  <2> QED BY <1>1, <1>2, <1>3, <2>1 DEF PhoneType
<1>5. Restored(kept, rewrite) = IF rewrite THEN SaveCart(p) ELSE p
  BY DEF Restored
<1> HIDE DEF p
<1> QED BY <1>4, <1>5, SaveCartTyped

\* A change of the page: by the customer, who begins a new wish; by the page, which
\* notes the wish if it drops the key; after an order, whose cart is emptied.
CustomerMoves ==
    /\ wish < MaxWishes /\ wish' = wish + 1 /\ renewed' = renewed
    /\ phone'.key = NoKey

PageMoves ==
    /\ wish' = wish
    /\ renewed' \in {renewed, renewed \cup {wish}}
    /\ \/ /\ phone'.key = NoKey
          /\ phone.key = NoKey \/ wish \in renewed'
          /\ phone'.cart \subseteq phone.cart \cup phone.saved.cart
          /\ phone'.saved.cart \subseteq phone.cart \cup phone.saved.cart
       \/ phone'.key = NoKey /\ phone'.cart = {} /\ phone'.saved.cart = {}
       \/ /\ phone'.key = phone.key /\ phone'.cart = phone.cart
          /\ phone'.saved.cart = phone.saved.cart
          /\ phone'.table \in {0, phone.table}

LEMMA CustomerChangesMoves ==
    ASSUME NEW p \in PhoneType, CustomerChanges(p)
    PROVE  CustomerMoves /\ phone' \in PhoneType
  BY SaveCartTyped DEF CustomerChanges, CustomerMoves

LEMMA PageDrops ==
    ASSUME StoreTypeOK, NEW p \in PhoneType, PageChanges(p), p.key = NoKey,
           p.cart \subseteq phone.cart \cup phone.saved.cart,
           p.saved.cart \subseteq phone.cart \cup phone.saved.cart
    PROVE  PageMoves /\ phone' \in PhoneType
  BY DEF PageChanges, PageMoves

LEMMA PageKeeps ==
    ASSUME StoreTypeOK, NEW p \in PhoneType, PageChanges(p), p.key = phone.key,
           p.cart = phone.cart, p.saved = phone.saved, p.table \in {0, phone.table}
    PROVE  PageMoves /\ phone' \in PhoneType
  BY DEF PageChanges, PageMoves

\* What the customer and the page do without the network.
PageAction == EditCart \/ PickTable \/ Reload \/ ApplySite \/ ScanCode \/ RefreshCart \/ FetchFails

LEMMA PageActionMoves ==
    ASSUME StoreTypeOK, PageAction
    PROVE  /\ CustomerMoves \/ PageMoves
           /\ phone' \in PhoneType
           /\ UNCHANGED <<intakeVars, tries, net, serving, sent>>
<1>0. /\ phone \in PhoneType
      /\ phone.cart \in SUBSET Products /\ phone.table \in 0..MaxTable
      /\ Tables \subseteq 0..MaxTable
  BY StoreConstants DEF StoreTypeOK, PhoneType, Tables
<1>1. CASE EditCart
  <2>1. PICK cart \in SUBSET Products : CustomerChanges([phone EXCEPT !.cart = cart])
    BY <1>1 DEF EditCart
  <2>2. [phone EXCEPT !.cart = cart] \in PhoneType
    BY <1>0 DEF PhoneType
  <2> QED BY <1>1, <2>1, <2>2, CustomerChangesMoves DEF EditCart
<1>2. CASE PickTable
  <2>1. PICK t \in Tables : CustomerChanges([phone EXCEPT !.table = t, !.signed = FALSE])
    BY <1>2 DEF PickTable
  <2>2. [phone EXCEPT !.table = t, !.signed = FALSE] \in PhoneType
    BY <1>0 DEF PhoneType
  <2> QED BY <1>2, <2>1, <2>2, CustomerChangesMoves DEF PickTable
<1>3. CASE Reload
  <2>1. PICK kept \in SUBSET Products, rewrite \in BOOLEAN : PageChanges(Restored(kept, rewrite))
    BY <1>3 DEF Reload
  <2> DEFINE p == Restored(kept, rewrite)
  <2>2. /\ p \in PhoneType /\ p.key = NoKey
        /\ p.cart \subseteq phone.saved.cart /\ p.saved.cart \subseteq phone.saved.cart
    BY RestoredTyped
  <2>3. PageChanges(p)
    BY <2>1
  <2> HIDE DEF p
  <2> QED BY <1>3, <2>2, <2>3, PageDrops DEF Reload
<1>4. CASE ApplySite
  <2>1. PageChanges([phone EXCEPT !.table = 0])
    BY <1>4 DEF ApplySite
  <2> DEFINE p == [phone EXCEPT !.table = 0]
  <2>2. /\ p \in PhoneType /\ p.key = phone.key /\ p.cart = phone.cart
        /\ p.saved = phone.saved /\ p.table = 0
    BY <1>0, StoreConstants DEF PhoneType
  <2> HIDE DEF p
  <2> QED BY <1>4, <2>1, <2>2, PageKeeps DEF ApplySite, p
<1>5. CASE ScanCode
  <2>1. PICK kept \in SUBSET Products, t \in Tables, signed \in BOOLEAN :
          CustomerChanges([Restored(kept, FALSE) EXCEPT !.table = t, !.signed = signed])
    BY <1>5 DEF ScanCode
  <2>2. Restored(kept, FALSE) \in PhoneType
    BY RestoredTyped
  <2>3. [Restored(kept, FALSE) EXCEPT !.table = t, !.signed = signed] \in PhoneType
    BY <1>0, <2>2 DEF PhoneType
  <2> QED BY <1>5, <2>1, <2>3, CustomerChangesMoves DEF ScanCode
<1>6. CASE RefreshCart
  <2>1. PICK kept \in SUBSET phone.cart : PageChanges(SaveCart([phone EXCEPT !.cart = kept]))
    BY <1>6 DEF RefreshCart
  <2> DEFINE q == [phone EXCEPT !.cart = kept]
             p == SaveCart(q)
  <2>2. q \in PhoneType /\ q.cart = kept
    BY <1>0 DEF PhoneType
  <2> HIDE DEF q
  <2>3. p \in PhoneType /\ p.key = NoKey /\ p.cart = kept /\ p.saved.cart = kept
    BY <2>2, SaveCartTyped
  <2>4. PageChanges(p)
    BY <2>1 DEF q
  <2> HIDE DEF p
  <2> QED BY <1>6, <2>3, <2>4, PageDrops DEF RefreshCart
<1>7. CASE FetchFails
  <2> DEFINE p == [phone EXCEPT !.busyWith = NoTry]
  <2>1. PageChanges(p)
    BY <1>7 DEF FetchFails
  <2>2. /\ p \in PhoneType /\ p.key = phone.key /\ p.cart = phone.cart
        /\ p.saved = phone.saved /\ p.table = phone.table
    BY <1>0, StoreConstants DEF PhoneType, NoTry
  <2> HIDE DEF p
  <2> QED BY <1>7, <2>1, <2>2, PageKeeps DEF FetchFails
<1> QED BY <1>1, <1>2, <1>3, <1>4, <1>5, <1>6, <1>7 DEF PageAction

\* The answer to the try under way.
LEMMA AnswerMoves ==
    ASSUME StoreTypeOK, NEW w \in Workers, Answer(w)
    PROVE  /\ PageMoves /\ phone' \in PhoneType
           /\ Finish(w) /\ serving' = [serving EXCEPT ![w] = NoTry]
           /\ UNCHANGED <<tries, net, sent>>
<1> DEFINE released == [phone EXCEPT !.busyWith = NoTry]
<1>1. /\ released \in PhoneType /\ released.key = phone.key
      /\ released.cart = phone.cart /\ released.saved = phone.saved
      /\ released.table = phone.table
  BY StoreConstants DEF PhoneType, StoreTypeOK, NoTry
<1>2. CASE phone' = SaveCart([released EXCEPT !.cart = {}]) /\ UNCHANGED <<wish, renewed>>
  <2> DEFINE q == [released EXCEPT !.cart = {}]
  <2>1. q \in PhoneType /\ q.cart = {}
    BY <1>1 DEF PhoneType
  <2>2. phone' = SaveCart(q)
    BY <1>2
  <2> HIDE DEF q
  <2>3. phone' \in PhoneType /\ phone'.key = NoKey /\ phone'.cart = {} /\ phone'.saved.cart = {}
    BY <2>1, <2>2, SaveCartTyped
  <2> QED BY <1>2, <2>3 DEF PageMoves, Answer
<1>3. ASSUME NEW x \in phone.cart, PageChanges(SaveCart([released EXCEPT !.cart = @ \ {x}]))
      PROVE  PageMoves /\ phone' \in PhoneType
  <2> DEFINE q == [released EXCEPT !.cart = @ \ {x}]
             p == SaveCart(q)
  <2>1. q \in PhoneType /\ q.cart = phone.cart \ {x}
    BY <1>1 DEF PhoneType
  <2> HIDE DEF q
  <2>2. p \in PhoneType /\ p.key = NoKey /\ p.cart = phone.cart \ {x} /\ p.saved.cart = phone.cart \ {x}
    BY <2>1, SaveCartTyped
  <2>3. PageChanges(p)
    BY <1>3 DEF q
  <2> HIDE DEF p
  <2> QED BY <2>2, <2>3, PageDrops
<1>4. CASE PageChanges(released)
  <2>1. released.table \in {0, phone.table}
    BY <1>1
  <2> QED BY <1>1, <1>4, <2>1, PageKeeps DEF Answer
<1> QED BY <1>2, <1>3, <1>4 DEF Answer

-----------------------------------------------------------------------------
(* Every step of the storefront.                                           *)

\* What a step of the storefront is to the intake.
IntakeMoves ==
    \/ UNCHANGED intakeVars
    \/ \E w \in Workers : HandlerStep(w) \/ Finish(w)
    \/ \E w \in Workers : \E m \in net : Receive(w, m[2])
    \/ \E i \in RowIds : Decide(i) \/ LeaveWindow(i)

\* All steps but Submit.
OtherMoves ==
    /\ IntakeMoves
    /\ CustomerMoves \/ PageMoves
    /\ net' \subseteq net /\ sent' = sent

\* What Submit sends.
Sends(k, r) ==
    /\ phone.busyWith = NoTry /\ phone.table \in Tables /\ phone.cart # {}
    /\ tries < MaxTries /\ tries' = tries + 1
    /\ IF phone.key = NoKey THEN sent[k] = {} ELSE k = phone.key
    /\ r.key = k /\ r.table = phone.table /\ r.lines = phone.cart
    /\ phone' = [phone EXCEPT !.key = k, !.busyWith = tries + 1]
    /\ net' = net \cup {<<tries + 1, r>>}
    /\ sent' = [sent EXCEPT ![k] = @ \cup {<<wish, phone.table, phone.cart>>}]
    /\ UNCHANGED <<intakeVars, serving, wish, renewed>>

LEMMA SubmitSends ==
    ASSUME StoreTypeOK, Submit
    PROVE  \E k \in Keys, r \in Requests : Sends(k, r)
<1>1. /\ phone.busyWith = NoTry /\ phone.table # 0 /\ phone.cart # {}
      /\ tries < MaxTries /\ tries' = tries + 1
      /\ UNCHANGED <<intakeVars, serving, wish, renewed>>
  BY DEF Submit, MaySubmit
<1>2. /\ phone.table \in 0..MaxTable /\ phone.cart \in SUBSET Products /\ phone.signed \in BOOLEAN
  BY DEF StoreTypeOK
<1>3. phone.table \in Tables
  BY <1>1, <1>2, StoreConstants DEF Tables
<1> DEFINE r(k) == [key |-> k, ip |-> PhoneIp, table |-> phone.table,
                    lines |-> phone.cart, signed |-> phone.signed, honeypot |-> FALSE]
<1>4. PICK k \in Keys :
        /\ KeyToSend(k)
        /\ phone' = [phone EXCEPT !.key = k, !.busyWith = tries + 1]
        /\ net' = net \cup {<<tries + 1, r(k)>>}
        /\ sent' = [sent EXCEPT ![k] = @ \cup {<<wish, phone.table, phone.cart>>}]
  BY DEF Submit
<1>5. r(k) \in Requests
  BY <1>2, StoreConstants DEF Requests
<1>6. r(k).key = k /\ r(k).table = phone.table /\ r(k).lines = phone.cart
  OBVIOUS
<1> HIDE DEF r
<1>7. Sends(k, r(k))
  BY <1>1, <1>3, <1>4, <1>6 DEF Sends, KeyToSend
<1> QED BY <1>5, <1>7

LEMMA NetworkMoves ==
    ASSUME StoreTypeOK, NEW w \in Workers, Arrive(w) \/ LoseAnswer(w)
    PROVE  /\ IntakeMoves
           /\ net' \subseteq net
           /\ \E n \in 0..MaxTries : serving' = [serving EXCEPT ![w] = n]
           /\ UNCHANGED <<phone, tries, wish, renewed, sent>>
<1>1. CASE Arrive(w)
  <2>1. PICK m \in net : /\ Receive(w, m[2]) /\ net' = net \ {m}
                         /\ serving' = [serving EXCEPT ![w] = m[1]]
    BY <1>1 DEF Arrive
  <2>2. m[1] \in 0..MaxTries
    BY <2>1, StoreConstants DEF StoreTypeOK
  <2>3. IntakeMoves
    BY <2>1 DEF IntakeMoves
  <2> QED BY <1>1, <2>1, <2>2, <2>3 DEF Arrive
<1>2. CASE LoseAnswer(w)
  <2>1. NoTry \in 0..MaxTries
    BY StoreConstants DEF NoTry
  <2> QED BY <1>2, <2>1 DEF LoseAnswer, IntakeMoves
<1> QED BY <1>1, <1>2

\* Every step of the storefront is a Submit or one of the others, and has types.
LEMMA StoreMoves ==
    ASSUME StoreTypeOK, [StoreNext]_vars
    PROVE  /\ OtherMoves \/ \E k \in Keys, r \in Requests : Sends(k, r)
           /\ StoreTypeOK'
<1> DEFINE Typed ==
             /\ phone' \in PhoneType
             /\ tries' \in 0..MaxTries
             /\ net' \subseteq (1..MaxTries) \X Requests
             /\ serving' \in [Workers -> 0..MaxTries]
             /\ wish' \in 0..MaxWishes
             /\ renewed' \subseteq 0..MaxWishes
             /\ sent' \in [Keys -> SUBSET ((0..MaxWishes) \X Tables \X SUBSET Products)]
<1>1. /\ phone \in PhoneType
      /\ tries \in 0..MaxTries
      /\ net \subseteq (1..MaxTries) \X Requests
      /\ serving \in [Workers -> 0..MaxTries]
      /\ wish \in 0..MaxWishes
      /\ renewed \subseteq 0..MaxWishes
      /\ sent \in [Keys -> SUBSET ((0..MaxWishes) \X Tables \X SUBSET Products)]
  BY DEF StoreTypeOK, PhoneType
<1>2. Typed => StoreTypeOK'
  BY DEF StoreTypeOK, PhoneType
<1>3. ASSUME UNCHANGED <<phone, wish, renewed>> PROVE PageMoves
  <2>1. phone.table \in {0, phone.table}
    OBVIOUS
  <2> QED BY <1>3, <2>1 DEF PageMoves
<1>4. ASSUME CustomerMoves \/ PageMoves, phone' \in PhoneType,
             tries' = tries, net' \subseteq net, sent' = sent,
             \/ serving' = serving
             \/ \E w \in Workers, n \in 0..MaxTries : serving' = [serving EXCEPT ![w] = n]
      PROVE  Typed
  <2>1. wish' \in 0..MaxWishes
    BY <1>1, <1>4, StoreConstants DEF CustomerMoves, PageMoves
  <2>2. renewed' \subseteq 0..MaxWishes
    BY <1>1, <1>4 DEF CustomerMoves, PageMoves
  <2>3. serving' \in [Workers -> 0..MaxTries]
    BY <1>1, <1>4
  <2> QED BY <1>1, <1>4, <2>1, <2>2, <2>3
<1>5. CASE PageAction
  <2>1. OtherMoves
    BY <1>5, PageActionMoves DEF OtherMoves, IntakeMoves
  <2>2. /\ CustomerMoves \/ PageMoves
        /\ phone' \in PhoneType /\ tries' = tries /\ net' = net /\ sent' = sent
        /\ serving' = serving
    BY <1>5, PageActionMoves
  <2> QED BY <1>2, <1>4, <2>1, <2>2
<1>6. CASE Submit
  <2>1. PICK k \in Keys, r \in Requests : Sends(k, r)
    BY <1>6, SubmitSends
  <2>2. phone' \in PhoneType
    <3>1. tries + 1 \in 0..MaxTries
      BY <1>1, <2>1, StoreConstants DEF Sends
    <3> QED BY <1>1, <2>1, <3>1 DEF Sends, PhoneType
  <2>3. tries' \in 0..MaxTries
    BY <1>1, <2>1, StoreConstants DEF Sends
  <2>4. net' \subseteq (1..MaxTries) \X Requests
    <3>1. tries + 1 \in 1..MaxTries
      BY <1>1, <2>1, StoreConstants DEF Sends
    <3>2. <<tries + 1, r>> \in (1..MaxTries) \X Requests
      BY <3>1
    <3> QED BY <1>1, <2>1, <3>2 DEF Sends
  <2>5. sent' \in [Keys -> SUBSET ((0..MaxWishes) \X Tables \X SUBSET Products)]
    <3>1. phone.cart \in SUBSET Products
      BY <1>1 DEF PhoneType
    <3>2. <<wish, phone.table, phone.cart>> \in (0..MaxWishes) \X Tables \X SUBSET Products
      BY <1>1, <2>1, <3>1 DEF Sends
    <3> DEFINE all == (0..MaxWishes) \X Tables \X SUBSET Products
               new == sent[k] \cup {<<wish, phone.table, phone.cart>>}
    <3>3. new \in SUBSET all
      BY <1>1, <3>2
    <3>4. sent' = [sent EXCEPT ![k] = new]
      BY <2>1 DEF Sends
    <3> HIDE DEF all, new
    <3>5. sent \in [Keys -> SUBSET all]
      BY <1>1 DEF all
    <3>6. sent' \in [Keys -> SUBSET all]
      BY <3>3, <3>4, <3>5
    <3> QED BY <3>6 DEF all
  <2> QED BY <1>1, <1>2, <2>1, <2>2, <2>3, <2>4, <2>5 DEF Sends
<1>7. CASE LoseRequest
  <2>1. net' \subseteq net /\ UNCHANGED <<intakeVars, phone, tries, serving, wish, renewed, sent>>
    BY <1>7 DEF LoseRequest
  <2> QED BY <1>1, <1>2, <1>3, <1>4, <2>1 DEF OtherMoves, IntakeMoves
<1>8. ASSUME NEW w \in Workers, Answer(w) PROVE OtherMoves /\ Typed
  <2>1. /\ PageMoves /\ phone' \in PhoneType
        /\ Finish(w) /\ serving' = [serving EXCEPT ![w] = NoTry]
        /\ tries' = tries /\ net' = net /\ sent' = sent
    BY <1>8, AnswerMoves
  <2>2. NoTry \in 0..MaxTries
    BY StoreConstants DEF NoTry
  <2>3. Typed
    BY <1>4, <2>1, <2>2
  <2> QED BY <2>1, <2>3 DEF OtherMoves, IntakeMoves
<1>9. ASSUME NEW w \in Workers, Arrive(w) \/ LoseAnswer(w) PROVE OtherMoves /\ Typed
  <2>1. PageMoves /\ phone' \in PhoneType
    BY <1>1, <1>3, <1>9, NetworkMoves
  <2>2. Typed
    BY <1>4, <1>9, <2>1, NetworkMoves
  <2> QED BY <1>9, <2>1, <2>2, NetworkMoves DEF OtherMoves
<1>10. ASSUME UNCHANGED storeVars, IntakeMoves PROVE OtherMoves /\ Typed
  BY <1>1, <1>3, <1>10 DEF OtherMoves, storeVars
<1>11. CASE UNCHANGED vars
  BY <1>2, <1>10, <1>11 DEF vars, IntakeMoves
<1>12. CASE (\E w \in Workers : HandlerStep(w)) /\ UNCHANGED storeVars
  BY <1>2, <1>10, <1>12 DEF IntakeMoves
<1>13. CASE (\E i \in RowIds : Decide(i) \/ LeaveWindow(i)) /\ UNCHANGED storeVars
  BY <1>2, <1>10, <1>13 DEF IntakeMoves
<1> HIDE DEF Typed
<1> QED BY <1>2, <1>5, <1>6, <1>7, <1>8, <1>9, <1>11, <1>12, <1>13 DEF StoreNext, PageAction

LEMMA StoreStart ==
    ASSUME StoreInit
    PROVE  Init /\ StoreTypeOK
<1>1. PICK t \in 0..MaxTable : phone = SaveCart([EmptyPhone EXCEPT !.table = t])
  BY DEF StoreInit
<1> DEFINE e == EmptyPhone
           p == [e EXCEPT !.table = t]
<1>2. e \in PhoneType
  BY StoreConstants DEF PhoneType, SavedType, EmptyPhone, NoTry
<1> HIDE DEF e
<1>3. p \in PhoneType
  BY <1>2 DEF PhoneType
<1>4. phone = SaveCart(p)
  BY <1>1 DEF e
<1> HIDE DEF p
<1>5. phone \in PhoneType
  BY <1>3, <1>4, SaveCartTyped
<1> QED BY <1>5, StoreConstants DEF StoreInit, StoreTypeOK, PhoneType, NoTry

\* A step of the storefront is a step of the intake, or none.
LEMMA IntakeStep ==
    ASSUME StoreTypeOK, [StoreNext]_vars
    PROVE  [Next]_intakeVars
<1>1. ASSUME IntakeMoves PROVE [Next]_intakeVars
  <2>1. ASSUME NEW m \in net PROVE m[2] \in Requests
    BY DEF StoreTypeOK
  <2> QED BY <1>1, <2>1 DEF IntakeMoves, Next
<1>2. CASE OtherMoves
  BY <1>1, <1>2 DEF OtherMoves
<1>3. CASE \E k \in Keys, r \in Requests : Sends(k, r)
  BY <1>3 DEF Sends
<1> QED BY <1>2, <1>3, StoreMoves

LEMMA StoreBaseInit == ASSUME StoreInit PROVE StoreBase
  BY StoreStart, TypeInit, KeyInit DEF StoreBase

LEMMA StoreBaseStep == ASSUME StoreBase, [StoreNext]_vars PROVE StoreBase'
  BY IntakeStep, StoreMoves, TypeStep, KeyStep DEF StoreBase

-----------------------------------------------------------------------------
(* Keys and carts.                                                         *)

LEMMA CartInit ==
    ASSUME StoreInit
    PROVE  CartInv /\ WishInv
<1>1. /\ \A k \in Keys : sent[k] = {}
      /\ net = {} /\ rows = <<>> /\ \A w \in Workers : worker[w].pc = "idle"
  BY DEF StoreInit, Init, IdleWorker
<1>2. phone.key = NoKey
  <2>1. PICK t \in 0..MaxTable : phone = SaveCart([EmptyPhone EXCEPT !.table = t])
    BY DEF StoreInit
  <2> QED BY <2>1 DEF SaveCart, EmptyPhone
<1>3. RowIds = {}
  <2>1. rows \in Seq(RowType) /\ Len(rows) = 0
    BY <1>1, EmptySeq
  <2> QED BY <2>1, LenProperties DEF RowIds
<1>4. CartInv
  BY <1>1, <1>2, <1>3 DEF CartInv, SentOnce, PhoneKey, NetKeys, WorkerKeys, RowKeys
<1>5. WishInv
  BY <1>1 DEF WishInv, WishesPast, WishSent, NothingToSend, KeysApart
<1> QED BY <1>4, <1>5

\* The key of a Submit is new, or has been sent with the very same order.
LEMMA SendsSame ==
    ASSUME StoreTypeOK, PhoneKey, NEW k \in Keys, NEW r \in Requests, Sends(k, r)
    PROVE  LET x == <<wish, phone.table, phone.cart>> IN
           /\ (sent[k] = {} /\ phone.key = NoKey) \/ (sent[k] = {x} /\ k = phone.key)
           /\ sent'[k] = {x}
           /\ \A l \in Keys \ {k} : sent'[l] = sent[l]
<1> DEFINE x == <<wish, phone.table, phone.cart>>
<1>0. IF phone.key = NoKey THEN sent[k] = {} ELSE k = phone.key
  BY DEF Sends
<1>1. (sent[k] = {} /\ phone.key = NoKey) \/ (sent[k] = {x} /\ k = phone.key)
  <2>1. CASE phone.key = NoKey
    BY <1>0, <2>1
  <2>2. CASE phone.key # NoKey
    <3>1. PICK t \in Tables : /\ phone.table \in {0, t}
                              /\ sent[phone.key] = {<<wish, t, phone.cart>>}
      BY <2>2 DEF PhoneKey
    <3>2. phone.table # 0
      BY StoreConstants DEF Sends, Tables
    <3> QED BY <1>0, <2>2, <3>1, <3>2
  <2> QED BY <2>1, <2>2
<1>2. sent' = [sent EXCEPT ![k] = sent[k] \cup {x}] /\ DOMAIN sent = Keys
  BY DEF Sends, StoreTypeOK
<1> HIDE DEF x
<1>3. sent'[k] = {x} /\ \A l \in Keys \ {k} : sent'[l] = sent[l]
  BY <1>1, <1>2
<1> QED BY <1>1, <1>3 DEF x

\* What has been sent under a key is never added to.
SentStays == \A k \in Keys : sent[k] # {} => sent'[k] = sent[k]

LEMMA SentOnceStays ==
    ASSUME StoreTypeOK, PhoneKey, SentOnce, [StoreNext]_vars
    PROVE  SentStays /\ SentOnce'
<1>1. CASE sent' = sent
  BY <1>1 DEF SentStays, SentOnce
<1>2. ASSUME NEW k \in Keys, NEW r \in Requests, Sends(k, r)
      PROVE  SentStays /\ SentOnce'
  <2> DEFINE x == <<wish, phone.table, phone.cart>>
  <2>1. /\ sent[k] = {} \/ sent[k] = {x}
        /\ sent'[k] = {x} /\ \A l \in Keys \ {k} : sent'[l] = sent[l]
    BY <1>2, SendsSame
  <2> HIDE DEF x
  <2> QED BY <2>1 DEF SentStays, SentOnce
<1> QED BY <1>1, <1>2, StoreMoves DEF OtherMoves

LEMMA StandsStays ==
    ASSUME SentStays, NEW k, NEW t, NEW l, Stands(k, t, l)
    PROVE  k \in Keys /\ \E u \in 0..MaxWishes : sent'[k] = {<<u, t, l>>}
  BY DEF SentStays, Stands

LEMMA PhoneKeyStep ==
    ASSUME StoreTypeOK, PhoneKey, [StoreNext]_vars
    PROVE  PhoneKey'
<1>1. CASE OtherMoves
  <2>1. phone'.key # NoKey =>
           /\ phone'.key = phone.key /\ phone'.cart = phone.cart
           /\ phone'.table \in {0, phone.table} /\ wish' = wish /\ sent' = sent
    BY <1>1 DEF OtherMoves, CustomerMoves, PageMoves
  <2>2. ASSUME phone'.key # NoKey
        PROVE  \E t \in Tables : /\ phone'.table \in {0, t}
                                 /\ sent'[phone'.key] = {<<wish', t, phone'.cart>>}
    <3>1. PICK t \in Tables : /\ phone.table \in {0, t}
                              /\ sent[phone.key] = {<<wish, t, phone.cart>>}
      BY <2>1, <2>2 DEF PhoneKey
    <3>2. phone'.table \in {0, t}
      BY <2>1, <2>2, <3>1
    <3> QED BY <2>1, <2>2, <3>1, <3>2
  <2> QED BY <2>2 DEF PhoneKey, Tables
<1>2. ASSUME NEW k \in Keys, NEW r \in Requests, Sends(k, r) PROVE PhoneKey'
  <2>1. sent'[k] = {<<wish, phone.table, phone.cart>>}
    BY <1>2, SendsSame
  <2>2. /\ phone.table \in Tables /\ wish' = wish
        /\ phone'.key = k /\ phone'.table = phone.table /\ phone'.cart = phone.cart
    BY <1>2 DEF Sends, StoreTypeOK
  <2>3. phone'.table \in {0, phone.table}
    BY <2>2
  <2> QED BY <2>1, <2>2, <2>3 DEF PhoneKey, Tables
<1> QED BY <1>1, <1>2, StoreMoves

LEMMA NetKeysStep ==
    ASSUME StoreTypeOK, PhoneKey, SentOnce, NetKeys, [StoreNext]_vars
    PROVE  NetKeys'
<1>1. SentStays
  BY SentOnceStays
<1>2. ASSUME NEW m \in net' PROVE \/ Stands(m[2].key, m[2].table, m[2].lines)
                                  \/ /\ m[2].key \in Keys
                                     /\ \E u \in 0..MaxWishes :
                                          sent'[m[2].key] = {<<u, m[2].table, m[2].lines>>}
  <2>1. CASE m \in net
    BY <2>1 DEF NetKeys
  <2>2. ASSUME NEW k \in Keys, NEW r \in Requests, Sends(k, r), m \notin net
        PROVE  /\ m[2].key \in Keys
               /\ \E u \in 0..MaxWishes : sent'[m[2].key] = {<<u, m[2].table, m[2].lines>>}
    <3>1. sent'[k] = {<<wish, phone.table, phone.cart>>}
      BY <2>2, SendsSame
    <3>2. m = <<tries + 1, r>> /\ r.key = k /\ r.table = phone.table /\ r.lines = phone.cart
      BY <2>2 DEF Sends
    <3>3. m[2] = r
      BY <3>2
    <3>4. wish \in 0..MaxWishes
      BY DEF StoreTypeOK
    <3> QED BY <3>1, <3>2, <3>3, <3>4
  <2> QED BY <2>1, <2>2, StoreMoves DEF OtherMoves
<1>3. ASSUME NEW m \in net'
      PROVE  /\ m[2].key \in Keys
             /\ \E u \in 0..MaxWishes : sent'[m[2].key] = {<<u, m[2].table, m[2].lines>>}
  <2>1. CASE Stands(m[2].key, m[2].table, m[2].lines)
    BY <1>1, <2>1, StandsStays
  <2> QED BY <1>2, <2>1
<1> QED BY <1>3 DEF NetKeys, Stands

\* What WorkerKeys says of one handler's record.
KeyHeld(h) ==
    /\ h.pc # "idle" => h.req.key \in Keys
    /\ h.pc \notin {"idle", "replied"} => Stands(h.req.key, h.req.table, h.req.lines)

LEMMA KeyHeldStays ==
    ASSUME SentStays, \A v \in Workers : \E h : h = worker'[v] /\ KeyHeld(h)
    PROVE  WorkerKeys'
<1>1. ASSUME NEW v \in Workers
      PROVE  /\ worker'[v].pc # "idle" => worker'[v].req.key \in Keys
             /\ worker'[v].pc \notin {"idle", "replied"} =>
                  /\ worker'[v].req.key \in Keys
                  /\ \E u \in 0..MaxWishes :
                        sent'[worker'[v].req.key] =
                            {<<u, worker'[v].req.table, worker'[v].req.lines>>}
  <2>1. PICK h : h = worker'[v] /\ KeyHeld(h)
    OBVIOUS
  <2>2. CASE h.pc \notin {"idle", "replied"}
    <3>1. Stands(h.req.key, h.req.table, h.req.lines)
      BY <2>1, <2>2 DEF KeyHeld
    <3>2. /\ h.req.key \in Keys
          /\ \E u \in 0..MaxWishes : sent'[h.req.key] = {<<u, h.req.table, h.req.lines>>}
      BY <3>1, StandsStays
    <3> QED BY <2>1, <3>2
  <2> QED BY <2>1, <2>2 DEF KeyHeld
<1> QED BY <1>1 DEF WorkerKeys, Stands

LEMMA WorkerKeysStep ==
    ASSUME StoreBase, CartInv, [StoreNext]_vars
    PROVE  WorkerKeys'
<1>1. StoreTypeOK /\ TypeOK /\ SentStays /\ \A v \in Workers : KeyHeld(worker[v])
  BY SentOnceStays DEF StoreBase, CartInv, WorkerKeys, KeyHeld
<1>2. CASE worker' = worker
  BY <1>1, <1>2, KeyHeldStays
<1>3. ASSUME NEW w \in Workers, NEW h, worker' = [worker EXCEPT ![w] = h], KeyHeld(h)
      PROVE  WorkerKeys'
  <2>1. ASSUME NEW v \in Workers PROVE \E g : g = worker'[v] /\ KeyHeld(g)
    <3>1. worker'[v] = IF v = w THEN h ELSE worker[v]
      BY <1>1, <1>3, PastMoved
    <3> QED BY <1>1, <1>3, <3>1
  <2> QED BY <1>1, <2>1, KeyHeldStays
<1>4. ASSUME NEW w \in Workers, HandlerStep(w) PROVE WorkerKeys'
  <2>1. PICK h : StepsTo(w, h)
    BY <1>1, <1>4, HandlerSteps
  <2>2. worker[w].pc \notin {"idle", "replied"}
    BY <1>1, <1>4, HandlerSteps
  <2>3. KeyHeld(h)
    BY <1>1, <2>1, <2>2 DEF StepsTo, KeyHeld
  <2> QED BY <1>3, <2>1, <2>3 DEF StepsTo
<1>5. ASSUME NEW w \in Workers, Finish(w) PROVE WorkerKeys'
  <2>1. KeyHeld(IdleWorker)
    BY DEF IdleWorker, KeyHeld
  <2> QED BY <1>3, <1>5, <2>1 DEF Finish
<1>6. ASSUME NEW w \in Workers, NEW m \in net, Receive(w, m[2]) PROVE WorkerKeys'
  <2> DEFINE r == m[2]
  <2>1. r \in Requests /\ Stands(r.key, r.table, r.lines)
    BY <1>1 DEF StoreTypeOK, CartInv, NetKeys
  <2>2. Receive(w, r)
    BY <1>6
  <2> HIDE DEF r
  <2>3. PICK h \in Begun(r) : worker' = [worker EXCEPT ![w] = h]
    BY <2>2 DEF Receive
  <2>4. /\ h.pc # "idle" /\ h.req.key = r.key
        /\ h.pc # "replied" => h.req.table = r.table /\ h.req.lines = r.lines
    BY <2>1, FirstChecksKeep
  <2>5. KeyHeld(h)
    BY <2>1, <2>4 DEF KeyHeld, Stands
  <2> QED BY <1>3, <2>3, <2>5
<1>7. ASSUME IntakeMoves PROVE WorkerKeys'
  BY <1>2, <1>4, <1>5, <1>6, <1>7 DEF IntakeMoves, intakeVars, Decide, LeaveWindow
<1>8. CASE \E k \in Keys, r \in Requests : Sends(k, r)
  BY <1>2, <1>8 DEF Sends, intakeVars
<1> QED BY <1>1, <1>7, <1>8, StoreMoves DEF OtherMoves

LEMMA RowKeysStep ==
    ASSUME StoreBase, CartInv, [StoreNext]_vars
    PROVE  RowKeys'
<1>1. TypeOK /\ SentStays /\ RowsStay /\ RowsOfHandlers
  BY SentOnceStays, IntakeStep, RowsOnlyGrow DEF StoreBase, CartInv
<1>2. ASSUME NEW i \in RowIds'
      PROVE  \E k, t, l : /\ rows'[i].key = k /\ rows'[i].table = t /\ rows'[i].lines = l
                          /\ Stands(k, t, l)
  <2>1. CASE i \in RowIds
    BY <1>1, <2>1 DEF RowsStay, CartInv, RowKeys
  <2>2. CASE i \notin RowIds
    <3>1. PICK w \in Workers : /\ worker[w].pc \notin {"idle", "replied"}
                               /\ rows'[i] = Row(worker[w].req)
      BY <1>1, <1>2, <2>2 DEF RowsOfHandlers
    <3>2. Stands(worker[w].req.key, worker[w].req.table, worker[w].req.lines)
      BY <3>1 DEF CartInv, WorkerKeys
    <3>3. /\ rows'[i].key = worker[w].req.key
          /\ rows'[i].table = worker[w].req.table
          /\ rows'[i].lines = worker[w].req.lines
      BY <3>1 DEF Row
    <3> QED BY <3>2, <3>3
  <2> QED BY <2>1, <2>2
<1>3. ASSUME NEW i \in RowIds'
      PROVE  /\ rows'[i].key \in Keys
             /\ \E u \in 0..MaxWishes :
                  sent'[rows'[i].key] = {<<u, rows'[i].table, rows'[i].lines>>}
  <2>1. PICK k, t, l : /\ rows'[i].key = k /\ rows'[i].table = t /\ rows'[i].lines = l
                       /\ Stands(k, t, l)
    BY <1>2
  <2>2. k \in Keys /\ \E u \in 0..MaxWishes : sent'[k] = {<<u, t, l>>}
    BY <1>1, <2>1, StandsStays
  <2> QED BY <2>1, <2>2
<1> QED BY <1>3 DEF RowKeys, Stands

LEMMA CartStep ==
    ASSUME StoreBase, CartInv, [StoreNext]_vars
    PROVE  CartInv'
<1>1. SentOnce'
  BY SentOnceStays DEF StoreBase, CartInv
<1>2. PhoneKey'
  BY PhoneKeyStep DEF StoreBase, CartInv
<1>3. NetKeys'
  BY NetKeysStep DEF StoreBase, CartInv
<1>4. WorkerKeys' /\ RowKeys'
  BY WorkerKeysStep, RowKeysStep
<1> QED BY <1>1, <1>2, <1>3, <1>4 DEF CartInv

-----------------------------------------------------------------------------
(* Wishes and keys.                                                        *)

LEMMA WishStep ==
    ASSUME StoreBase, CartInv, WishInv, [StoreNext]_vars
    PROVE  WishInv'
<1>0. /\ StoreTypeOK /\ PhoneKey /\ WishesPast /\ NothingToSend /\ KeysApart
      /\ wish \in Nat
      /\ \A k \in Keys : \A m \in sent[k] : m[1] \in Nat
  BY StoreConstants DEF StoreBase, CartInv, WishInv, StoreTypeOK
<1>1. CASE OtherMoves /\ CustomerMoves
  <2>1. /\ sent' = sent /\ wish' = wish + 1 /\ renewed' = renewed
    BY <1>1 DEF OtherMoves, CustomerMoves
  <2>2. WishesPast'
    BY <1>0, <2>1 DEF WishesPast
  <2>3. ~WishSent'
    BY <1>0, <2>1 DEF WishesPast, WishSent
  <2>4. NothingToSend'
    BY <2>3 DEF NothingToSend
  <2>5. KeysApart'
    BY <1>0, <2>1 DEF KeysApart
  <2> QED BY <2>2, <2>4, <2>5 DEF WishInv
<1>2. CASE OtherMoves /\ PageMoves
  <2>1. sent' = sent /\ wish' = wish /\ renewed \subseteq renewed'
    BY <1>2 DEF OtherMoves, PageMoves
  <2>2. WishesPast' /\ KeysApart'
    BY <1>0, <2>1 DEF WishesPast, KeysApart
  <2>3. NothingToSend'
    <3> SUFFICES ASSUME phone'.key = NoKey, WishSent, wish \notin renewed'
                 PROVE  phone'.cart = {} /\ phone'.saved.cart = {}
      BY <2>1 DEF NothingToSend, WishSent
    <3>1. phone.key = NoKey => phone.cart = {} /\ phone.saved.cart = {}
      BY <1>0, <2>1 DEF NothingToSend
    <3> QED BY <1>2, <3>1 DEF PageMoves
  <2> QED BY <2>2, <2>3 DEF WishInv
<1>3. ASSUME NEW k \in Keys, NEW r \in Requests, Sends(k, r) PROVE WishInv'
  <2> DEFINE x == <<wish, phone.table, phone.cart>>
  <2>1. /\ (sent[k] = {} /\ phone.key = NoKey) \/ (sent[k] = {x} /\ k = phone.key)
        /\ sent'[k] = {x} /\ \A l \in Keys \ {k} : sent'[l] = sent[l]
    BY <1>0, <1>3, SendsSame
  <2>2. /\ wish' = wish /\ renewed' = renewed /\ phone'.key = k /\ phone.cart # {}
        /\ x[1] = wish
    BY <1>0, <1>3 DEF Sends, StoreTypeOK
  <2> HIDE DEF x
  <2>3. WishesPast'
    BY <1>0, <2>1, <2>2 DEF WishesPast
  <2>4. NothingToSend'
    BY <2>2, StoreConstants DEF NothingToSend
  <2>5. KeysApart'
    <3>1. CASE sent[k] = {x}
      <4>1. \A l \in Keys : sent'[l] = sent[l]
        BY <2>1, <3>1
      <4> QED BY <1>0, <2>2, <4>1 DEF KeysApart
    <3>2. CASE phone.key = NoKey
      <4>1. ASSUME NEW l \in Keys \ {k}, NEW n \in sent[l], n[1] = wish
            PROVE  wish \in renewed
        BY <1>0, <2>2, <3>2, <4>1 DEF NothingToSend, WishSent
      <4>2. ASSUME NEW j \in Keys, NEW l \in Keys, NEW m \in sent'[j], NEW n \in sent'[l],
                   j # l, m[1] = n[1]
            PROVE  m[1] \in renewed
        <5>1. CASE j = k
          BY <2>1, <2>2, <4>1, <4>2, <5>1
        <5>2. CASE l = k
          BY <2>1, <2>2, <4>1, <4>2, <5>2
        <5>3. CASE j # k /\ l # k
          BY <1>0, <2>1, <4>2, <5>3 DEF KeysApart
        <5> QED BY <5>1, <5>2, <5>3
      <4> QED BY <2>2, <4>2 DEF KeysApart
    <3> QED BY <2>1, <3>1, <3>2
  <2> QED BY <2>3, <2>4, <2>5 DEF WishInv
<1> QED BY <1>0, <1>1, <1>2, <1>3, StoreMoves DEF OtherMoves

-----------------------------------------------------------------------------
(* The theorems about the storefront.                                      *)

LEMMA StoreInvInit == ASSUME StoreInit PROVE StoreInv
  BY StoreBaseInit, CartInit DEF StoreInv

LEMMA StoreInvStep == ASSUME StoreInv, [StoreNext]_vars PROVE StoreInv'
  BY StoreBaseStep, CartStep, WishStep DEF StoreInv

\* The inductive invariant: what page, network, handlers and rows know of a key
\* is one order.
THEOREM StoreInvariant == StoreSpec => []StoreInv
  BY StoreInvInit, StoreInvStep, PTL DEF StoreSpec

LEMMA InvKeyMeans == ASSUME StoreInv PROVE KeyMeansOneOrder
<1>1. ASSUME NEW k \in Keys PROVE Cardinality(sent[k]) <= 1
  <2>1. CASE sent[k] = {}
    BY <2>1, FS_EmptySet
  <2>2. ASSUME NEW x \in sent[k], sent[k] = {x} PROVE Cardinality(sent[k]) <= 1
    <3>1. Cardinality({x}) = 1
      BY FS_Singleton
    <3> QED BY <2>2, <3>1
  <2> QED BY <2>1, <2>2 DEF StoreInv, CartInv, SentOnce
<1>2. ASSUME NEW i \in RowIds, NEW m \in sent[rows[i].key]
      PROVE  rows[i].table = m[2] /\ rows[i].lines = m[3]
  BY DEF StoreInv, CartInv, RowKeys, Stands
<1> QED BY <1>1, <1>2 DEF KeyMeansOneOrder

LEMMA InvRecorded == ASSUME StoreInv PROVE RecordedOnceUnlessKeyDropped
<1>1. ASSUME NEW i \in RowIds, NEW j \in RowIds, i # j,
             NEW m \in sent[rows[i].key], NEW n \in sent[rows[j].key], m[1] = n[1]
      PROVE  m[1] \in renewed
  <2>1. rows[i].key \in Keys /\ rows[j].key \in Keys
    BY DEF StoreInv, CartInv, RowKeys, Stands
  <2>2. rows[i].key # rows[j].key
    BY <1>1, <2>1, StoreConstants DEF StoreInv, StoreBase, KeyInv, OneRowPerKey
  <2> QED BY <1>1, <2>1, <2>2 DEF StoreInv, WishInv, KeysApart
<1> QED BY <1>1 DEF RecordedOnceUnlessKeyDropped, WishesOf

\* The page, the network and the histories have their types (the variables of
\* public/js/script.js behind the cart and the checkout).
THEOREM StoreTypeCorrect == StoreSpec => []StoreTypeOK
<1>1. StoreInv => StoreTypeOK
  BY DEF StoreInv, StoreBase
<1> QED BY <1>1, StoreInvariant, PTL

\* A key stands for one cart at one table, and so does the row that answers a retry:
\* saveCart forgets the key of an order that is changed, and no reload, late
\* answer or new setting of the site brings it back.
THEOREM KeysMeanOrders == StoreSpec => []KeyMeansOneOrder
  BY InvKeyMeans, StoreInvariant, PTL

\* However requests and answers are delayed or lost, and handlers overlap or fail, an
\* order that the customer has not changed has one row (IDEMPOTENCY_KEY_RE, the
\* unique index on request_id), unless the page itself dropped the key in between.
THEOREM WishesRecordedOnce == StoreSpec => []RecordedOnceUnlessKeyDropped
  BY InvRecorded, StoreInvariant, PTL

\* The storefront asks of the intake nothing that OrderIntake does not allow, so that
\* the theorems of OrderIntakeProofs hold behind the phone as well.
THEOREM StoreImplementsIntake == StoreSpec => Spec
<1>1. StoreInit => Init
  BY StoreStart
<1>2. StoreTypeOK /\ [StoreNext]_vars => [Next]_intakeVars
  BY IntakeStep
<1> QED BY <1>1, <1>2, StoreTypeCorrect, PTL DEF StoreSpec, Spec

-----------------------------------------------------------------------------
(* The receipt.                                                            *)

ChainType == [1..MaxRows -> {"none", "timer", "asked", "waits", "decided"}]

\* A receipt and a polling are of a recorded order; an answer that reports a decision
\* is right; and no polling but the receipt's own is alive, unless it was crowded.
ChainsApart ==
    /\ chain \in ChainType
    /\ receipt \in [row : RowIds \cup {NoReceipt}, decided : BOOLEAN]
    /\ \A i \in 1..MaxRows : chain[i] # "none" => i \in RowIds
    /\ \A i \in 1..MaxRows : chain[i] = "decided" => ~rows[i].pending
    /\ receipt.row # NoReceipt /\ ~crowded =>
          \A i \in (1..MaxRows) \ {receipt.row} : chain[i] = "none"

ReceiptInv == StoreInv /\ ChainsApart /\ ReceiptTells

\* Receipts and pollings do nothing to the storefront.
LEMMA ReceiptStores == ASSUME ReceiptNext PROVE [StoreNext]_vars
  BY DEF ReceiptNext, StoreNext

LEMMA RowIdsFit == ASSUME TypeOK PROVE RowIds \subseteq 1..MaxRows /\ NoReceipt \notin RowIds
  BY RowIdsAre, ConstantsTyped DEF TypeOK, NoReceipt

\* The rows move on while receipt and chains stay.
LEMMA RowsUnderReceipt ==
    ASSUME ChainsApart, ReceiptTells, RowsStay, UNCHANGED receiptVars
    PROVE  ChainsApart' /\ ReceiptTells'
<1>1. /\ receipt' = receipt /\ chain' = chain /\ (crowded' <=> crowded)
      /\ RowIds \subseteq RowIds'
      /\ \A i \in RowIds : rows'[i].pending => rows[i].pending
  BY DEF receiptVars, RowsStay
<1>2. ChainsApart'
  <2>1. \A i \in 1..MaxRows : chain'[i] = "decided" => ~rows'[i].pending
    BY <1>1 DEF ChainsApart
  <2>2. receipt' \in [row : RowIds' \cup {NoReceipt}, decided : BOOLEAN]
    BY <1>1 DEF ChainsApart
  <2> QED BY <1>1, <2>1, <2>2 DEF ChainsApart, ChainType, NoReceipt
<1>3. ReceiptTells'
  <2>1. receipt.row # NoReceipt => receipt.row \in RowIds
    BY DEF ChainsApart
  <2>2. receipt.row # NoReceipt /\ rows'[receipt.row].pending => rows[receipt.row].pending
    BY <1>1, <2>1
  <2> QED BY <1>1, <2>2 DEF ReceiptTells, NoReceipt
<1> QED BY <1>2, <1>3

\* Without a receipt nothing is told.
LEMMA BlankReceipt ==
    ASSUME ChainsApart, RowsStay, receipt' = Blank,
           chain' = chain \/ chain' = [i \in 1..MaxRows |-> "none"]
    PROVE  ChainsApart' /\ ReceiptTells'
<1>1. receipt'.row = NoReceipt /\ receipt' \in [row : RowIds' \cup {NoReceipt}, decided : BOOLEAN]
  BY DEF Blank
<1>2. chain' \in ChainType /\ \A i \in 1..MaxRows : chain'[i] \in {"none", chain[i]}
  BY DEF ChainsApart, ChainType
<1>3. \A i \in 1..MaxRows : chain'[i] # "none" =>
         i \in RowIds' /\ (chain'[i] = "decided" => ~rows'[i].pending)
  BY <1>2 DEF ChainsApart, RowsStay
<1>4. ChainsApart'
  BY <1>1, <1>2, <1>3 DEF ChainsApart, ChainType, NoReceipt
<1> QED BY <1>1, <1>4 DEF ReceiptTells, NoReceipt

\* Clearing the timer of the last polling is enough, unless one was beyond its reach.
LEMMA DrawApart ==
    ASSUME TypeOK, ChainsApart, rows' = rows, NEW i \in RowIds, Draw(i)
    PROVE  ChainsApart' /\ ReceiptTells'
<1>1. /\ receipt'.row = i /\ receipt'.decided = FALSE
      /\ chain' = [Cleared EXCEPT ![i] = "timer"]
  BY DEF Draw
<1>2. /\ RowIds' = RowIds /\ i \in 1..MaxRows
      /\ chain \in ChainType /\ DOMAIN chain = 1..MaxRows
  BY RowIdsFit DEF ChainsApart, ChainType, RowIds
<1>3. \A j \in 1..MaxRows :
         chain'[j] = IF j = i THEN "timer"
                     ELSE IF j = handle /\ chain[j] = "timer" THEN "none" ELSE chain[j]
  BY <1>1, <1>2 DEF Cleared
<1>4. chain' \in ChainType
  BY <1>1, <1>2 DEF Cleared, ChainType
<1>5. \A j \in 1..MaxRows : chain'[j] # "none" => j \in RowIds'
  BY <1>2, <1>3 DEF ChainsApart
<1>6. \A j \in 1..MaxRows : chain'[j] = "decided" => ~rows'[j].pending
  BY <1>3 DEF ChainsApart
<1>7. ASSUME ~crowded', NEW j \in (1..MaxRows) \ {i}
      PROVE  chain'[j] = "none"
  <2>1. ~\E l \in DOMAIN chain \ {i} :
             chain[l] \notin {"none", "timer"} \/ (chain[l] = "timer" /\ l # handle)
    BY <1>7 DEF Draw
  <2> QED BY <1>2, <1>3, <1>7, <2>1
<1>8. receipt' \in [row : RowIds' \cup {NoReceipt}, decided : BOOLEAN]
  BY <1>2 DEF Draw
<1> QED BY <1>1, <1>4, <1>5, <1>6, <1>7, <1>8 DEF ChainsApart, ReceiptTells, NoReceipt

\* A step of one chain that was alive: what it may become, and who is told.
LEMMA ChainMoves ==
    ASSUME ChainsApart, ReceiptTells, UNCHANGED vars, UNCHANGED crowded,
           NEW i \in 1..MaxRows, NEW to \in {"none", "timer", "asked", "waits", "decided"},
           chain[i] # "none", chain' = [chain EXCEPT ![i] = to],
           to = "decided" => ~rows[i].pending,
           \/ receipt' = receipt
           \/ chain[i] = "decided" /\ receipt' = [receipt EXCEPT !.decided = TRUE]
    PROVE  ChainsApart' /\ ReceiptTells'
<1>1. /\ rows' = rows /\ RowIds' = RowIds /\ (crowded' <=> crowded)
      /\ \A j \in 1..MaxRows : chain'[j] = IF j = i THEN to ELSE chain[j]
      /\ chain' \in ChainType
  BY DEF vars, intakeVars, RowIds, ChainsApart, ChainType
<1>2. /\ receipt'.row = receipt.row
      /\ receipt' \in [row : RowIds' \cup {NoReceipt}, decided : BOOLEAN]
  BY <1>1 DEF ChainsApart
<1>3. \A j \in 1..MaxRows :
         /\ chain'[j] # "none" => j \in RowIds'
         /\ chain'[j] = "decided" => ~rows'[j].pending
  BY <1>1 DEF ChainsApart
<1>4. receipt.row # NoReceipt /\ ~crowded =>
         i = receipt.row /\ \A j \in (1..MaxRows) \ {receipt.row} : chain'[j] = "none"
  BY <1>1 DEF ChainsApart
<1>5. ChainsApart'
  BY <1>1, <1>2, <1>3, <1>4 DEF ChainsApart, NoReceipt
<1>6. ReceiptTells'
  <2>1. CASE receipt' = receipt
    BY <1>1, <2>1 DEF ReceiptTells, NoReceipt
  <2>2. CASE chain[i] = "decided"
    <3>1. ~rows[i].pending
      BY <2>2 DEF ChainsApart
    <3> QED BY <1>1, <1>2, <1>4, <3>1 DEF ReceiptTells, NoReceipt
  <2> QED BY <2>1, <2>2
<1> QED BY <1>5, <1>6

LEMMA ChainStep ==
    ASSUME TypeOK, ChainsApart, ReceiptTells, UNCHANGED vars,
           NEW i \in RowIds, Fire(i) \/ ServeStatus(i) \/ Told(i)
    PROVE  ChainsApart' /\ ReceiptTells'
<1>1. i \in 1..MaxRows /\ UNCHANGED crowded /\ chain \in ChainType
  BY RowIdsFit DEF Fire, ServeStatus, Told, ChainsApart
<1>2. ASSUME UNCHANGED <<receipt, chain>> PROVE ChainsApart' /\ ReceiptTells'
  <2>1. rows' = rows /\ RowIds' = RowIds
    BY DEF vars, intakeVars, RowIds
  <2>2. ChainsApart'
    BY <1>1, <1>2, <2>1 DEF ChainsApart, ChainType, NoReceipt
  <2>3. ReceiptTells'
    BY <1>1, <1>2, <2>1 DEF ReceiptTells, NoReceipt
  <2> QED BY <2>2, <2>3
<1>3. ASSUME NEW to \in {"none", "timer", "asked", "waits", "decided"}, chain[i] # "none",
             chain' = [chain EXCEPT ![i] = to], to = "decided" => ~rows[i].pending,
             \/ receipt' = receipt
             \/ chain[i] = "decided" /\ receipt' = [receipt EXCEPT !.decided = TRUE]
      PROVE  ChainsApart' /\ ReceiptTells'
  BY <1>1, <1>3, ChainMoves
<1>4. CASE Fire(i)
  <2>1. chain[i] = "timer" /\ receipt' = receipt
    BY <1>4 DEF Fire
  <2>2. \/ chain' = [chain EXCEPT ![i] = "none"]
        \/ chain' = [chain EXCEPT ![i] = "asked"]
        \/ chain' = chain
    BY <1>4 DEF Fire
  <2> QED BY <1>2, <1>3, <2>1, <2>2
<1>5. CASE ServeStatus(i)
  <2>1. chain[i] = "asked" /\ receipt' = receipt
    BY <1>5 DEF ServeStatus
  <2>2. \/ chain' = [chain EXCEPT ![i] = "waits"]
        \/ chain' = [chain EXCEPT ![i] = "decided"] /\ ~rows[i].pending
    BY <1>5 DEF ServeStatus
  <2> QED BY <1>3, <2>1, <2>2
<1>6. CASE Told(i)
  <2>1. chain[i] \in {"asked", "waits", "decided"}
    BY <1>6 DEF Told
  <2>2. CASE chain' = [chain EXCEPT ![i] = "timer"] /\ receipt' = receipt
    BY <1>3, <2>1, <2>2
  <2>3. CASE /\ chain[i] = "decided" /\ chain' = [chain EXCEPT ![i] = "none"]
             /\ receipt' \in {receipt, [receipt EXCEPT !.decided = TRUE]}
    BY <1>3, <2>1, <2>3
  <2> QED BY <1>6, <2>2, <2>3 DEF Told
<1> QED BY <1>4, <1>5, <1>6

LEMMA ReceiptStep ==
    ASSUME StoreInv, ChainsApart, ReceiptTells, [ReceiptNext]_<<vars, receiptVars>>
    PROVE  ChainsApart' /\ ReceiptTells'
<1>1. TypeOK /\ [StoreNext]_vars
  BY ReceiptStores DEF StoreInv, StoreBase, vars, receiptVars
<1>2. RowsStay
  BY <1>1, IntakeStep, RowsOnlyGrow DEF StoreInv, StoreBase
<1>3. CASE UNCHANGED receiptVars
  BY <1>2, <1>3, RowsUnderReceipt
<1>4. CASE Hide
  BY <1>2, <1>4, BlankReceipt DEF Hide
<1>5. CASE Restart
  BY <1>2, <1>5, BlankReceipt DEF Restart
<1>6. ASSUME NEW w \in Workers, Answer(w), worker[w].reply \in {"created", "duplicate"},
             Draw(worker[w].row)
      PROVE  ChainsApart' /\ ReceiptTells'
  <2>1. worker[w].row \in RowIds
    BY <1>6 DEF StoreInv, StoreBase, KeyInv, OneRowPerKey
  <2>2. rows' = rows
    BY <1>6 DEF Answer, Finish
  <2> QED BY <1>1, <1>6, <2>1, <2>2, DrawApart
<1>7. CASE (\E i \in RowIds : Fire(i) \/ ServeStatus(i) \/ Told(i)) /\ UNCHANGED vars
  BY <1>1, <1>7, ChainStep
<1>8. CASE UNCHANGED <<vars, receiptVars>>
  BY <1>3, <1>8
<1>9. CASE ReceiptNext
  BY <1>3, <1>4, <1>5, <1>6, <1>7, <1>9 DEF ReceiptNext, receiptVars
<1> QED BY <1>8, <1>9

LEMMA ReceiptStart == ASSUME ReceiptInit PROVE ReceiptInv
<1>1. StoreInv
  BY StoreInvInit DEF ReceiptInit
<1>2. /\ receipt = Blank /\ chain \in ChainType
      /\ \A i \in 1..MaxRows : chain[i] = "none"
  BY DEF ReceiptInit, ChainType
<1>3. ChainsApart
  BY <1>2 DEF ChainsApart, Blank
<1>4. ReceiptTells
  BY <1>2 DEF ReceiptTells, Blank
<1> QED BY <1>1, <1>3, <1>4 DEF ReceiptInv

\* The inductive invariant: the pollings that are alive, and what they may tell.
THEOREM ReceiptInvariant == ReceiptSpec => []ReceiptInv
<1>1. ReceiptInit => ReceiptInv
  BY ReceiptStart
<1>2. ReceiptInv /\ [ReceiptNext]_<<vars, receiptVars>> => ReceiptInv'
  <2>1. ASSUME ReceiptInv, [ReceiptNext]_<<vars, receiptVars>> PROVE ReceiptInv'
    <3>1. [StoreNext]_vars
      BY <2>1, ReceiptStores DEF vars, receiptVars
    <3>2. StoreInv'
      BY <2>1, <3>1, StoreInvStep DEF ReceiptInv
    <3>3. ChainsApart' /\ ReceiptTells'
      BY <2>1, ReceiptStep DEF ReceiptInv
    <3> QED BY <3>2, <3>3 DEF ReceiptInv
  <2> QED BY <2>1
<1> QED BY <1>1, <1>2, PTL DEF ReceiptSpec

\* A receipt that says that its order was decided is right, for any number of orders
\* one after the other: startOrderStatusPolling has cleared the timer of the one
\* before, unless that one was just asking.
THEOREM ReceiptTellsAlways == ReceiptSpec => []ReceiptTells
<1>1. ReceiptInv => ReceiptTells
  BY DEF ReceiptInv
<1> QED BY <1>1, ReceiptInvariant, PTL

\* The receipt is drawn on top of the storefront: what is proved of StoreSpec holds of
\* ReceiptSpec.
THEOREM ReceiptImplementsStore == ReceiptSpec => StoreSpec
<1>1. ReceiptInit => StoreInit
  BY DEF ReceiptInit
<1>2. [ReceiptNext]_<<vars, receiptVars>> => [StoreNext]_vars
  BY ReceiptStores DEF vars, receiptVars
<1> QED BY <1>1, <1>2, PTL DEF ReceiptSpec, StoreSpec

-----------------------------------------------------------------------------
(* The dialogs: the inductive invariant.                                   *)

\* What can be open together: one of modal, sort sheet and cart, and the popup
\* over the cart; a modal that fades out has its timer.
Layers ==
    /\ "table" \in open => "cart" \in open
    /\ ~("cart" \in Shown /\ "sort" \in Shown)
    /\ "modal" \in Shown => "cart" \notin Shown /\ "sort" \notin Shown
    /\ timer = closing
    /\ closing => "modal" \in open

\* One traversal at most is under way, and it has an entry to go back to.
OneTraversal == ~forward /\ ~doubled => pending <= 1 /\ (pending = 1 => at >= 1)

DialogsInv ==
    MaxHistory \in Nat /\ DialogsTypeOK /\ Layers /\ LocksMatch /\ EntriesMatch /\ OneTraversal

LEMMA Bound == DialogsInv => MaxHistory \in Nat
  BY DEF DialogsInv

LEMMA InitHolds ==
    ASSUME MaxHistory \in Nat, DialogsInit
    PROVE  DialogsInv
<1>1. at = 0 /\ last = 0 /\ open = {} /\ closing = FALSE  BY DEF DialogsInit
<1>2. trail \in [0..MaxHistory -> Dialogs \cup {"none"}]  BY DEF DialogsInit
<1>3. DialogsTypeOK
  <2>1. at \in 0..MaxHistory /\ last \in 0..MaxHistory /\ at <= last  BY <1>1
  <2>2. /\ closing \in BOOLEAN /\ timer \in BOOLEAN
        /\ left \in BOOLEAN /\ forward \in BOOLEAN /\ doubled \in BOOLEAN
    BY Zenon DEF DialogsInit
  <2>3. picked \in Nat /\ locks \in Nat /\ pending \in Nat  BY DEF DialogsInit
  <2> QED  BY <1>1, <1>2, <2>1, <2>2, <2>3 DEF DialogsTypeOK
<1>4. Shown = {}  BY <1>1 DEF Shown
<1>5. Top = "none"  BY <1>4 DEF Top
<1>6. Layers  BY <1>1, <1>4, Zenon DEF DialogsInit, Layers
<1>8. LocksMatch  BY <1>1 DEF DialogsInit, LocksMatch
<1>7. EntriesMatch /\ OneTraversal
  BY <1>1, <1>5 DEF DialogsInit, EntriesMatch, Depth, OneTraversal
<1> QED  BY <1>3, <1>6, <1>7, <1>8 DEF DialogsInv

LEMMA Pushed ==
    ASSUME MaxHistory \in Nat, DialogsTypeOK, NEW d \in Dialogs \cup {"none"}, Push(d)
    PROVE  /\ at' = at + 1 /\ at' \in 1..MaxHistory /\ last' = at' /\ trail'[at'] = d
           /\ \A n \in 0..at : trail'[n] = trail[n]
           /\ trail' \in [0..MaxHistory -> Dialogs \cup {"none"}]
           /\ UNCHANGED <<pending, left, forward, doubled>>
<1>1. at + 1 \in 0..MaxHistory  BY DEF Push, DialogsTypeOK
<1> QED  BY <1>1 DEF Push, DialogsTypeOK

\* The entries when a dialog has come on top of what was shown.
LEMMA EntryAdded ==
    ASSUME DialogsInv, Top' # "none", Push(Top'),
           (Top = "none" /\ Top' # "table") \/ (Top = "cart" /\ Top' = "table")
    PROVE  EntriesMatch'
<1> DEFINE d == Top'
<1>1. d \in Dialogs  BY DEF Top, Dialogs
<1>2. /\ at' = at + 1 /\ trail'[at'] = d /\ forward' = forward
      /\ \A n \in 0..at : trail'[n] = trail[n]
  BY <1>1, Pushed DEF DialogsInv
<1>3. Depth' = Depth + 1 /\ Depth \in 0..1 /\ (Depth = 1 => Top = "cart")  BY DEF Depth
<1>4. at \in Nat  BY Bound DEF DialogsInv, DialogsTypeOK
<1>5. SUFFICES ASSUME ~forward
      PROVE  /\ at' >= Depth'
             /\ \A n \in 1..at' :
                  trail'[n] = IF n <= at' - Depth' THEN "none" ELSE IF n = at' THEN d ELSE "cart"
  BY <1>2 DEF EntriesMatch
<1>6. at >= Depth  BY <1>5 DEF DialogsInv, EntriesMatch
<1>7. ASSUME NEW n \in 1..at'
      PROVE  trail'[n] = IF n <= at' - Depth' THEN "none" ELSE IF n = at' THEN d ELSE "cart"
  <2>1. CASE n = at'  BY <1>2, <1>3, <1>4, <1>6, <2>1
  <2>2. CASE n # at'
    <3>1. n \in 1..at /\ trail'[n] = trail[n]  BY <1>2, <1>4, <2>2
    <3>2. trail[n] = IF n <= at - Depth THEN "none" ELSE IF n = at THEN Top ELSE "cart"
      BY <1>5, <3>1 DEF DialogsInv, EntriesMatch
    <3> QED  BY <1>2, <1>3, <1>4, <1>6, <2>2, <3>1, <3>2
  <2> QED  BY <2>1, <2>2
<1> QED  BY <1>2, <1>3, <1>4, <1>6, <1>7

LEMMA OpenModalKept == DialogsInv /\ OpenModal => DialogsInv'
<1> SUFFICES ASSUME DialogsInv, OpenModal PROVE DialogsInv'  OBVIOUS
<1>1. /\ at' = at + 1 /\ at' \in 1..MaxHistory /\ last' = at' /\ trail'[at'] = "modal"
      /\ trail' \in [0..MaxHistory -> Dialogs \cup {"none"}]
      /\ UNCHANGED <<pending, left, forward, doubled>>
  BY Pushed DEF DialogsInv, OpenModal, Dialogs
<1>2. /\ open' = open \cup {"modal"} /\ closing' = FALSE /\ timer' = FALSE /\ picked' = picked /\ locks' = locks
      /\ Top = "none" /\ "modal" \notin Shown /\ "cart" \notin open /\ "sort" \notin open
      /\ "table" \notin open
  BY DEF OpenModal, Inert, Top, Shown, DialogsInv, Layers, Dialogs
<1>3. DialogsTypeOK'
  <2>1. open' \subseteq Dialogs \cup {"nav"}  BY <1>2 DEF DialogsInv, DialogsTypeOK, Dialogs
  <2>2. at' \in 0..MaxHistory /\ last' \in 0..MaxHistory /\ at' <= last'  BY <1>1, Bound
  <2> QED  BY <1>1, <1>2, <2>1, <2>2 DEF DialogsInv, DialogsTypeOK
<1>4. "modal" \in Shown' /\ "cart" \notin open' /\ "sort" \notin open' /\ "table" \notin open' /\ Top' = "modal"
  BY <1>2 DEF Shown, Top, Dialogs
<1>5. Layers' /\ LocksMatch'  BY <1>2, <1>4 DEF DialogsInv, Layers, LocksMatch, Shown, Dialogs
<1>6. EntriesMatch'
  <2>1. Push(Top') /\ Top' # "none" /\ Top' # "table"  BY <1>4 DEF OpenModal, Push
  <2>2. Top = "none"  BY <1>2
  <2> QED  BY <2>1, <2>2, EntryAdded
<1>7. OneTraversal'  BY <1>1 DEF DialogsInv, OneTraversal, DialogsTypeOK
<1> QED  BY <1>3, <1>5, <1>6, <1>7 DEF DialogsInv

LEMMA OpenSheetKept ==
    ASSUME DialogsInv, NEW d \in {"sort", "cart"}, OpenSheet(d)
    PROVE  DialogsInv'
<1>1. /\ at' = at + 1 /\ at' \in 1..MaxHistory /\ last' = at' /\ trail'[at'] = d
      /\ trail' \in [0..MaxHistory -> Dialogs \cup {"none"}]
      /\ UNCHANGED <<pending, left, forward, doubled>>
  BY Pushed DEF DialogsInv, OpenSheet, Dialogs
<1>2. /\ open' = open \cup {d} /\ closing' = closing /\ timer' = timer /\ picked' = picked
      /\ locks' = locks + 1 /\ Top = "none"
  BY DEF OpenSheet, Inert, Locked
<1>3. "modal" \notin Shown /\ "cart" \notin open /\ "sort" \notin open /\ "table" \notin open
  BY <1>2 DEF Top, Shown, DialogsInv, Layers, Dialogs
<1>4. DialogsTypeOK'
  <2>1. open' \subseteq Dialogs \cup {"nav"}  BY <1>2 DEF DialogsInv, DialogsTypeOK, Dialogs
  <2>2. at' \in 0..MaxHistory /\ last' \in 0..MaxHistory /\ at' <= last'  BY <1>1, Bound
  <2>3. locks' \in Nat  BY <1>2 DEF DialogsInv, DialogsTypeOK
  <2> QED  BY <1>1, <1>2, <2>1, <2>2, <2>3 DEF DialogsInv, DialogsTypeOK
<1>5. Shown' = {d} /\ Top' = d  BY <1>2, <1>3 DEF Shown, Top, Dialogs
<1>6. Layers'  BY <1>2, <1>3, <1>5 DEF DialogsInv, Layers
<1>7. LocksMatch'
  <2>1. "nav" \in open' <=> "nav" \in open  BY <1>2
  <2>2. CASE d = "sort"  BY <1>2, <1>3, <2>1, <2>2 DEF DialogsInv, LocksMatch
  <2>3. CASE d = "cart"  BY <1>2, <1>3, <2>1, <2>3 DEF DialogsInv, LocksMatch
  <2> QED  BY <2>2, <2>3
<1>8. EntriesMatch'
  <2>1. Push(Top') /\ Top' # "none" /\ Top' # "table"  BY <1>5 DEF OpenSheet, Push
  <2>2. Top = "none"  BY <1>2
  <2> QED  BY <2>1, <2>2, EntryAdded
<1>9. OneTraversal'  BY <1>1 DEF DialogsInv, OneTraversal, DialogsTypeOK
<1> QED  BY <1>4, <1>6, <1>7, <1>8, <1>9 DEF DialogsInv

LEMMA OpenTableKept == DialogsInv /\ OpenTable => DialogsInv'
<1> SUFFICES ASSUME DialogsInv, OpenTable PROVE DialogsInv'  OBVIOUS
<1>1. /\ at' = at + 1 /\ at' \in 1..MaxHistory /\ last' = at' /\ trail'[at'] = "table"
      /\ \A n \in 0..at : trail'[n] = trail[n]
      /\ trail' \in [0..MaxHistory -> Dialogs \cup {"none"}]
      /\ UNCHANGED <<pending, left, forward, doubled>>
  BY Pushed DEF DialogsInv, OpenTable, Dialogs
<1>2. /\ open' = open \cup {"table"} /\ closing' = closing /\ timer' = timer /\ picked' = picked
      /\ locks' = locks /\ Top = "cart"
  BY DEF OpenTable
<1>3. "table" \notin open /\ "cart" \in open /\ "cart" \in Shown /\ "modal" \notin Shown /\ "sort" \notin Shown
  BY <1>2 DEF Top, Shown, DialogsInv, Layers, Dialogs
<1>4. DialogsTypeOK'
  <2>1. open' \subseteq Dialogs \cup {"nav"}  BY <1>2 DEF DialogsInv, DialogsTypeOK, Dialogs
  <2>2. at' \in 0..MaxHistory /\ last' \in 0..MaxHistory /\ at' <= last'  BY <1>1, Bound
  <2> QED  BY <1>1, <1>2, <2>1, <2>2 DEF DialogsInv, DialogsTypeOK
<1>5. Shown' = Shown \cup {"table"}  BY <1>2 DEF Shown, Dialogs
<1>6. Top' = "table"  BY <1>5 DEF Top
<1>7. Layers'  BY <1>2, <1>3, <1>5 DEF DialogsInv, Layers
<1>8. LocksMatch'
  <2>1. \A e \in {"nav", "sort", "cart"} : e \in open' <=> e \in open  BY <1>2
  <2> QED  BY <1>2, <2>1 DEF DialogsInv, LocksMatch
<1>9. EntriesMatch'
  <2>1. Push(Top') /\ Top' = "table"  BY <1>6 DEF OpenTable, Push
  <2> QED  BY <1>2, <2>1, EntryAdded
<1>10. OneTraversal'  BY <1>1 DEF DialogsInv, OneTraversal, DialogsTypeOK
<1> QED  BY <1>4, <1>7, <1>8, <1>9, <1>10 DEF DialogsInv

\* A step that leaves the dialogs and their classes alone.
LEMMA SameDialogs ==
    ASSUME UNCHANGED <<open, closing>>
    PROVE  Shown' = Shown /\ Top' = Top /\ Depth' = Depth
  BY DEF Shown, Top, Depth

LEMMA ToggleNavKept == DialogsInv /\ ToggleNav => DialogsInv'
<1> SUFFICES ASSUME DialogsInv, ToggleNav PROVE DialogsInv'  OBVIOUS
<1>1. /\ \A e \in Dialogs : e \in open' <=> e \in open
      /\ open' \subseteq Dialogs \cup {"nav"}
      /\ UNCHANGED <<closing, timer, picked, historyVars>>
  BY DEF ToggleNav, DialogsInv, DialogsTypeOK, Dialogs
<1>2. locks' \in Nat /\ LocksMatch'
  <2>1. CASE "nav" \in open
    <3>1. open' = open \ {"nav"} /\ locks' = IF locks > 0 THEN locks - 1 ELSE 0
      BY <2>1 DEF ToggleNav, Unlocked
    <3> QED  BY <2>1, <3>1 DEF DialogsInv, DialogsTypeOK, LocksMatch
  <2>2. CASE "nav" \notin open
    <3>1. open' = open \cup {"nav"} /\ locks' = locks + 1  BY <2>2 DEF ToggleNav, Locked
    <3> QED  BY <2>2, <3>1 DEF DialogsInv, DialogsTypeOK, LocksMatch
  <2> QED  BY <2>1, <2>2
<1>3. DialogsTypeOK'  BY <1>1, <1>2 DEF DialogsInv, DialogsTypeOK, historyVars
<1>4. Shown' = Shown
  BY <1>1 DEF Shown, Dialogs
<1>5. Top' = Top  BY <1>4 DEF Top
<1>6. Layers'  BY <1>1, <1>4 DEF DialogsInv, Layers, Dialogs
<1>7. EntriesMatch' /\ OneTraversal'
  BY <1>1, <1>5 DEF DialogsInv, EntriesMatch, Depth, OneTraversal, historyVars
<1> QED  BY <1>2, <1>3, <1>6, <1>7 DEF DialogsInv

LEMMA FollowLinkKept == DialogsInv /\ FollowLink => DialogsInv'
<1> SUFFICES ASSUME DialogsInv, FollowLink PROVE DialogsInv'  OBVIOUS
<1>1. /\ \A e \in Dialogs : e \in open' <=> e \in open
      /\ open' \subseteq Dialogs \cup {"nav"}
      /\ UNCHANGED <<closing, timer, picked, pending, left, forward, doubled>>
      /\ Top = "none"
  BY DEF FollowLink, Push, Inert, DialogsInv, DialogsTypeOK, Dialogs
<1>2. locks' \in Nat /\ LocksMatch'
  <2>1. CASE UNCHANGED <<open, locks>>
    BY <2>1 DEF DialogsInv, DialogsTypeOK, LocksMatch
  <2>2. CASE "nav" \in open /\ open' = open \ {"nav"} /\ locks' = Unlocked
    BY <2>2 DEF DialogsInv, DialogsTypeOK, LocksMatch, Unlocked
  <2> QED  BY <2>1, <2>2 DEF FollowLink
<1>3. Shown' = Shown  BY <1>1 DEF Shown, Dialogs
<1>4. Top' = "none" /\ Depth = 0 /\ Depth' = 0  BY <1>1, <1>3 DEF Top, Depth
<1>5. Layers'  BY <1>1, <1>3 DEF DialogsInv, Layers, Dialogs
<1>6. at \in Nat /\ at \in 0..MaxHistory  BY Bound DEF DialogsInv, DialogsTypeOK
<1>7. ~forward => \A n \in 1..at : trail[n] = "none"
  BY <1>4, <1>6 DEF DialogsInv, EntriesMatch
<1>8. /\ at' \in 0..MaxHistory /\ last' \in 0..MaxHistory /\ at <= at' /\ at' <= last'
      /\ trail' \in [0..MaxHistory -> Dialogs \cup {"none"}]
      /\ ~forward => \A n \in 1..at' : trail'[n] = "none"
  <2>1. CASE Push("none")
    <3>1. /\ at' = at + 1 /\ at' \in 1..MaxHistory /\ last' = at' /\ trail'[at'] = "none"
          /\ \A n \in 0..at : trail'[n] = trail[n]
          /\ trail' \in [0..MaxHistory -> Dialogs \cup {"none"}]
      BY <2>1, Pushed, Bound DEF DialogsInv
    <3>2. ASSUME ~forward, NEW n \in 1..at' PROVE trail'[n] = "none"
      <4>1. CASE n = at'  BY <3>1, <4>1
      <4>2. CASE n # at'
        <5>1. n \in 1..at /\ n \in 0..at  BY <1>6, <3>1, <4>2
        <5> QED  BY <1>7, <3>1, <3>2, <5>1
      <4> QED  BY <4>1, <4>2
    <3> QED  BY <1>6, <3>1, <3>2, Bound
  <2>2. CASE trail' = [trail EXCEPT ![at] = "none"] /\ UNCHANGED <<at, last>>
    BY <1>6, <1>7, <2>2 DEF DialogsInv, DialogsTypeOK
  <2> QED  BY <2>1, <2>2 DEF FollowLink
<1>9. DialogsTypeOK'  BY <1>1, <1>2, <1>8 DEF DialogsInv, DialogsTypeOK
<1>10. EntriesMatch'
  <2>1. PICK k \in Nat : k = at'
    <3>1. MaxHistory \in Nat /\ at' \in 0..MaxHistory  BY <1>8, Bound
    <3> QED  BY <3>1
  <2>2. k >= 0 /\ \A n \in 1..k : n <= k - 0  OBVIOUS
  <2>3. ~forward' => \A n \in 1..at' : trail'[n] = "none"  BY <1>1, <1>8
  <2> QED  BY <1>4, <2>1, <2>2, <2>3 DEF EntriesMatch
<1>11. OneTraversal'  BY <1>1, <1>6, <1>8 DEF DialogsInv, OneTraversal
<1> QED  BY <1>2, <1>5, <1>9, <1>10, <1>11 DEF DialogsInv

-----------------------------------------------------------------------------
(* Closing.                                                                *)

\* What is closed disappears from what is shown, and its lock with it.
LEMMA ClosedNow ==
    ASSUME DialogsTypeOK, Layers, LocksMatch, NEW d \in Dialogs, d = Top \/ d \notin Shown, CloseNow(d)
    PROVE  /\ Shown' = Shown \ {d} /\ open' \subseteq open
           /\ closing' \in BOOLEAN /\ timer' \in BOOLEAN /\ locks' \in Nat
           /\ Layers' /\ LocksMatch'
<1>1. /\ d = "modal" => open' = open
      /\ d # "modal" => open' = open \ {d}
  BY DEF CloseNow
<1>2. /\ d = "modal" /\ d \in Shown => closing' = TRUE /\ timer' = TRUE
      /\ ~(d = "modal" /\ d \in Shown) => closing' = closing /\ timer' = timer
  BY DEF CloseNow
<1>3. closing' \in BOOLEAN /\ timer' \in BOOLEAN  BY <1>2 DEF DialogsTypeOK
<1>4. Shown' = Shown \ {d}
  <2>1. CASE d = "modal"
    <3>1. CASE d \in Shown  BY <1>1, <1>2, <2>1, <3>1 DEF Shown
    <3>2. CASE d \notin Shown  BY <1>1, <1>2, <2>1, <3>2 DEF Shown
    <3> QED  BY <3>1, <3>2
  <2>2. CASE d # "modal"  BY <1>1, <1>2, <2>2 DEF Shown
  <2> QED  BY <2>1, <2>2
<1>5. LocksMatch' /\ locks' \in Nat
  <2>1. CASE d \in open \cap {"sort", "cart"}
    <3>1. locks' = IF locks > 0 THEN locks - 1 ELSE 0  BY <2>1 DEF CloseNow, Unlocked
    <3>2. open' = open \ {d}  BY <1>1, <2>1
    <3>3. CASE d = "sort"  BY <2>1, <3>1, <3>2, <3>3 DEF DialogsTypeOK, LocksMatch
    <3>4. CASE d = "cart"  BY <2>1, <3>1, <3>2, <3>4 DEF DialogsTypeOK, LocksMatch
    <3> QED  BY <2>1, <3>3, <3>4
  <2>2. CASE d \notin open \cap {"sort", "cart"}
    <3>1. locks' = locks  BY <2>2 DEF CloseNow
    <3>2. \A e \in {"nav", "sort", "cart"} : e \in open' <=> e \in open
      BY <1>1, <2>2 DEF Dialogs
    <3> QED  BY <3>1, <3>2 DEF DialogsTypeOK, LocksMatch
  <2> QED  BY <2>1, <2>2
<1>6. "table" \in open' => "cart" \in open'
  <2>1. "table" \in open /\ d # "table" => d # "cart"
    BY DEF Top, Shown, Layers, Dialogs
  <2> QED  BY <1>1, <2>1 DEF Layers
<1>7. timer' = closing' /\ (closing' => "modal" \in open')
  <2>1. CASE d = "modal" /\ d \in Shown
    <3>1. "modal" \in open'  BY <1>1, <2>1 DEF Shown
    <3> QED  BY <1>2, <2>1, <3>1
  <2>2. CASE ~(d = "modal" /\ d \in Shown)
    <3>1. closing' = closing /\ timer' = timer  BY <1>2, <2>2
    <3>2. "modal" \in open => "modal" \in open'  BY <1>1
    <3> QED  BY <3>1, <3>2 DEF Layers
  <2> QED  BY <2>1, <2>2
<1>8. Layers'  BY <1>4, <1>6, <1>7 DEF Layers
<1> QED  BY <1>1, <1>3, <1>4, <1>5, <1>8

LEMMA TopShown == Layers => (Top # "none" => Top \in Shown /\ Top \in Dialogs)
  BY DEF Top, Shown, Dialogs

\* The current entry is that of the dialog on top.
LEMMA TopEntry ==
    ASSUME DialogsInv, ~forward, Top # "none"
    PROVE  at >= 1 /\ trail[at] = Top
<1>1. Depth \in 1..2 /\ at \in Nat  BY Bound DEF Depth, DialogsInv, DialogsTypeOK
<1>2. at >= Depth  BY DEF DialogsInv, EntriesMatch
<1>3. at \in 1..at /\ ~(at <= at - Depth)  BY <1>1, <1>2
<1> QED  BY <1>3 DEF DialogsInv, EntriesMatch

LEMMA RequestKept ==
    ASSUME DialogsInv, NEW d \in Dialogs, d = Top \/ d \notin Shown, RequestClose(d),
           picked' \in Nat
    PROVE  DialogsInv'
<1>1. CASE trail[at] = d
  <2>1. /\ pending' = pending + 1 /\ doubled' = (doubled \/ pending > 0 \/ d \notin Shown)
        /\ UNCHANGED <<open, closing, timer, locks, trail, at, last, left, forward>>
    BY <1>1 DEF RequestClose
  <2>2. pending' \in Nat /\ doubled' \in BOOLEAN  BY <2>1 DEF DialogsInv, DialogsTypeOK
  <2>3. DialogsTypeOK'  BY <2>1, <2>2 DEF DialogsInv, DialogsTypeOK
  <2>4. Layers' /\ LocksMatch' /\ EntriesMatch'
    BY <2>1, SameDialogs DEF DialogsInv, Layers, LocksMatch, EntriesMatch
  <2>5. ~forward /\ ~doubled' => pending = 0 /\ at >= 1
    <3>1. ~doubled' => ~(pending > 0) /\ d \in Shown  BY <2>1, Zenon
    <3>2. d \in Shown => Top # "none"  BY DEF Top, Dialogs
    <3>3. ~forward /\ Top # "none" => at >= 1
      BY Bound DEF DialogsInv, DialogsTypeOK, EntriesMatch, Depth
    <3>4. ~(pending > 0) => pending = 0  BY DEF DialogsInv, DialogsTypeOK
    <3> QED  BY <3>1, <3>2, <3>3, <3>4
  <2>6. OneTraversal'  BY <2>1, <2>5 DEF OneTraversal
  <2> QED  BY <2>3, <2>4, <2>6 DEF DialogsInv
<1>2. CASE trail[at] # d
  <2>1. CloseNow(d) /\ UNCHANGED historyVars  BY <1>2 DEF RequestClose
  <2>2. /\ Shown' = Shown \ {d} /\ open' \subseteq open
        /\ closing' \in BOOLEAN /\ timer' \in BOOLEAN /\ locks' \in Nat
        /\ Layers' /\ LocksMatch'
    BY <2>1, ClosedNow DEF DialogsInv
  <2>3. UNCHANGED <<trail, at, last, pending, left, forward, doubled>>
    BY <2>1 DEF historyVars
  <2>4. DialogsTypeOK'  BY <2>2, <2>3 DEF DialogsInv, DialogsTypeOK
  <2>5. ~forward => Top' = Top
    <3>1. ~forward => d \notin Shown
      BY <1>2, TopEntry, TopShown DEF DialogsInv, Dialogs
    <3>2. ~forward => Shown' = Shown  BY <2>2, <3>1
    <3> QED  BY <3>2 DEF Top
  <2>6. EntriesMatch' /\ OneTraversal'
    BY <2>2, <2>3, <2>5 DEF DialogsInv, EntriesMatch, Depth, OneTraversal
  <2> QED  BY <2>2, <2>4, <2>6 DEF DialogsInv
<1> QED  BY <1>1, <1>2

LEMMA ButtonsKept ==
    ASSUME DialogsInv, PressClose \/ Escape \/ ChooseTable \/ PickedTimer
    PROVE  DialogsInv'
<1>1. CASE PressClose
  BY <1>1, RequestKept, TopShown DEF PressClose, Inert, DialogsInv, DialogsTypeOK
<1>2. CASE Escape
  <2>1. picked' \in Nat  BY <1>2 DEF Escape, DialogsInv, DialogsTypeOK
  <2>2. CASE Inert /\ RequestClose(Top)
    BY <2>1, <2>2, RequestKept, TopShown DEF Inert, DialogsInv
  <2>3. CASE ~Inert /\ RequestClose("modal")
    <3>1. "modal" \notin Shown /\ "modal" \in Dialogs  BY <2>3 DEF Inert, Top, Dialogs
    <3> QED  BY <2>1, <2>3, <3>1, RequestKept
  <2> QED  BY <1>2, <2>2, <2>3 DEF Escape
<1>3. CASE ChooseTable
  <2>1. picked' \in Nat /\ UNCHANGED <<open, closing, timer, locks, historyVars>>
    BY <1>3 DEF ChooseTable, DialogsInv, DialogsTypeOK
  <2>2. DialogsTypeOK'  BY <2>1 DEF DialogsInv, DialogsTypeOK, historyVars
  <2> QED
    BY <2>1, <2>2, SameDialogs
    DEF DialogsInv, Layers, LocksMatch, EntriesMatch, OneTraversal, historyVars
<1>4. CASE PickedTimer
  <2>1. picked' \in Nat /\ RequestClose("table")
    BY <1>4 DEF PickedTimer, DialogsInv, DialogsTypeOK
  <2>2. "table" \in Dialogs /\ (Top = "table" \/ "table" \notin Shown)  BY DEF Top, Dialogs
  <2> QED  BY <2>1, <2>2, RequestKept
<1> QED  BY <1>1, <1>2, <1>3, <1>4

LEMMA FadedOutKept == DialogsInv /\ FadedOut => DialogsInv'
<1> SUFFICES ASSUME DialogsInv, FadedOut PROVE DialogsInv'  OBVIOUS
<1>1. /\ open' = open \ {"modal"} /\ closing' = FALSE /\ timer' = FALSE /\ closing = TRUE
      /\ UNCHANGED <<picked, locks, historyVars>>
  BY DEF FadedOut, DialogsInv, Layers, DialogsTypeOK
<1>2. Shown' = Shown  BY <1>1 DEF Shown, Dialogs
<1>3. Top' = Top  BY <1>2 DEF Top
<1>4. DialogsTypeOK'  BY <1>1 DEF DialogsInv, DialogsTypeOK, historyVars
<1>5. Layers'  BY <1>1, <1>2 DEF DialogsInv, Layers
<1>6. LocksMatch'
  <2>1. \A e \in {"nav", "sort", "cart"} : e \in open' <=> e \in open  BY <1>1
  <2> QED  BY <1>1, <2>1 DEF DialogsInv, LocksMatch
<1>7. EntriesMatch' /\ OneTraversal'
  BY <1>1, <1>3 DEF DialogsInv, EntriesMatch, Depth, OneTraversal, historyVars
<1> QED  BY <1>4, <1>5, <1>6, <1>7 DEF DialogsInv

-----------------------------------------------------------------------------
(* The browser's history.                                                  *)

\* The popup alone, or everything, is taken from what is shown.
LEMMA Popped ==
    ASSUME DialogsTypeOK, Layers, LocksMatch, PopState
    PROVE  /\ Shown' = IF Top = "table" THEN Shown \ {"table"} ELSE {}
           /\ open' \subseteq open /\ (Top = "table" => "cart" \in open')
           /\ closing' \in BOOLEAN /\ timer' \in BOOLEAN /\ locks' \in Nat
           /\ Layers' /\ LocksMatch'
<1>1. CASE "table" \in open
  <2>1. CloseNow("table") /\ Top = "table" /\ "table" \in Dialogs
    BY <1>1 DEF PopState, Top, Shown, Dialogs
  <2>2. open' = open \ {"table"}  BY <2>1 DEF CloseNow
  <2> QED  BY <1>1, <2>1, <2>2, ClosedNow DEF Layers
<1>2. CASE "table" \notin open
  <2>1. Top # "table"  BY <1>2 DEF Top, Shown
  <2>2. /\ open' = open \ {"cart", "sort"}
        /\ "modal" \in Shown => closing' = TRUE /\ timer' = TRUE
        /\ "modal" \notin Shown => closing' = closing /\ timer' = timer
        /\ locks' = IF {"cart", "sort"} \subseteq open THEN IF locks > 1 THEN locks - 2 ELSE 0
                    ELSE IF {"cart", "sort"} \cap open # {} THEN Unlocked ELSE locks
    BY <1>2 DEF PopState
  <2>3. closing' \in BOOLEAN /\ timer' \in BOOLEAN  BY <2>2 DEF DialogsTypeOK
  <2>4. "table" \notin Shown' /\ "cart" \notin Shown' /\ "sort" \notin Shown'
    BY <1>2, <2>2 DEF Shown
  <2>5. "modal" \notin Shown'
    <3>1. CASE "modal" \in Shown  BY <2>2, <3>1 DEF Shown
    <3>2. CASE "modal" \notin Shown  BY <2>2, <3>2 DEF Shown, Dialogs
    <3> QED  BY <3>1, <3>2
  <2>6. Shown' = {}  BY <2>4, <2>5 DEF Shown, Dialogs
  <2>7. ~("cart" \in open /\ "sort" \in open)  BY DEF Layers, Shown, Dialogs
  <2>8. LocksMatch' /\ locks' \in Nat
    <3>1. "nav" \in open' <=> "nav" \in open  BY <2>2
    <3>2. "cart" \notin open' /\ "sort" \notin open'  BY <2>2
    <3>3. CASE "cart" \in open \/ "sort" \in open
      <4>1. locks' = IF locks > 0 THEN locks - 1 ELSE 0  BY <2>2, <2>7, <3>3 DEF Unlocked
      <4> QED  BY <2>7, <3>1, <3>2, <3>3, <4>1 DEF LocksMatch, DialogsTypeOK
    <3>4. CASE "cart" \notin open /\ "sort" \notin open
      <4>1. locks' = locks  BY <2>2, <3>4
      <4> QED  BY <3>1, <3>2, <3>4, <4>1 DEF LocksMatch, DialogsTypeOK
    <3> QED  BY <3>3, <3>4
  <2>9. timer' = closing' /\ (closing' => "modal" \in open')
    <3>1. "modal" \in open' <=> "modal" \in open  BY <2>2
    <3>2. CASE "modal" \in Shown
      <4>1. "modal" \in open  BY <3>2 DEF Shown
      <4> QED  BY <2>2, <3>1, <3>2, <4>1
    <3>3. CASE "modal" \notin Shown  BY <2>2, <3>1, <3>3 DEF Layers
    <3> QED  BY <3>2, <3>3
  <2>10. Layers'  BY <1>2, <2>2, <2>6, <2>9 DEF Layers
  <2> QED  BY <2>1, <2>2, <2>3, <2>6, <2>8, <2>10
<1> QED  BY <1>1, <1>2

LEMMA TopEmpty == Shown = {} => Top = "none"
  BY DEF Top

\* Popping leaves nothing, or the cart that was under the popup.
LEMMA PoppedTop ==
    ASSUME DialogsTypeOK, Layers, LocksMatch, PopState
    PROVE  Top' = IF Top = "table" THEN "cart" ELSE "none"
<1>1. /\ Shown' = IF Top = "table" THEN Shown \ {"table"} ELSE {}
      /\ Top = "table" => "cart" \in open'
  BY Popped
<1>2. CASE Top = "table"  BY <1>1, <1>2 DEF Top, Shown, Dialogs
<1>3. CASE Top # "table"  BY <1>1, <1>3 DEF Top
<1> QED  BY <1>2, <1>3

\* One entry back, whoever asks for it, what is asked for and doubled left open.
LEMMA BackKept ==
    ASSUME DialogsInv, Back, pending' \in Nat, doubled' \in BOOLEAN, picked' \in Nat
    PROVE  /\ DialogsTypeOK' /\ Layers' /\ LocksMatch' /\ EntriesMatch'
           /\ at > 0 => at' = at - 1
<1>1. UNCHANGED <<trail, last, forward>>  BY DEF Back
<1>2. CASE at > 0
  <2>1. PopState /\ at' = at - 1 /\ left' = left  BY <1>2 DEF Back
  <2>2. /\ Shown' = IF Top = "table" THEN Shown \ {"table"} ELSE {}
        /\ open' \subseteq open
        /\ closing' \in BOOLEAN /\ timer' \in BOOLEAN /\ locks' \in Nat
        /\ Layers' /\ LocksMatch'
        /\ Top' = IF Top = "table" THEN "cart" ELSE "none"
    BY <2>1, Popped, PoppedTop DEF DialogsInv
  <2>3. at' \in 0..MaxHistory /\ at' <= last'
    BY <1>1, <1>2, <2>1, Bound DEF DialogsInv, DialogsTypeOK
  <2>4. DialogsTypeOK'
    BY <1>1, <2>1, <2>2, <2>3 DEF DialogsInv, DialogsTypeOK
  <2>5. EntriesMatch'
    <3>1. at \in Nat /\ Depth' = (IF Depth = 0 THEN 0 ELSE Depth - 1) /\ Depth \in 0..2
      BY <2>2, Bound DEF Depth, DialogsInv, DialogsTypeOK
    <3>2. (Depth = 2 => Top' = "cart") /\ (Depth < 2 => Depth' = 0)  BY <2>2 DEF Depth
    <3>3. SUFFICES ASSUME ~forward
          PROVE  /\ at' >= Depth'
                 /\ \A n \in 1..at' :
                      trail[n] = IF n <= at' - Depth' THEN "none" ELSE IF n = at' THEN Top' ELSE "cart"
      BY <1>1 DEF EntriesMatch
    <3>4. /\ at >= Depth
          /\ \A n \in 1..at :
               trail[n] = IF n <= at - Depth THEN "none" ELSE IF n = at THEN Top ELSE "cart"
      BY <3>3 DEF DialogsInv, EntriesMatch
    <3>5. at' >= Depth'  BY <1>2, <2>1, <3>1, <3>4
    <3>6. ASSUME NEW n \in 1..at'
          PROVE  trail[n] = IF n <= at' - Depth' THEN "none" ELSE IF n = at' THEN Top' ELSE "cart"
      <4>1. n \in 1..at /\ n # at /\ n <= at - 1  BY <2>1, <3>1
      <4>2. trail[n] = IF n <= at - Depth THEN "none" ELSE "cart"  BY <3>4, <4>1
      <4>3. CASE Depth = 2
        BY <2>1, <3>1, <3>2, <4>1, <4>2, <4>3
      <4>4. CASE Depth # 2
        <5>1. Depth' = 0 /\ n <= at - Depth /\ n <= at' - Depth'
          BY <2>1, <3>1, <3>2, <4>1, <4>4
        <5> QED  BY <4>2, <5>1
      <4> QED  BY <4>3, <4>4
    <3> QED  BY <3>5, <3>6
  <2> QED  BY <2>1, <2>2, <2>4, <2>5
<1>3. CASE ~(at > 0)
  <2>1. left' = TRUE /\ UNCHANGED <<open, closing, timer, locks, at>>  BY <1>3 DEF Back
  <2>2. DialogsTypeOK'  BY <1>1, <2>1 DEF DialogsInv, DialogsTypeOK
  <2> QED
    BY <1>1, <1>3, <2>1, <2>2, SameDialogs
    DEF DialogsInv, Layers, LocksMatch, EntriesMatch
<1> QED  BY <1>2, <1>3

LEMMA TraverseKept == DialogsInv /\ Traverse => DialogsInv'
<1> SUFFICES ASSUME DialogsInv, Traverse PROVE DialogsInv'  OBVIOUS
<1>1. /\ Back /\ UNCHANGED <<picked, doubled>>
      /\ pending \in Nat /\ pending > 0 /\ pending' = pending - 1
  BY DEF Traverse, DialogsInv, DialogsTypeOK
<1>2. pending' \in Nat /\ doubled' \in BOOLEAN /\ picked' \in Nat
  BY <1>1 DEF DialogsInv, DialogsTypeOK
<1>3. DialogsTypeOK' /\ Layers' /\ LocksMatch' /\ EntriesMatch'
  BY <1>1, <1>2, BackKept
<1>4. OneTraversal'
  <2>1. forward' = forward /\ doubled' = doubled  BY <1>1 DEF Back
  <2>2. ~forward /\ ~doubled => pending <= 1  BY DEF DialogsInv, OneTraversal
  <2>3. ~forward /\ ~doubled => pending' = 0  BY <1>1, <2>2
  <2> QED  BY <2>1, <2>3 DEF OneTraversal
<1> QED  BY <1>3, <1>4 DEF DialogsInv

LEMMA PressBackKept == DialogsInv /\ PressBack => DialogsInv'
<1> SUFFICES ASSUME DialogsInv, PressBack PROVE DialogsInv'  OBVIOUS
<1>1. Back /\ UNCHANGED <<picked, pending>> /\ doubled' = (doubled \/ pending > 0)
  BY DEF PressBack
<1>2. pending' \in Nat /\ doubled' \in BOOLEAN /\ picked' \in Nat
  BY <1>1 DEF DialogsInv, DialogsTypeOK
<1>3. DialogsTypeOK' /\ Layers' /\ LocksMatch' /\ EntriesMatch'
  BY <1>1, <1>2, BackKept
<1>4. OneTraversal'
  <2>1. ~doubled' => ~(pending > 0)  BY <1>1, Zenon
  <2>2. ~(pending > 0) => pending' = 0  BY <1>1 DEF DialogsInv, DialogsTypeOK
  <2> QED  BY <2>1, <2>2 DEF OneTraversal
<1> QED  BY <1>3, <1>4 DEF DialogsInv

LEMMA PressForwardKept == DialogsInv /\ PressForward => DialogsInv'
<1> SUFFICES ASSUME DialogsInv, PressForward PROVE DialogsInv'  OBVIOUS
<1>1. /\ at < last /\ at' = at + 1 /\ PopState
      /\ forward' = (forward \/ Inert \/ trail[at + 1] # "none")
      /\ UNCHANGED <<picked, trail, last, pending, left, doubled>>
  BY DEF PressForward
<1>2. /\ open' \subseteq open /\ closing' \in BOOLEAN /\ timer' \in BOOLEAN /\ locks' \in Nat
      /\ Layers' /\ LocksMatch'
      /\ Top' = IF Top = "table" THEN "cart" ELSE "none"
  BY <1>1, Popped, PoppedTop DEF DialogsInv
<1>3. at' \in 0..MaxHistory /\ at' <= last'  BY <1>1, Bound DEF DialogsInv, DialogsTypeOK
<1>4. forward' \in BOOLEAN /\ (~forward' => ~forward /\ Top = "none" /\ trail[at + 1] = "none")
  BY <1>1, Zenon DEF Inert
<1>5. DialogsTypeOK'  BY <1>1, <1>2, <1>3, <1>4 DEF DialogsInv, DialogsTypeOK
<1>6. EntriesMatch'
  <2> SUFFICES ASSUME ~forward' PROVE EntriesMatch'  BY DEF EntriesMatch
  <2>1. Depth = 0 /\ Depth' = 0 /\ ~forward  BY <1>2, <1>4 DEF Depth
  <2>2. at \in Nat  BY Bound DEF DialogsInv, DialogsTypeOK
  <2>3. \A n \in 1..at : trail[n] = "none"  BY <2>1, <2>2 DEF DialogsInv, EntriesMatch
  <2>4. \A n \in 1..at' : trail'[n] = "none"  BY <1>1, <1>4, <2>2, <2>3
  <2>5. PICK k \in Nat : k = at'  BY <1>1, <2>2
  <2>6. k >= 0 /\ \A n \in 1..k : n <= k - 0  OBVIOUS
  <2> QED  BY <2>1, <2>4, <2>5, <2>6 DEF EntriesMatch
<1>7. OneTraversal'
  <2>1. at \in Nat  BY Bound DEF DialogsInv, DialogsTypeOK
  <2> QED  BY <1>1, <1>4, <2>1 DEF DialogsInv, OneTraversal
<1> QED  BY <1>2, <1>5, <1>6, <1>7 DEF DialogsInv

LEMMA NextKept == DialogsInv /\ [DialogsNext]_dialogVars => DialogsInv'
<1> SUFFICES ASSUME DialogsInv, [DialogsNext]_dialogVars PROVE DialogsInv'  OBVIOUS
<1>1. CASE OpenModal  BY <1>1, OpenModalKept
<1>2. CASE OpenTable  BY <1>2, OpenTableKept
<1>3. CASE ToggleNav \/ FollowLink  BY <1>3, ToggleNavKept, FollowLinkKept
<1>4. CASE \E d \in {"sort", "cart"} : OpenSheet(d)  BY <1>4, OpenSheetKept
<1>5. CASE PressClose \/ Escape \/ ChooseTable \/ PickedTimer  BY <1>5, ButtonsKept
<1>6. CASE FadedOut  BY <1>6, FadedOutKept
<1>7. CASE Traverse  BY <1>7, TraverseKept
<1>8. CASE PressBack  BY <1>8, PressBackKept
<1>9. CASE PressForward  BY <1>9, PressForwardKept
<1>10. CASE UNCHANGED dialogVars
  <2>1. UNCHANGED <<open, closing, timer, picked, locks, trail, at, last, pending,
                    left, forward, doubled>>
    BY <1>10 DEF dialogVars, historyVars
  <2> QED
    BY <2>1, SameDialogs
    DEF DialogsInv, DialogsTypeOK, Layers, LocksMatch, EntriesMatch, OneTraversal
<1> QED  BY <1>1, <1>2, <1>3, <1>4, <1>5, <1>6, <1>7, <1>8, <1>9, <1>10 DEF DialogsNext

\* The inductive invariant of the dialogs: which can be open together, and that one
\* traversal at most is under way (openModal, openCart, popstate).
THEOREM DialogsInvariant ==
    ASSUME MaxHistory \in Nat
    PROVE  DialogsSpec => []DialogsInv
<1>1. DialogsInit => DialogsInv  BY InitHolds
<1> QED  BY <1>1, NextKept, PTL DEF DialogsSpec

-----------------------------------------------------------------------------
(* Invariants.                                                             *)

\* The variables of the dialogs and the entries of the history are of their types
\* (public/js/script.js, the state of the modal, the sheets and the popup).
THEOREM DialogsTypeCorrect ==
    ASSUME MaxHistory \in Nat
    PROVE  DialogsSpec => []DialogsTypeOK
<1>1. DialogsInv => DialogsTypeOK  BY DEF DialogsInv
<1> QED  BY <1>1, DialogsInvariant, PTL

\* lockScroll and unlockScroll are called in pairs: whatever is opened and closed,
\* by buttons, by timers or by the history, scrollLockCount is the number of the
\* elements that hold a lock, and the page is never left locked or let go early.
THEOREM LocksMatchAlways ==
    ASSUME MaxHistory \in Nat
    PROVE  DialogsSpec => []LocksMatch
<1>1. DialogsInv => LocksMatch  BY DEF DialogsInv
<1> QED  BY <1>1, DialogsInvariant, PTL

\* Until Forward is pressed to a dialog's entry, the entries that name dialogs are
\* those of the dialogs shown, in their order, on top of all others of the page,
\* however many links have been followed: Back closes what the visitor sees, and
\* with nothing open never meets a dialog's entry but a reload's (pushState,
\* handleClose, popstate, the links of the header).
THEOREM EntriesMatchAlways ==
    ASSUME MaxHistory \in Nat
    PROVE  DialogsSpec => []EntriesMatch
<1>1. DialogsInv => EntriesMatch  BY DEF DialogsInv
<1> QED  BY <1>1, DialogsInvariant, PTL

-----------------------------------------------------------------------------
(* Steps.                                                                  *)

LEMMA RequestShown ==
    ASSUME DialogsInv, NEW d \in Dialogs, d = Top \/ d \notin Shown, RequestClose(d)
    PROVE  Shown \ {d} \subseteq Shown'
<1>1. CASE trail[at] = d
  <2>1. UNCHANGED <<open, closing>>  BY <1>1 DEF RequestClose
  <2> QED  BY <2>1, SameDialogs
<1>2. CASE trail[at] # d
  BY <1>2, ClosedNow DEF RequestClose, DialogsInv
<1> QED  BY <1>1, <1>2

\* Under the popup is the cart, and nothing else is covered.
LEMMA OneShown ==
    ASSUME Layers, Top # "table", NEW d \in Shown, NEW e \in Shown
    PROVE  d = e
  BY DEF Layers, Top, Shown, Dialogs

LEMMA OneAtATime ==
    ASSUME DialogsInv, DialogsNext, NEW d \in Shown, NEW e \in Shown, d \notin Shown', e \notin Shown'
    PROVE  d = e
<1>1. ~Inert => d = e
  BY DEF Inert, Top, Shown, Dialogs
<1>2. CASE OpenModal \/ ToggleNav \/ FollowLink \/ \E x \in {"sort", "cart"} : OpenSheet(x)
  BY <1>1, <1>2 DEF OpenModal, ToggleNav, FollowLink, OpenSheet
<1>3. CASE OpenTable
  <2>1. open' = open \cup {"table"} /\ closing' = closing  BY <1>3 DEF OpenTable
  <2> QED  BY <2>1 DEF Shown
<1>4. CASE PressClose \/ Escape
  <2>1. CASE Inert
    <3>1. RequestClose(Top) /\ Top \in Dialogs
      BY <1>4, <2>1, TopShown DEF PressClose, Escape, Inert, DialogsInv
    <3> QED  BY <3>1, RequestShown
  <2> QED  BY <1>1, <2>1
<1>5. CASE ChooseTable
  BY <1>5, SameDialogs DEF ChooseTable
<1>6. CASE PickedTimer
  <2>1. "table" \in Dialogs /\ (Top = "table" \/ "table" \notin Shown)  BY DEF Top, Dialogs
  <2> QED  BY <1>6, <2>1, RequestShown DEF PickedTimer
<1>7. CASE FadedOut
  <2>1. open' = open \ {"modal"} /\ closing' = FALSE /\ closing = TRUE
    BY <1>7 DEF FadedOut, DialogsInv, Layers, DialogsTypeOK
  <2> QED  BY <2>1 DEF Shown, Dialogs
<1>8. CASE PopState
  <2>1. CASE Top = "table"
    <3>1. Shown' = Shown \ {"table"}  BY <1>8, <2>1, Popped DEF DialogsInv
    <3> QED  BY <3>1
  <2>2. CASE Top # "table"  BY <2>2, OneShown DEF DialogsInv
  <2> QED  BY <2>1, <2>2
<1>9. CASE Back /\ ~PopState
  <2>1. UNCHANGED <<open, closing>>  BY <1>9 DEF Back
  <2> QED  BY <2>1, SameDialogs
<1> QED
  BY <1>2, <1>3, <1>4, <1>5, <1>6, <1>7, <1>8, <1>9 DEF DialogsNext, Traverse, PressBack, PressForward

\* No press, no timer and no popstate closes two dialogs: the popup goes and the
\* cart stays under it (the keydown and popstate listeners).
THEOREM OneLayerAlways ==
    ASSUME MaxHistory \in Nat
    PROVE  DialogsSpec => OneLayer
<1>1. DialogsInv /\ [DialogsNext]_dialogVars
      => [\A d, e \in Shown : d \notin Shown' /\ e \notin Shown' => d = e]_dialogVars
  BY OneAtATime
<1> QED  BY <1>1, DialogsInvariant, PTL DEF DialogsSpec, OneLayer

\* The timer of closeModal takes away no dialog that is shown: openModal has
\* cleared it when the modal is opened again within the 220 ms.
THEOREM FadesOnlyClosedAlways ==
    ASSUME MaxHistory \in Nat
    PROVE  DialogsSpec => FadesOnlyClosed
<1>1. DialogsInv /\ FadedOut => Shown' = Shown
  <2> SUFFICES ASSUME DialogsInv, FadedOut PROVE Shown' = Shown  OBVIOUS
  <2>1. open' = open \ {"modal"} /\ closing' = FALSE /\ closing = TRUE
    BY DEF FadedOut, DialogsInv, Layers, DialogsTypeOK
  <2> QED  BY <2>1 DEF Shown, Dialogs
<1>2. DialogsInv /\ [DialogsNext]_dialogVars => [\A d \in Shown : FadedOut => d \in Shown']_dialogVars
  BY <1>1
<1> QED  BY <1>2, DialogsInvariant, PTL DEF DialogsSpec, FadesOnlyClosed

\* A history.back() of the page always has an entry of the page to go back to, so
\* closing a dialog never leaves the page (handleClose, requestCloseSort,
\* requestCloseCart, handleTableClose).
THEOREM NotByItselfAlways ==
    ASSUME MaxHistory \in Nat
    PROVE  DialogsSpec => NotByItself
<1>1. DialogsInv /\ [DialogsNext]_dialogVars => [Traverse /\ ~forward /\ ~doubled => ~left']_dialogVars
  <2> SUFFICES ASSUME DialogsInv, DialogsNext, Traverse, ~forward, ~doubled PROVE ~left'  OBVIOUS
  <2>1. pending \in Nat /\ pending > 0  BY DEF Traverse, DialogsInv, DialogsTypeOK
  <2>2. at >= 1  BY <2>1 DEF DialogsInv, OneTraversal
  <2>3. at > 0  BY <2>2 DEF DialogsInv, DialogsTypeOK
  <2>4. left' = left  BY <2>3 DEF Traverse, Back
  <2> QED  BY <2>4 DEF DialogsNext
<1> QED  BY <1>1, DialogsInvariant, PTL DEF DialogsSpec, NotByItself
=============================================================================
