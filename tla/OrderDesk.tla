------------------------------ MODULE OrderDesk ------------------------------
(***************************************************************************)
(* The desk an order lies on between the moment its row is inserted and    *)
(* the moment an admin has decided it:                                     *)
(*   - notifyAdmins (handlers/orders.js) sends every admin a Telegram      *)
(*     message with the two buttons and stores the message ids;            *)
(*   - the cron trigger (index.js) looks for orders whose notification is  *)
(*     incomplete and runs notifyAdmins again;                             *)
(*   - resolveOrder (data/orders.js), called by a Telegram button or by    *)
(*     the web panel, decides the order and rewrites the stored messages.  *)
(*                                                                         *)
(* Every await of the code is a step of its own, so that senders and       *)
(* resolvers interleave wherever the event loop lets them. D1 and Telegram *)
(* calls may fail, with or without effect, and an invocation may be killed *)
(* between two steps; each such fault takes one unit of MaxFailures.       *)
(***************************************************************************)
EXTENDS Naturals, Sequences, FiniteSets

CONSTANTS
    Orders,         \* rows of the orders table
    Admins,         \* the chat ids of ADMIN_IDS
    Crons,          \* concurrent invocations of the scheduled handler
    Calls,          \* invocations of resolveOrder
    MaxFailures     \* bound on the number of faults in a behaviour

ASSUME DeskAssumption ==
    /\ IsFiniteSet(Admins)
    /\ Orders \cap Crons = {}
    /\ MaxFailures \in Nat

VARIABLES
    status,     \* status[o]: the column, "none" before the row exists
    age,        \* age[o]: "fresh" (< 1 min), "due" (1 min .. 2 h) or "expired"
    tg,         \* tg[o]: the columns tg_messages (entries) and tg_notified
    chat,       \* chat[a]: the order messages in a's chat; ids are positions
    job,        \* job[s]: the local variables of a running notifyAdmins
    queue,      \* queue[k]: the rows cron k selected and has not handled yet
    call,       \* call[c]: the local variables of a resolveOrder
    spent,      \* number of faults so far
    disturbed   \* history: orders that a fault or an overlap has touched

vars == <<status, age, tg, chat, job, queue, call, spent, disturbed>>

-----------------------------------------------------------------------------
Verdicts == {"confirmed", "rejected"}

\* notifyAdmins runs in the request that created the order (the sender named
\* by that order, kept alive by ctx.waitUntil) or in a cron invocation.
Senders == Orders \cup Crons

\* A stored list of {chatId, messageId}, at most one for each admin: 0 = none.
Entries == [Admins -> Nat]
NoEntries == [a \in Admins |-> 0]

Idle == [pc |-> "idle", order |-> 0, prev |-> NoEntries,
         todo |-> {}, fresh |-> NoEntries]

NotCalled == [pc |-> "idle", order |-> 0, verdict |-> "none",
              updated |-> FALSE, text |-> "none", todo |-> NoEntries]

Message(o, shown) == [order |-> o, shows |-> shown]

\* Sender s is inside notifyAdmins for order o.
Sending(s, o) == job[s].pc # "idle" /\ job[s].order = o

Decided(o) == status[o] \in Verdicts

Init ==
    /\ status = [o \in Orders |-> "none"]
    /\ age = [o \in Orders |-> "fresh"]
    /\ tg = [o \in Orders |-> [entries |-> NoEntries, notified |-> FALSE]]
    /\ chat = [a \in Admins |-> <<>>]
    /\ job = [s \in Senders |-> Idle]
    /\ queue = [k \in Crons |-> {}]
    /\ call = [c \in Calls |-> NotCalled]
    /\ spent = 0
    /\ disturbed = {}

-----------------------------------------------------------------------------
(* Faults.                                                                 *)

Works == UNCHANGED <<spent, disturbed>>

Fails(o) ==
    /\ spent < MaxFailures
    /\ spent' = spent + 1
    /\ disturbed' = disturbed \cup {o}

-----------------------------------------------------------------------------
(* The sender: notifyAdmins and the two places that run it.                *)

\* Start notifyAdmins for o on s. Two senders on one order is an overlap.
StartJob(s, o) ==
    /\ job' = [job EXCEPT ![s] = [Idle EXCEPT !.pc = "read", !.order = o]]
    /\ disturbed' = disturbed \cup {p \in {o} : \E r \in Senders : Sending(r, p)}

\* createOrder, then the notification handed to ctx.waitUntil.
Place(o) ==
    /\ status[o] = "none"
    /\ status' = [status EXCEPT ![o] = "pending"]
    /\ StartJob(o, o)
    /\ UNCHANGED <<age, tg, chat, queue, call, spent>>

\* Time: an order becomes due for a retry, and later too old for one.
BecomeDue(o) ==
    /\ status[o] # "none" /\ age[o] = "fresh"
    /\ age' = [age EXCEPT ![o] = "due"]
    /\ UNCHANGED <<status, tg, chat, job, queue, call, spent, disturbed>>

Expire(o) ==
    /\ age[o] = "due"
    /\ age' = [age EXCEPT ![o] = "expired"]
    /\ UNCHANGED <<status, tg, chat, job, queue, call, spent, disturbed>>

\* getPendingOrdersNeedingNotification
NeedingNotification ==
    {o \in Orders : status[o] = "pending" /\ ~tg[o].notified /\ age[o] = "due"}

CronSelect(k) ==
    /\ job[k].pc = "idle" /\ queue[k] = {}
    /\ NeedingNotification # {}
    /\ queue' = [queue EXCEPT ![k] = NeedingNotification]
    /\ UNCHANGED <<status, age, tg, chat, job, call, spent, disturbed>>

\* The loop of the scheduled handler: next row of the list it selected.
CronNext(k) ==
    /\ job[k].pc = "idle"
    /\ \E o \in queue[k] :
          /\ queue' = [queue EXCEPT ![k] = @ \ {o}]
          /\ StartJob(k, o)
    /\ UNCHANGED <<status, age, tg, chat, call, spent>>

\* Read the stored entries (none when the query fails) and select the admins
\* who have no message yet; return when there is no such admin.
ReadPrev(s) ==
    /\ job[s].pc = "read"
    /\ \E prev \in {tg[job[s].order].entries, NoEntries} :
          LET missing == {a \in Admins : prev[a] = 0} IN
          /\ \/ prev = tg[job[s].order].entries /\ Works
             \/ prev = NoEntries /\ Fails(job[s].order)
          /\ job' = [job EXCEPT ![s] =
                       IF missing = {} THEN Idle
                       ELSE [@ EXCEPT !.pc = "send", !.prev = prev,
                                      !.todo = missing, !.fresh = NoEntries]]
    /\ UNCHANGED <<status, age, tg, chat, queue, call>>

\* One sendMessage of the allSettled batch: delivered and acknowledged;
\* delivered, but the answer is lost (timeout); or not delivered.
Send(s, a) ==
    LET o == job[s].order
        delivered == [chat EXCEPT ![a] = Append(@, Message(o, "buttons"))]
    IN
    /\ job[s].pc = "send" /\ a \in job[s].todo
    /\ \/ /\ Works
          /\ chat' = delivered
          /\ job' = [job EXCEPT ![s].todo = @ \ {a},
                                ![s].fresh[a] = Len(chat[a]) + 1]
       \/ /\ Fails(o)
          /\ chat' \in {chat, delivered}
          /\ job' = [job EXCEPT ![s].todo = @ \ {a}]
    /\ UNCHANGED <<status, age, tg, queue, call>>

\* entries = [...prev, ...fresh]
Merge(prev, fresh) == [a \in Admins |-> IF prev[a] # 0 THEN prev[a] ELSE fresh[a]]

\* Mutants of AllDone: one stored message is enough; and an off-by-one.
AllDoneAny(entries) == entries # NoEntries
AllDoneStrict(entries) ==
    Cardinality({a \in Admins : entries[a] # 0}) > Cardinality(Admins)

\* entries.length >= adminIds.length
AllDone(entries) ==
    Cardinality({a \in Admins : entries[a] # 0}) >= Cardinality(Admins)

\* Store the merged list, unless it is empty or the UPDATE fails.
Save(s) ==
    LET o == job[s].order
        entries == Merge(job[s].prev, job[s].fresh)
    IN
    /\ job[s].pc = "send" /\ job[s].todo = {}
    /\ \/ /\ entries # NoEntries
          /\ Works
          /\ tg' = [tg EXCEPT ![o] = [entries |-> entries,
                                      notified |-> AllDone(entries)]]
       \/ entries # NoEntries /\ Fails(o) /\ UNCHANGED tg
       \/ entries = NoEntries /\ Works /\ UNCHANGED tg
    /\ job' = [job EXCEPT ![s] = Idle]
    /\ UNCHANGED <<status, age, chat, queue, call>>

\* The invocation that runs the sender is killed.
KillSender(s) ==
    /\ job[s].pc # "idle"
    /\ Fails(job[s].order)
    /\ job' = [job EXCEPT ![s] = Idle]
    /\ queue' = [k \in Crons |-> IF k = s THEN {} ELSE queue[k]]
    /\ UNCHANGED <<status, age, tg, chat, call>>

-----------------------------------------------------------------------------
(* The resolver: resolveOrder and the two places that call it.             *)

StartCall(c, o, v) ==
    /\ call[c].pc = "idle"
    /\ call' = [call EXCEPT ![c] = [NotCalled EXCEPT !.pc = "update",
                                                     !.order = o, !.verdict = v]]
    /\ UNCHANGED <<status, age, tg, chat, job, queue, spent, disturbed>>

\* handleCallback on order:confirm:<id> / order:reject:<id>: an admin presses a
\* button of a message that still shows them.
PressButton(c) ==
    \E a \in Admins, v \in Verdicts : \E i \in DOMAIN chat[a] :
        /\ chat[a][i].shows = "buttons"
        /\ StartCall(c, chat[a][i].order, v)

\* Mutant of PatchOrder: the status of the body is not checked.
PatchOrderAnyStatus(c) ==
    \E o \in Orders, v \in Verdicts \cup {"pending"} :
        status[o] # "none" /\ StartCall(c, o, v)

\* PATCH /orders/<id> of the web panel, which may show a stale list.
PatchOrder(c) ==
    \E o \in Orders, v \in Verdicts :
        /\ status[o] # "none"
        /\ StartCall(c, o, v)

\* Mutant of UpdateStatus: the WHERE clause lost its status = 'pending'.
UpdateStatusAnyway(c) ==
    /\ call[c].pc = "update"
    /\ status' = [status EXCEPT ![call[c].order] = call[c].verdict]
    /\ call' = [call EXCEPT ![c].pc = "read", ![c].updated = TRUE]
    /\ UNCHANGED <<age, tg, chat, job, queue, spent, disturbed>>

\* UPDATE ... SET status = ? WHERE id = ? AND status = 'pending'. A failed
\* query throws out of resolveOrder, whether or not D1 had applied it.
UpdateStatus(c) ==
    LET o == call[c].order
        wins == status[o] = "pending"
        decided == IF wins THEN [status EXCEPT ![o] = call[c].verdict] ELSE status
        overlapped == {p \in {o} : wins /\ \E s \in Senders : Sending(s, p)}
    IN
    /\ call[c].pc = "update"
    /\ \/ /\ status' = decided
          /\ call' = [call EXCEPT ![c].pc = "read", ![c].updated = wins]
          /\ disturbed' = disturbed \cup overlapped
          /\ UNCHANGED spent
       \/ /\ status' \in {status, decided}
          /\ call' = [call EXCEPT ![c].pc = "failed"]
          /\ Fails(o)
    /\ UNCHANGED <<age, tg, chat, job, queue>>

\* Mutant of NewText: the losing call writes its own verdict.
NewTextOfCall(c) == call[c].verdict

\* The text of the rewritten messages; "gone" is the "not found or deleted".
NewText(c) ==
    IF call[c].updated THEN call[c].verdict
    ELSE IF Decided(call[c].order) THEN status[call[c].order] ELSE "gone"

\* getOrder after the update: which messages to rewrite, and with what text.
ReadRow(c) ==
    /\ call[c].pc = "read"
    /\ \/ /\ Works
          /\ call' = [call EXCEPT ![c].pc = "edit", ![c].text = NewText(c),
                                  ![c].todo = tg[call[c].order].entries]
       \/ /\ Fails(call[c].order)
          /\ call' = [call EXCEPT ![c].pc = "failed"]
    /\ UNCHANGED <<status, age, tg, chat, job, queue>>

\* One editMessageText of the Promise.all batch; tg() turns every failure into
\* a value nobody looks at, so a message that was not edited stays as it is.
Edit(c, a) ==
    LET i == call[c].todo[a] IN
    /\ call[c].pc = "edit" /\ i # 0
    /\ \/ Works /\ chat' = [chat EXCEPT ![a][i].shows = call[c].text]
       \/ Fails(call[c].order) /\ UNCHANGED chat
    /\ call' = [call EXCEPT ![c].todo[a] = 0]
    /\ UNCHANGED <<status, age, tg, job, queue>>

\* Mutant of Return: the edits are not awaited.
ReturnEarly(c) ==
    /\ call[c].pc = "edit"
    /\ call' = [call EXCEPT ![c].pc = "returned"]
    /\ UNCHANGED <<status, age, tg, chat, job, queue, spent, disturbed>>

Return(c) ==
    /\ call[c].pc = "edit" /\ call[c].todo = NoEntries
    /\ call' = [call EXCEPT ![c].pc = "returned"]
    /\ UNCHANGED <<status, age, tg, chat, job, queue, spent, disturbed>>

KillCall(c) ==
    /\ call[c].pc \in {"update", "read", "edit"}
    /\ Fails(call[c].order)
    /\ call' = [call EXCEPT ![c].pc = "failed"]
    /\ UNCHANGED <<status, age, tg, chat, job, queue>>

-----------------------------------------------------------------------------
SenderStep(s) == ReadPrev(s) \/ Save(s) \/ \E a \in Admins : Send(s, a)

CronStep(k) == CronSelect(k) \/ CronNext(k)

CallStep(c) ==
    UpdateStatus(c) \/ ReadRow(c) \/ Return(c) \/ \E a \in Admins : Edit(c, a)

Next ==
    \/ \E o \in Orders : Place(o) \/ BecomeDue(o) \/ Expire(o)
    \/ \E k \in Crons : CronStep(k)
    \/ \E s \in Senders : SenderStep(s) \/ KillSender(s)
    \/ \E c \in Calls : PressButton(c) \/ PatchOrder(c) \/ CallStep(c) \/ KillCall(c)

Spec == Init /\ [][Next]_vars

\* The cron trigger fires every minute, and a started invocation runs on.
Fairness ==
    /\ \A k \in Crons : WF_vars(CronStep(k))
    /\ \A s \in Senders : WF_vars(SenderStep(s))
    /\ \A c \in Calls : WF_vars(CallStep(c))

FairSpec == Spec /\ Fairness

-----------------------------------------------------------------------------
(* Properties.                                                             *)

JobType ==
    [pc : {"idle", "read", "send"}, order : Orders \cup {0}, prev : Entries,
     todo : SUBSET Admins, fresh : Entries]

CallType ==
    [pc : {"idle", "update", "read", "edit", "returned", "failed"},
     order : Orders \cup {0}, verdict : Verdicts \cup {"none"}, updated : BOOLEAN,
     text : Verdicts \cup {"none", "gone"}, todo : Entries]

MessageType == [order : Orders, shows : Verdicts \cup {"buttons", "gone"}]

\* The type of the state; a running sender or resolver has its order.
TypeOK ==
    /\ status \in [Orders -> Verdicts \cup {"none", "pending"}]
    /\ age \in [Orders -> {"fresh", "due", "expired"}]
    /\ tg \in [Orders -> [entries : Entries, notified : BOOLEAN]]
    /\ chat \in [Admins -> Seq(MessageType)]
    /\ job \in [Senders -> JobType]
    /\ queue \in [Crons -> SUBSET Orders]
    /\ call \in [Calls -> CallType]
    /\ spent \in 0..MaxFailures
    /\ disturbed \in SUBSET Orders
    /\ \A s \in Senders : job[s].pc # "idle" => job[s].order \in Orders
    /\ \A c \in Calls : call[c].pc # "idle" =>
          call[c].order \in Orders /\ call[c].verdict \in Verdicts
    /\ \A c \in Calls : call[c].pc = "edit" => call[c].text # "none"

\* Entry i of admin a names a message about o that was delivered to a.
Names(i, a, o) == i \in DOMAIN chat[a] /\ chat[a][i].order = o

\* Whatever overlaps, fails or overwrites, an order marked tg_notified has for
\* every admin a stored id, and the id is that of a delivered message about
\* this very order: no admin is left out for good by the cron's filter.
NotifiedMeansEveryAdminHasMessage ==
    \A o \in Orders : tg[o].notified =>
        \A a \in Admins : Names(tg[o].entries[a], a, o)

\* A message never contradicts the row: what a rewritten message says is the
\* verdict of the order it is about, also when the call that rewrote it lost
\* the race, and the "not found or deleted" text is never shown.
MessagesTellTheVerdict ==
    \A a \in Admins : \A i \in DOMAIN chat[a] :
        chat[a][i].shows # "buttons" => chat[a][i].shows = status[chat[a][i].order]

-----------------------------------------------------------------------------
(* The inductive invariant behind the two invariants above.                *)

\* Nobody works on, and no message is about, a row that does not exist yet.
Placed(o) == status[o] # "none"

OnlyPlacedOrders ==
    /\ \A s \in Senders : job[s].pc # "idle" => Placed(job[s].order)
    /\ \A k \in Crons : \A o \in queue[k] : Placed(o)
    /\ \A c \in Calls : call[c].pc # "idle" => Placed(call[c].order)
    /\ \A a \in Admins : \A i \in DOMAIN chat[a] : Placed(chat[a][i].order)

\* Every non-zero id held anywhere is the id of a message about the order it
\* is held for: in the row, by a sender, by a resolver about to edit.
IdsInRows == \A o \in Orders, a \in Admins :
    tg[o].entries[a] # 0 => Names(tg[o].entries[a], a, o)

IdsInSenders == \A s \in Senders : job[s].pc = "send" => \A a \in Admins :
    /\ job[s].prev[a] # 0 => Names(job[s].prev[a], a, job[s].order)
    /\ job[s].fresh[a] # 0 => Names(job[s].fresh[a], a, job[s].order)

IdsInCalls == \A c \in Calls : call[c].pc = "edit" => \A a \in Admins :
    call[c].todo[a] # 0 => Names(call[c].todo[a], a, call[c].order)

\* The count that sets tg_notified is reached only by a full list.
MarkedMeansFull == \A o \in Orders : tg[o].notified =>
    \A a \in Admins : tg[o].entries[a] # 0

\* What a resolver knows about its order once its UPDATE has run.
CallsKnowVerdict == \A c \in Calls :
    /\ call[c].pc \in {"idle", "update"} => ~call[c].updated
    /\ call[c].updated => status[call[c].order] = call[c].verdict
    /\ call[c].pc \in {"read", "edit"} => Decided(call[c].order)
    /\ call[c].pc = "edit" => call[c].text = status[call[c].order]

DeskInv ==
    /\ OnlyPlacedOrders
    /\ IdsInRows /\ IdsInSenders /\ IdsInCalls
    /\ MarkedMeansFull /\ CallsKnowVerdict /\ MessagesTellTheVerdict

-----------------------------------------------------------------------------
(* Telegram and the table, the implemented lifecycle, and the retries.     *)

Quiet(o) ==
    /\ \A s \in Senders : ~Sending(s, o)
    /\ \A c \in Calls : call[c].order = o => call[c].pc \notin {"update", "read", "edit"}

Open(a, o) == {i \in DOMAIN chat[a] : chat[a][i].order = o /\ chat[a][i].shows = "buttons"}

\* The claim of the comment on resolveOrder, for a decided order nobody is
\* working on: Telegram no longer shows its buttons anywhere.
TelegramInSync ==
    \A o \in Orders : Decided(o) /\ Quiet(o) => \A a \in Admins : Open(a, o) = {}

\* The claim holds for every order that no fault hit, that never had two
\* senders at once and that was not decided under a running sender; and no
\* admin has been sent such an order twice.
InSyncUnlessDisturbed ==
    \A o \in Orders \ disturbed : \A a \in Admins :
        /\ Cardinality({i \in DOMAIN chat[a] : chat[a][i].order = o}) <= 1
        /\ Decided(o) /\ Quiet(o) => Open(a, o) = {}

\* resolveOrder implements the lifecycle: one decision, final, told to one.
Told == [o \in Orders |->
    {<<c, call[c].verdict>> : c \in {d \in Calls : call[d].updated /\ call[d].order = o}}]

Lifecycle == INSTANCE OrderLifecycle WITH told <- Told

ImplementsLifecycle == Lifecycle!Spec

\* Faults being finite, from some moment on no order sits in the retry window
\* undecided and without a complete notification, even though an overlapping
\* sender may overwrite a complete list with an incomplete one.
RetriesSettle ==
    <>[](\A o \in Orders : status[o] = "pending" /\ age[o] = "due" => tg[o].notified)
=============================================================================
