--------------------------- MODULE OrderDeskProofs ---------------------------
(***************************************************************************)
(* Proofs about OrderDesk, for every set of orders, admins, crons and      *)
(* calls and every number of faults.                                       *)
(***************************************************************************)
EXTENDS OrderDesk, FiniteSetTheorems, SequenceTheorems, TLAPS

-----------------------------------------------------------------------------
(* Type correctness.                                                       *)

\* Appending an order message, or rewriting one, keeps a chat well typed.
LEMMA AppendMessage ==
    ASSUME TypeOK, NEW o \in Orders, NEW a \in Admins
    PROVE  [chat EXCEPT ![a] = Append(@, Message(o, "buttons"))]
              \in [Admins -> Seq(MessageType)]
<1>1. Message(o, "buttons") \in MessageType
  BY DEF Message, MessageType
<1>2. Append(chat[a], Message(o, "buttons")) \in Seq(MessageType)
  BY <1>1, AppendProperties DEF TypeOK
<1>3. QED
  BY <1>2 DEF TypeOK

LEMMA MessagesTyped ==
    ASSUME TypeOK, NEW a \in Admins, NEW i \in DOMAIN chat[a]
    PROVE  chat[a][i] \in MessageType
<1>1. chat[a] \in Seq(MessageType)
  BY DEF TypeOK
<1>2. i \in 1..Len(chat[a])
  BY <1>1, LenProperties
<1>3. QED
  BY <1>1, <1>2, ElementOfSeq

LEMMA RewriteMessage ==
    ASSUME TypeOK, NEW a \in Admins, NEW i, NEW t \in Verdicts \cup {"gone"}
    PROVE  [chat EXCEPT ![a][i].shows = t] \in [Admins -> Seq(MessageType)]
<1> DEFINE new == [chat[a] EXCEPT ![i].shows = t]
<1>1. chat[a] \in Seq(MessageType)
  BY DEF TypeOK
<1>2. new \in Seq(MessageType)
  <2>1. CASE i \in DOMAIN chat[a]
    <3>1. i \in 1..Len(chat[a])
      BY <1>1, <2>1, LenProperties
    <3>2. chat[a][i] \in MessageType
      BY <1>1, <3>1, ElementOfSeq
    <3>3. [chat[a][i] EXCEPT !.shows = t] \in MessageType
      BY <3>2 DEF MessageType
    <3>4. QED
      BY <1>1, <3>1, <3>3, ExceptSeq
  <2>2. CASE i \notin DOMAIN chat[a]
    <3>1. \A j \in DOMAIN chat[a] : new[j] = chat[a][j]
      BY <2>2
    <3>2. DOMAIN new = DOMAIN chat[a]
      OBVIOUS
    <3>3. chat[a] \in [1..Len(chat[a]) -> MessageType]
      BY <1>1, LenProperties
    <3>4. new = chat[a]
      BY <3>1, <3>2, <3>3
    <3>5. QED
      BY <1>1, <3>4
  <2>3. QED
    BY <2>1, <2>2
<1>3. [chat EXCEPT ![a] = new] \in [Admins -> Seq(MessageType)]
  BY <1>2 DEF TypeOK
<1>4. QED
  BY <1>3

LEMMA SendersAreOrdersOrCrons == Orders \subseteq Senders /\ Crons \subseteq Senders
  BY DEF Senders

\* Whoever starts a call with an order and a verdict keeps the state typed.
LEMMA StartCallTyped ==
    ASSUME TypeOK, NEW c \in Calls, NEW o \in Orders, NEW v \in Verdicts, StartCall(c, o, v)
    PROVE  TypeOK'
<1>1. call' \in [Calls -> CallType]
  BY DEF TypeOK, StartCall, NotCalled, NoEntries, Entries, CallType
<1>2. \A d \in Calls :
         /\ call'[d].pc # "idle" => call'[d].order \in Orders /\ call'[d].verdict \in Verdicts
         /\ call'[d].pc = "edit" => call'[d].text # "none"
  BY DEF TypeOK, StartCall, NotCalled
<1>3. QED
  BY <1>1, <1>2 DEF TypeOK, StartCall

\* The assignments to the local variables of a sender and of a resolver.
LEMMA JobAsked ==
    ASSUME job \in [Senders -> JobType], NEW s \in Senders, NEW a
    PROVE  [job EXCEPT ![s].todo = @ \ {a}] \in [Senders -> JobType]
  BY DEF JobType

LEMMA JobAcknowledged ==
    ASSUME job \in [Senders -> JobType], NEW s \in Senders, NEW a \in Admins, NEW n \in Nat
    PROVE  [job EXCEPT ![s].todo = @ \ {a}, ![s].fresh[a] = n] \in [Senders -> JobType]
<1> DEFINE next == [job[s] EXCEPT !.todo = @ \ {a}, !.fresh = [job[s].fresh EXCEPT ![a] = n]]
<1>1. job[s] \in JobType
  OBVIOUS
<1>2. [job[s].fresh EXCEPT ![a] = n] \in Entries
  BY <1>1 DEF JobType, Entries
<1>3. next \in JobType
  BY <1>1, <1>2 DEF JobType
<1>4. [job EXCEPT ![s].todo = @ \ {a}, ![s].fresh[a] = n] = [job EXCEPT ![s] = next]
  OBVIOUS
<1>5. QED
  BY <1>3, <1>4

LEMMA JobSelected ==
    ASSUME NEW j \in JobType, NEW p \in Entries, NEW missing \in SUBSET Admins
    PROVE  [j EXCEPT !.pc = "send", !.prev = p, !.todo = missing, !.fresh = NoEntries]
              \in JobType
  BY DEF JobType, Entries, NoEntries

LEMMA CallUpdated ==
    ASSUME call \in [Calls -> CallType], NEW c \in Calls,
           NEW pc \in {"read", "failed"}, NEW u \in BOOLEAN
    PROVE  [call EXCEPT ![c].pc = pc, ![c].updated = u] \in [Calls -> CallType]
<1> DEFINE next == [call[c] EXCEPT !.pc = pc, !.updated = u]
<1>1. call[c] \in CallType
  OBVIOUS
<1>2. next \in CallType
  BY <1>1 DEF CallType
<1>3. [call EXCEPT ![c].pc = pc, ![c].updated = u] = [call EXCEPT ![c] = next]
  OBVIOUS
<1>4. QED
  BY <1>2, <1>3

LEMMA CallRead ==
    ASSUME call \in [Calls -> CallType], NEW c \in Calls,
           NEW t \in Verdicts \cup {"gone"}, NEW e \in Entries
    PROVE  [call EXCEPT ![c].pc = "edit", ![c].text = t, ![c].todo = e]
              \in [Calls -> CallType]
<1> DEFINE next == [call[c] EXCEPT !.pc = "edit", !.text = t, !.todo = e]
<1>1. call[c] \in CallType
  OBVIOUS
<1>2. next \in CallType
  BY <1>1 DEF CallType
<1>3. [call EXCEPT ![c].pc = "edit", ![c].text = t, ![c].todo = e] = [call EXCEPT ![c] = next]
  OBVIOUS
<1>4. QED
  BY <1>2, <1>3

LEMMA CallEnded ==
    ASSUME call \in [Calls -> CallType], NEW c \in Calls, NEW pc \in {"returned", "failed"}
    PROVE  [call EXCEPT ![c].pc = pc] \in [Calls -> CallType]
<1> DEFINE next == [call[c] EXCEPT !.pc = pc]
<1>1. call[c] \in CallType
  OBVIOUS
<1>2. next \in CallType
  BY <1>1 DEF CallType
<1>3. [call EXCEPT ![c].pc = pc] = [call EXCEPT ![c] = next]
  OBVIOUS
<1>4. QED
  BY <1>2, <1>3

LEMMA CallEdited ==
    ASSUME call \in [Calls -> CallType], NEW c \in Calls, NEW a \in Admins
    PROVE  [call EXCEPT ![c].todo[a] = 0] \in [Calls -> CallType]
<1> DEFINE next == [call[c] EXCEPT !.todo = [call[c].todo EXCEPT ![a] = 0]]
<1>1. call[c] \in CallType
  OBVIOUS
<1>2. [call[c].todo EXCEPT ![a] = 0] \in Entries
  BY <1>1 DEF CallType, Entries
<1>3. next \in CallType
  BY <1>1, <1>2 DEF CallType
<1>4. [call EXCEPT ![c].todo[a] = 0] = [call EXCEPT ![c] = next]
  OBVIOUS
<1>5. QED
  BY <1>3, <1>4

\* A call that ends keeps its order and its verdict.
LEMMA EndedTyped ==
    ASSUME TypeOK, NEW c \in Calls, call[c].pc # "idle", NEW pc \in {"returned", "failed"},
           call' = [call EXCEPT ![c].pc = pc]
    PROVE  /\ call' \in [Calls -> CallType]
           /\ \A d \in Calls :
                 /\ call'[d].pc # "idle" => call'[d].order \in Orders /\ call'[d].verdict \in Verdicts
                 /\ call'[d].pc = "edit" => call'[d].text # "none"
<1>1. call' \in [Calls -> CallType]
  BY CallEnded DEF TypeOK
<1>2. call[c].order \in Orders /\ call[c].verdict \in Verdicts
  BY DEF TypeOK
<1>3. call'[c] = [call[c] EXCEPT !.pc = pc] /\ call[c] \in CallType
  BY DEF TypeOK
<1>4. call'[c].pc = pc /\ call'[c].order \in Orders /\ call'[c].verdict \in Verdicts
  BY <1>2, <1>3 DEF CallType
<1>5. \A d \in Calls \ {c} : call'[d] = call[d]
  BY DEF TypeOK
<1>6. QED
  BY <1>1, <1>4, <1>5 DEF TypeOK

LEMMA TypeInit == Init => TypeOK
  BY DeskAssumption DEF Init, TypeOK, NoEntries, Entries, Idle, NotCalled, JobType, CallType

\* One step for each action; the sequences are left to the two lemmas above.
LEMMA TypeStep == TypeOK /\ [Next]_vars => TypeOK'
<1> SUFFICES ASSUME TypeOK, [Next]_vars PROVE TypeOK'
  OBVIOUS
<1> USE SendersAreOrdersOrCrons DEF TypeOK
<1>1. ASSUME NEW o \in Orders, Place(o) PROVE TypeOK'
  BY <1>1 DEF Place, StartJob, Idle, NoEntries, Entries, JobType
<1>2. ASSUME NEW o \in Orders, BecomeDue(o) PROVE TypeOK'
  BY <1>2 DEF BecomeDue
<1>3. ASSUME NEW o \in Orders, Expire(o) PROVE TypeOK'
  BY <1>3 DEF Expire
<1>4. ASSUME NEW k \in Crons, CronSelect(k) PROVE TypeOK'
  BY <1>4 DEF CronSelect, NeedingNotification
<1>5. ASSUME NEW k \in Crons, CronNext(k) PROVE TypeOK'
  <2>1. PICK o \in queue[k] :
           queue' = [queue EXCEPT ![k] = @ \ {o}] /\ StartJob(k, o)
    BY <1>5 DEF CronNext
  <2>2. o \in Orders
    OBVIOUS
  <2>3. QED
    BY <1>5, <2>1, <2>2 DEF CronNext, StartJob, Idle, NoEntries, Entries, JobType
<1>6. ASSUME NEW s \in Senders, ReadPrev(s) PROVE TypeOK'
  <2> DEFINE missing(p) == {a \in Admins : p[a] = 0}
  <2>1. job[s].order \in Orders
    BY <1>6 DEF ReadPrev
  <2> DEFINE next(p) == IF missing(p) = {} THEN Idle
                        ELSE [job[s] EXCEPT !.pc = "send", !.prev = p,
                                            !.todo = missing(p), !.fresh = NoEntries]
  <2>2. PICK prev \in Entries :
          (Works \/ Fails(job[s].order)) /\ job' = [job EXCEPT ![s] = next(prev)]
    <3>1. tg[job[s].order].entries \in Entries /\ NoEntries \in Entries
      BY <2>1 DEF NoEntries, Entries
    <3>2. PICK prev \in {tg[job[s].order].entries, NoEntries} :
            (Works \/ Fails(job[s].order)) /\ job' = [job EXCEPT ![s] = next(prev)]
      BY <1>6 DEF ReadPrev
    <3>3. prev \in Entries
      BY <3>1, <3>2
    <3>4. QED
      BY <3>2, <3>3
  <2>3. job' \in [Senders -> JobType]
    <3>1. Idle \in JobType
      BY DEF Idle, NoEntries, Entries, JobType
    <3>2. [job[s] EXCEPT !.pc = "send", !.prev = prev, !.todo = missing(prev),
                         !.fresh = NoEntries] \in JobType
      BY JobSelected
    <3>3. QED
      BY <2>2, <3>1, <3>2
  <2>4. \A r \in Senders : job'[r].pc # "idle" => job'[r].order \in Orders
    BY <2>1, <2>2 DEF Idle, JobType
  <2>5. spent' \in 0..MaxFailures /\ disturbed' \in SUBSET Orders
    BY <2>1, <2>2, DeskAssumption DEF Works, Fails
  <2>6. QED
    BY <1>6, <2>3, <2>4, <2>5 DEF ReadPrev
<1>7. ASSUME NEW s \in Senders, NEW a \in Admins, Send(s, a) PROVE TypeOK'
  <2>1. job[s].order \in Orders
    BY <1>7 DEF Send
  <2>2. chat' \in [Admins -> Seq(MessageType)]
    <3>1. [chat EXCEPT ![a] = Append(@, Message(job[s].order, "buttons"))]
             \in [Admins -> Seq(MessageType)]
      BY <2>1, AppendMessage
    <3>2. QED
      BY <1>7, <3>1 DEF Send
  <2>3. Len(chat[a]) + 1 \in Nat
    BY LenProperties
  <2> DEFINE asked == [job EXCEPT ![s].todo = @ \ {a}]
             known == [job EXCEPT ![s].todo = @ \ {a}, ![s].fresh[a] = Len(chat[a]) + 1]
  <2>4. job' \in [Senders -> JobType]
    <3>1. asked \in [Senders -> JobType]
      BY JobAsked
    <3>2. known \in [Senders -> JobType]
      BY <2>3, JobAcknowledged
    <3>3. QED
      BY <1>7, <3>1, <3>2 DEF Send
  <2>5. \A r \in Senders : job'[r].pc # "idle" => job'[r].order \in Orders
    <3>1. \A r \in Senders :
             /\ asked[r].pc = job[r].pc /\ asked[r].order = job[r].order
             /\ known[r].pc = job[r].pc /\ known[r].order = job[r].order
      BY DEF JobType
    <3>2. QED
      BY <1>7, <3>1 DEF Send
  <2>6. spent' \in 0..MaxFailures /\ disturbed' \in SUBSET Orders
    BY <1>7, <2>1, DeskAssumption DEF Send, Works, Fails
  <2>7. QED
    BY <1>7, <2>2, <2>4, <2>5, <2>6 DEF Send
<1>8. ASSUME NEW s \in Senders, Save(s) PROVE TypeOK'
  <2> DEFINE entries == Merge(job[s].prev, job[s].fresh)
  <2>1. job[s].order \in Orders
    BY <1>8 DEF Save
  <2>2. entries \in Entries
    BY DEF Merge, Entries, JobType
  <2>3. AllDone(entries) \in BOOLEAN
    BY DEF AllDone
  <2>4. tg' \in [Orders -> [entries : Entries, notified : BOOLEAN]]
    BY <1>8, <2>1, <2>2, <2>3 DEF Save
  <2>5. job' \in [Senders -> JobType]
    BY <1>8 DEF Save, Idle, NoEntries, Entries, JobType
  <2>6. \A r \in Senders : job'[r].pc # "idle" => job'[r].order \in Orders
    BY <1>8 DEF Save, Idle
  <2>7. spent' \in 0..MaxFailures /\ disturbed' \in SUBSET Orders
    BY <1>8, <2>1, DeskAssumption DEF Save, Works, Fails
  <2>8. QED
    BY <1>8, <2>4, <2>5, <2>6, <2>7 DEF Save
<1>9. ASSUME NEW s \in Senders, KillSender(s) PROVE TypeOK'
  BY <1>9, DeskAssumption DEF KillSender, Fails, Idle, NoEntries, Entries, JobType
<1>10. ASSUME NEW c \in Calls, PressButton(c) PROVE TypeOK'
  <2>1. PICK a \in Admins, v \in Verdicts : \E i \in DOMAIN chat[a] :
           /\ chat[a][i].shows = "buttons"
           /\ StartCall(c, chat[a][i].order, v)
    BY <1>10 DEF PressButton
  <2>2. PICK i \in DOMAIN chat[a] : StartCall(c, chat[a][i].order, v)
    BY <2>1
  <2>3. chat[a][i] \in MessageType
    BY LenProperties, ElementOfSeq
  <2>4. chat[a][i].order \in Orders
    BY <2>3 DEF MessageType
  <2>5. QED
    BY <2>2, <2>4, StartCallTyped
<1>11. ASSUME NEW c \in Calls, PatchOrder(c) PROVE TypeOK'
  BY <1>11, StartCallTyped DEF PatchOrder
<1>12. ASSUME NEW c \in Calls, UpdateStatus(c) PROVE TypeOK'
  <2>1. call[c].order \in Orders /\ call[c].verdict \in Verdicts
    BY <1>12 DEF UpdateStatus
  <2>2. status' \in [Orders -> Verdicts \cup {"none", "pending"}]
    <3>1. \/ status' = status
          \/ status' = [status EXCEPT ![call[c].order] = call[c].verdict]
      BY <1>12 DEF UpdateStatus
    <3>2. QED
      BY <2>1, <3>1
  <2>3. PICK pc \in {"read", "failed"}, updated \in BOOLEAN :
          call' = [call EXCEPT ![c].pc = pc, ![c].updated = updated]
    <3>1. CASE call' = [call EXCEPT ![c].pc = "failed"]
      <4>1. call[c].updated \in BOOLEAN
        BY DEF CallType
      <4>2. call' = [call EXCEPT ![c].pc = "failed", ![c].updated = call[c].updated]
        BY <3>1 DEF CallType
      <4>3. QED
        BY <4>1, <4>2
    <3>2. CASE call' = [call EXCEPT ![c].pc = "read",
                                    ![c].updated = (status[call[c].order] = "pending")]
      BY <3>2
    <3>3. QED
      BY <1>12, <3>1, <3>2 DEF UpdateStatus
  <2>4. call' \in [Calls -> CallType]
    BY <2>3, CallUpdated
  <2>5. \A d \in Calls :
           /\ call'[d].pc # "idle" => call'[d].order \in Orders /\ call'[d].verdict \in Verdicts
           /\ call'[d].pc = "edit" => call'[d].text # "none"
    BY <2>1, <2>3 DEF CallType
  <2>6. spent' \in 0..MaxFailures /\ disturbed' \in SUBSET Orders
    BY <1>12, <2>1, DeskAssumption DEF UpdateStatus, Fails
  <2>7. QED
    BY <1>12, <2>2, <2>4, <2>5, <2>6 DEF UpdateStatus
<1>13. ASSUME NEW c \in Calls, ReadRow(c) PROVE TypeOK'
  <2>1. NewText(c) \in Verdicts \cup {"gone"}
    BY <1>13 DEF ReadRow, NewText, Decided, CallType
  <2>2. call[c].order \in Orders
    BY <1>13 DEF ReadRow
  <2>3. tg[call[c].order].entries \in Entries
    BY <2>2
  <2> DEFINE known == [call EXCEPT ![c].pc = "edit", ![c].text = NewText(c),
                                   ![c].todo = tg[call[c].order].entries]
             thrown == [call EXCEPT ![c].pc = "failed"]
  <2>4. call' \in [Calls -> CallType]
    <3>1. known \in [Calls -> CallType]
      BY <2>1, <2>3, CallRead
    <3>2. thrown \in [Calls -> CallType]
      BY CallEnded
    <3>3. QED
      BY <1>13, <3>1, <3>2 DEF ReadRow
  <2>5. \A d \in Calls : call'[d].pc # "idle" =>
           call'[d].order \in Orders /\ call'[d].verdict \in Verdicts
    <3>1. \A d \in Calls : known[d].order = call[d].order /\ known[d].verdict = call[d].verdict
      BY DEF CallType
    <3>2. \A d \in Calls : thrown[d].order = call[d].order /\ thrown[d].verdict = call[d].verdict
      BY DEF CallType
    <3>3. \A d \in Calls \ {c} : known[d].pc = call[d].pc /\ thrown[d].pc = call[d].pc
      BY DEF CallType
    <3>4. call[c].pc = "read" /\ (call' = known \/ call' = thrown)
      BY <1>13 DEF ReadRow
    <3>5. \A d \in Calls : call'[d].order = call[d].order /\ call'[d].verdict = call[d].verdict
      BY <3>1, <3>2, <3>4
    <3>6. \A d \in Calls : call'[d].pc # "idle" => call[d].pc # "idle"
      BY <3>3, <3>4
    <3>7. QED
      BY <3>5, <3>6
  <2>6. \A d \in Calls : call'[d].pc = "edit" => call'[d].text # "none"
    BY <1>13, <2>1 DEF ReadRow, CallType, Verdicts
  <2>7. spent' \in 0..MaxFailures /\ disturbed' \in SUBSET Orders
    BY <1>13, <2>2, DeskAssumption DEF ReadRow, Works, Fails
  <2>8. QED
    BY <1>13, <2>4, <2>5, <2>6, <2>7 DEF ReadRow
<1>14. ASSUME NEW c \in Calls, NEW a \in Admins, Edit(c, a) PROVE TypeOK'
  <2>1. call[c].text \in Verdicts \cup {"gone"}
    BY <1>14 DEF Edit, CallType
  <2>2. chat' \in [Admins -> Seq(MessageType)]
    <3>1. [chat EXCEPT ![a][call[c].todo[a]].shows = call[c].text]
             \in [Admins -> Seq(MessageType)]
      BY <2>1, RewriteMessage
    <3>2. QED
      BY <1>14, <3>1 DEF Edit
  <2>3. call[c].order \in Orders
    BY <1>14 DEF Edit
  <2>4. call' \in [Calls -> CallType]
    BY <1>14, CallEdited DEF Edit
  <2>5. spent' \in 0..MaxFailures /\ disturbed' \in SUBSET Orders
    BY <1>14, <2>3, DeskAssumption DEF Edit, Works, Fails
  <2>6. QED
    BY <1>14, <2>2, <2>4, <2>5 DEF Edit, CallType
<1>15. ASSUME NEW c \in Calls, Return(c) PROVE TypeOK'
  BY <1>15, EndedTyped DEF Return
<1>16. ASSUME NEW c \in Calls, KillCall(c) PROVE TypeOK'
  <2>1. call[c].pc # "idle" /\ call[c].order \in Orders
    BY <1>16 DEF KillCall
  <2>2. spent' \in 0..MaxFailures /\ disturbed' \in SUBSET Orders
    BY <1>16, <2>1, DeskAssumption DEF KillCall, Fails
  <2>3. QED
    BY <1>16, <2>1, <2>2, EndedTyped DEF KillCall
<1>17. CASE UNCHANGED vars
  BY <1>17 DEF vars
<1>18. QED
  BY <1>1, <1>2, <1>3, <1>4, <1>5, <1>6, <1>7, <1>8, <1>9, <1>10, <1>11, <1>12,
     <1>13, <1>14, <1>15, <1>16, <1>17
     DEF Next, SenderStep, CronStep, CallStep

\* The state of every reachable desk is well typed.
THEOREM DeskTypeCorrect == Spec => []TypeOK
  BY TypeInit, TypeStep, PTL DEF Spec

-----------------------------------------------------------------------------
(* Which actions write which variable.                                     *)

LEMMA Writers ==
    ASSUME [Next]_vars
    PROVE  /\ UNCHANGED status \/ (\E o \in Orders : Place(o)) \/ (\E c \in Calls : UpdateStatus(c))
           /\ UNCHANGED tg \/ (\E s \in Senders : Save(s))
           /\ \/ UNCHANGED chat
              \/ \E s \in Senders, a \in Admins : Send(s, a)
              \/ \E c \in Calls, a \in Admins : Edit(c, a)
           /\ \/ UNCHANGED job
              \/ \E o \in Orders : Place(o)
              \/ \E k \in Crons : CronNext(k)
              \/ \E r \in Senders : \/ ReadPrev(r) \/ (\E a \in Admins : Send(r, a))
                                    \/ job' = [job EXCEPT ![r] = Idle]
           /\ UNCHANGED queue \/ (\E k \in Crons : CronStep(k)) \/ (\E s \in Senders : KillSender(s))
<1>1. ASSUME NEW o \in Orders, Place(o) PROVE UNCHANGED <<tg, chat, queue>>
  BY <1>1 DEF Place
<1>2. ASSUME NEW o \in Orders, BecomeDue(o) \/ Expire(o)
      PROVE  UNCHANGED <<status, tg, chat, job, queue>>
  BY <1>2 DEF BecomeDue, Expire
<1>3. ASSUME NEW k \in Crons, CronStep(k)
      PROVE  UNCHANGED <<status, tg, chat>> /\ (UNCHANGED job \/ CronNext(k))
  BY <1>3 DEF CronStep, CronSelect, CronNext
<1>4. ASSUME NEW s \in Senders, ReadPrev(s) PROVE UNCHANGED <<status, tg, chat, queue>>
  BY <1>4 DEF ReadPrev
<1>5. ASSUME NEW s \in Senders, NEW a \in Admins, Send(s, a) PROVE UNCHANGED <<status, tg, queue>>
  BY <1>5 DEF Send
<1>6. ASSUME NEW s \in Senders, Save(s)
      PROVE  UNCHANGED <<status, chat, queue>> /\ job' = [job EXCEPT ![s] = Idle]
  BY <1>6 DEF Save
<1>7. ASSUME NEW s \in Senders, KillSender(s)
      PROVE  UNCHANGED <<status, tg, chat>> /\ job' = [job EXCEPT ![s] = Idle]
  BY <1>7 DEF KillSender
<1>8. ASSUME NEW c \in Calls, PressButton(c) \/ PatchOrder(c)
      PROVE  UNCHANGED <<status, tg, chat, job, queue>>
  BY <1>8 DEF PressButton, PatchOrder, StartCall
<1>9. ASSUME NEW c \in Calls, UpdateStatus(c) PROVE UNCHANGED <<tg, chat, job, queue>>
  BY <1>9 DEF UpdateStatus
<1>10. ASSUME NEW c \in Calls, ReadRow(c) \/ Return(c) \/ KillCall(c)
       PROVE  UNCHANGED <<status, tg, chat, job, queue>>
  BY <1>10 DEF ReadRow, Return, KillCall
<1>11. ASSUME NEW c \in Calls, NEW a \in Admins, Edit(c, a)
       PROVE  UNCHANGED <<status, tg, job, queue>>
  BY <1>11 DEF Edit
<1>12. CASE \E o \in Orders : Place(o) \/ BecomeDue(o) \/ Expire(o)  BY <1>1, <1>2, <1>12
<1>13. CASE \E k \in Crons : CronStep(k)  BY <1>3, <1>13
<1>14. CASE \E s \in Senders : SenderStep(s) \/ KillSender(s)
  BY <1>4, <1>5, <1>6, <1>7, <1>14 DEF SenderStep
<1>15. CASE \E c \in Calls : PressButton(c) \/ PatchOrder(c) \/ CallStep(c) \/ KillCall(c)
  BY <1>8, <1>9, <1>10, <1>11, <1>15 DEF CallStep
<1>16. CASE UNCHANGED vars  BY <1>16 DEF vars
<1> QED  BY <1>12, <1>13, <1>14, <1>15, <1>16 DEF Next

LEMMA WhoWritesStatus ==
    ASSUME [Next]_vars
    PROVE  UNCHANGED status \/ (\E o \in Orders : Place(o)) \/ (\E c \in Calls : UpdateStatus(c))
  BY Writers

LEMMA WhoWritesRows ==
    ASSUME [Next]_vars
    PROVE  UNCHANGED tg \/ (\E s \in Senders : Save(s))
  BY Writers

LEMMA WhoWritesChats ==
    ASSUME [Next]_vars
    PROVE  \/ UNCHANGED chat
           \/ \E s \in Senders, a \in Admins : Send(s, a)
           \/ \E c \in Calls, a \in Admins : Edit(c, a)
  BY Writers

\* A sender enters or stays in "send" only by ReadPrev and Send.
LEMMA WhoWritesJobs ==
    ASSUME TypeOK, [Next]_vars, NEW s \in Senders, job'[s].pc = "send"
    PROVE  job'[s] = job[s] \/ ReadPrev(s) \/ (\E a \in Admins : Send(s, a))
<1>1. \/ UNCHANGED job
      \/ \E o \in Orders : StartJob(o, o)
      \/ \E k \in Crons, o \in Orders : StartJob(k, o)
      \/ \E r \in Senders : \/ ReadPrev(r) \/ (\E a \in Admins : Send(r, a))
                            \/ job' = [job EXCEPT ![r] = Idle]
  <2>1. ASSUME NEW o \in Orders, Place(o) PROVE StartJob(o, o)  BY <2>1 DEF Place
  <2>2. ASSUME NEW k \in Crons, CronNext(k) PROVE \E o \in Orders : StartJob(k, o)
    BY <2>2 DEF CronNext, TypeOK
  <2> QED  BY <2>1, <2>2, Writers
<1>2. ASSUME NEW r \in Senders, NEW o, StartJob(r, o) PROVE job'[s] = job[s]
  BY <1>2 DEF StartJob, Idle, TypeOK
<1>3. ASSUME NEW r \in Senders, ReadPrev(r), r # s PROVE job'[s] = job[s]
  BY <1>3 DEF ReadPrev, TypeOK
<1>4. ASSUME NEW r \in Senders, NEW a \in Admins, Send(r, a), r # s PROVE job'[s] = job[s]
  BY <1>4 DEF Send, TypeOK
<1>5. ASSUME NEW r \in Senders, job' = [job EXCEPT ![r] = Idle] PROVE job'[s] = job[s]
  BY <1>5 DEF Idle, TypeOK
<1>6. QED
  BY <1>1, <1>2, <1>3, <1>4, <1>5, SendersAreOrdersOrCrons

\* A sender enters "read" for the order just placed, or for one in a queue.
LEMMA WhoStartsJobs ==
    ASSUME TypeOK, [Next]_vars, NEW s \in Senders, job'[s].pc = "read"
    PROVE  \/ job'[s] = job[s]
           \/ \E o \in Orders : Place(o) /\ job'[s].order = o
           \/ \E k \in Crons : \E o \in queue[k] : job'[s].order = o
<1>1. \/ UNCHANGED job
      \/ \E o \in Orders : Place(o)
      \/ \E k \in Crons : CronNext(k)
      \/ \E r \in Senders : \/ ReadPrev(r) \/ (\E a \in Admins : Send(r, a))
                            \/ job' = [job EXCEPT ![r] = Idle]
  BY Writers
<1>2. ASSUME NEW o \in Orders, Place(o), job'[s] # job[s] PROVE job'[s].order = o
  BY <1>2 DEF Place, StartJob, Idle, TypeOK
<1>3. ASSUME NEW k \in Crons, CronNext(k), job'[s] # job[s]
      PROVE  \E o \in queue[k] : job'[s].order = o
  <2>1. PICK o \in queue[k] : StartJob(k, o)
    BY <1>3 DEF CronNext
  <2>2. QED
    BY <1>3, <2>1 DEF StartJob, Idle, TypeOK
<1>4. ASSUME NEW r \in Senders, ReadPrev(r) PROVE job'[s] = job[s]
  BY <1>4 DEF ReadPrev, Idle, TypeOK, JobType
<1>5. ASSUME NEW r \in Senders, NEW a \in Admins, Send(r, a) PROVE job'[s] = job[s]
  <2>1. job'[r].pc = "send"
    BY <1>5 DEF Send, TypeOK, JobType
  <2>2. r # s
    BY <2>1
  <2>3. QED
    BY <1>5, <2>2 DEF Send, TypeOK
<1>6. ASSUME NEW r \in Senders, job' = [job EXCEPT ![r] = Idle] PROVE job'[s] = job[s]
  BY <1>6 DEF Idle, TypeOK
<1>7. QED
  BY <1>1, <1>2, <1>3, <1>4, <1>5, <1>6

\* The steps of a call, as its local variables show them.
LEMMA WhoWritesCalls ==
    ASSUME TypeOK, [Next]_vars, NEW c \in Calls
    PROVE  \/ call'[c] = call[c]
           \/ \E o \in Orders, v \in Verdicts :
                 /\ StartCall(c, o, v)
                 /\ \/ Placed(o)
                    \/ \E a \in Admins : \E i \in DOMAIN chat[a] : chat[a][i].order = o
           \/ UpdateStatus(c) \/ ReadRow(c) \/ (\E a \in Admins : Edit(c, a))
           \/ Return(c) \/ KillCall(c)
<1>1. \/ UNCHANGED call
      \/ \E d \in Calls : \/ PressButton(d) \/ PatchOrder(d)
                          \/ UpdateStatus(d) \/ ReadRow(d) \/ (\E a \in Admins : Edit(d, a))
                          \/ Return(d) \/ KillCall(d)
  BY DEF Next, vars, SenderStep, CronStep, CallStep, Place, BecomeDue, Expire, CronSelect,
         CronNext, ReadPrev, Send, Save, KillSender
<1>2. ASSUME NEW d \in Calls, PressButton(d)
      PROVE  \E o \in Orders, v \in Verdicts :
                /\ StartCall(d, o, v)
                /\ \E a \in Admins : \E i \in DOMAIN chat[a] : chat[a][i].order = o
  <2>1. PICK a \in Admins, v \in Verdicts : \E i \in DOMAIN chat[a] :
           StartCall(d, chat[a][i].order, v)
    BY <1>2 DEF PressButton
  <2>2. \A i \in DOMAIN chat[a] : chat[a][i].order \in Orders
    BY MessagesTyped DEF MessageType
  <2>3. QED
    BY <2>1, <2>2
<1>3. ASSUME NEW d \in Calls, PatchOrder(d)
      PROVE  \E o \in Orders, v \in Verdicts : StartCall(d, o, v) /\ Placed(o)
  BY <1>3 DEF PatchOrder, Placed
<1>4. ASSUME NEW d \in Calls, NEW o, NEW v, StartCall(d, o, v), d # c PROVE call'[c] = call[c]
  BY <1>4 DEF StartCall, TypeOK
<1>5. ASSUME NEW d \in Calls, d # c, UpdateStatus(d) \/ ReadRow(d) \/ Return(d) \/ KillCall(d)
      PROVE  call'[c] = call[c]
  BY <1>5 DEF UpdateStatus, ReadRow, Return, KillCall, TypeOK
<1>6. ASSUME NEW d \in Calls, d # c, NEW a \in Admins, Edit(d, a) PROVE call'[c] = call[c]
  BY <1>6 DEF Edit, TypeOK
<1>7. CASE \E d \in Calls : PressButton(d) \/ PatchOrder(d)
  <2>1. PICK d \in Calls, o \in Orders, v \in Verdicts :
           /\ StartCall(d, o, v)
           /\ \/ Placed(o)
              \/ \E a \in Admins : \E i \in DOMAIN chat[a] : chat[a][i].order = o
    BY <1>2, <1>3, <1>7
  <2>2. QED
    BY <2>1, <1>4
<1>8. CASE \E d \in Calls : \/ UpdateStatus(d) \/ ReadRow(d) \/ (\E a \in Admins : Edit(d, a))
                            \/ Return(d) \/ KillCall(d)
  BY <1>5, <1>6, <1>8
<1>9. CASE UNCHANGED call
  BY <1>9
<1>10. QED
  BY <1>1, <1>7, <1>8, <1>9

-----------------------------------------------------------------------------
(* Two facts that never change: a delivered message keeps its order, and a *)
(* decided row its verdict.                                                *)

LEMMA NamesStable ==
    ASSUME TypeOK, [Next]_vars, NEW a \in Admins, NEW i, NEW o \in Orders, Names(i, a, o)
    PROVE  i \in DOMAIN chat'[a] /\ chat'[a][i].order = o
<1>1. CASE UNCHANGED chat
  BY <1>1 DEF Names
<1>2. ASSUME NEW s \in Senders, NEW b \in Admins, Send(s, b)
      PROVE  i \in DOMAIN chat'[a] /\ chat'[a][i].order = o
  <2>1. chat' = chat \/ chat' = [chat EXCEPT ![b] = Append(@, Message(job[s].order, "buttons"))]
    BY <1>2 DEF Send
  <2>2. chat[b] \in Seq(MessageType) /\ Message(job[s].order, "buttons") \in MessageType
    BY <1>2 DEF TypeOK, Send, Message, MessageType
  <2>3. /\ DOMAIN chat[b] = 1..Len(chat[b])
        /\ Len(chat[b]) \in Nat
    BY <2>2, LenProperties
  <2>4. /\ \A j \in 1..Len(chat[b]) :
              Append(chat[b], Message(job[s].order, "buttons"))[j] = chat[b][j]
        /\ Len(Append(chat[b], Message(job[s].order, "buttons"))) = Len(chat[b]) + 1
        /\ DOMAIN Append(chat[b], Message(job[s].order, "buttons")) = 1..(Len(chat[b]) + 1)
    BY <2>2, <2>3, AppendProperties, LenProperties
  <2>5. CASE a = b
    <3>1. i \in 1..Len(chat[a]) /\ chat[a][i].order = o
      BY <2>3, <2>5 DEF Names
    <3>2. i \in DOMAIN chat'[a] /\ chat'[a][i] = chat[a][i]
      BY <2>1, <2>3, <2>4, <2>5, <3>1 DEF TypeOK
    <3>3. QED
      BY <3>1, <3>2 DEF Names
  <2>6. CASE a # b
    BY <2>1, <2>6 DEF TypeOK, Names
  <2>7. QED
    BY <2>5, <2>6
<1>3. ASSUME NEW c \in Calls, NEW b \in Admins, Edit(c, b)
      PROVE  i \in DOMAIN chat'[a] /\ chat'[a][i].order = o
  <2>1. chat' = chat \/ chat' = [chat EXCEPT ![b][call[c].todo[b]].shows = call[c].text]
    BY <1>3 DEF Edit
  <2>2. \A j \in DOMAIN chat[b] : chat[b][j] \in MessageType
    BY MessagesTyped
  <2>3. CASE a = b
    <3>1. DOMAIN chat'[a] = DOMAIN chat[a]
      BY <2>1, <2>3 DEF TypeOK
    <3>2. chat'[a][i].order = chat[a][i].order
      <4>1. chat[a][i] \in MessageType
        BY <2>2, <2>3 DEF Names
      <4>2. [chat[a][i] EXCEPT !.shows = call[c].text].order = chat[a][i].order
        BY <4>1 DEF MessageType
      <4>3. \/ chat'[a] = chat[a]
            \/ chat'[a] = [chat[a] EXCEPT ![call[c].todo[a]].shows = call[c].text]
        BY <2>1, <2>3 DEF TypeOK
      <4>4. \/ chat'[a][i] = chat[a][i]
            \/ chat'[a][i] = [chat[a][i] EXCEPT !.shows = call[c].text]
        BY <4>3 DEF Names
      <4>5. QED
        BY <4>2, <4>4
    <3>3. QED
      BY <3>1, <3>2 DEF Names
  <2>4. CASE a # b
    BY <2>1, <2>4 DEF TypeOK, Names
  <2>5. QED
    BY <2>3, <2>4
<1>4. QED
  BY <1>1, <1>2, <1>3, WhoWritesChats

LEMMA DecisionStable ==
    ASSUME TypeOK, [Next]_vars, NEW o \in Orders, Decided(o)
    PROVE  status'[o] = status[o]
<1>1. ASSUME NEW p \in Orders, Place(p) PROVE status'[o] = status[o]
  BY <1>1 DEF Place, Decided, Verdicts, TypeOK
<1>2. ASSUME NEW c \in Calls, UpdateStatus(c) PROVE status'[o] = status[o]
  BY <1>2 DEF UpdateStatus, Decided, Verdicts, TypeOK
<1>3. QED
  BY <1>1, <1>2, WhoWritesStatus

-----------------------------------------------------------------------------
(* The inductive invariant. Each conjunct is preserved by the steps that   *)
(* write its variables, and by the others because ids and verdicts stay.   *)

LEMMA InvInit == Init => DeskInv
  BY DEF Init, DeskInv, OnlyPlacedOrders, IdsInRows, IdsInSenders, IdsInCalls, MarkedMeansFull,
         CallsKnowVerdict, MessagesTellTheVerdict, NoEntries, Idle, NotCalled

LEMMA OnlyPlacedOrdersStep ==
    ASSUME TypeOK, OnlyPlacedOrders, [Next]_vars
    PROVE  OnlyPlacedOrders'
<1>1. \A o \in Orders : Placed(o) => status'[o] # "none"
  <2>1. ASSUME NEW p \in Orders, Place(p) PROVE \A o \in Orders : Placed(o) => status'[o] # "none"
    BY <2>1 DEF Place, Placed, TypeOK
  <2>2. ASSUME NEW c \in Calls, UpdateStatus(c)
        PROVE  \A o \in Orders : Placed(o) => status'[o] # "none"
    <3>1. call[c].verdict \in Verdicts
      BY <2>2 DEF UpdateStatus, TypeOK
    <3>2. status' = status \/ status' = [status EXCEPT ![call[c].order] = call[c].verdict]
      BY <2>2 DEF UpdateStatus
    <3>3. QED
      BY <3>1, <3>2 DEF Placed, TypeOK, Verdicts
  <2>3. QED
    BY <2>1, <2>2, WhoWritesStatus DEF Placed
<1>2. ASSUME NEW s \in Senders, job'[s].pc # "idle" PROVE status'[job'[s].order] # "none"
  <2>1. CASE job'[s].pc = "read"
    <3>1. CASE job'[s] = job[s]
      BY <1>1, <1>2, <3>1 DEF OnlyPlacedOrders, TypeOK
    <3>2. ASSUME NEW o \in Orders, Place(o) PROVE status'[o] # "none"
      BY <3>2 DEF Place, TypeOK
    <3>3. ASSUME NEW k \in Crons, NEW o \in queue[k] PROVE status'[o] # "none"
      BY <1>1 DEF OnlyPlacedOrders, TypeOK
    <3>4. QED
      BY <2>1, <3>1, <3>2, <3>3, WhoStartsJobs
  <2>2. CASE job'[s].pc = "send"
    <3>1. ASSUME ReadPrev(s) PROVE job[s].pc # "idle" /\ job'[s].order = job[s].order
      BY <2>2, <3>1 DEF ReadPrev, Idle, TypeOK, JobType
    <3>2. ASSUME NEW a \in Admins, Send(s, a)
          PROVE  job[s].pc # "idle" /\ job'[s].order = job[s].order
      BY <3>2 DEF Send, TypeOK, JobType
    <3>3. job[s].pc # "idle" /\ job'[s].order = job[s].order
      BY <2>2, <3>1, <3>2, WhoWritesJobs
    <3>4. QED
      BY <1>1, <3>3 DEF OnlyPlacedOrders, TypeOK
  <2>3. QED
    BY <1>2, <2>1, <2>2, TypeStep DEF TypeOK, JobType
<1>3. ASSUME NEW k \in Crons, NEW o \in queue'[k] PROVE status'[o] # "none"
  <2>1. o \in Orders /\ (o \in queue[k] \/ status[o] = "pending")
    <3>1. CASE UNCHANGED queue  BY <1>3, <3>1 DEF TypeOK
    <3>2. ASSUME NEW l \in Crons, CronSelect(l) PROVE o \in queue[k] \/ o \in NeedingNotification
      BY <1>3, <3>2 DEF CronSelect, TypeOK
    <3>3. ASSUME NEW l \in Crons, CronNext(l) PROVE o \in queue[k]
      BY <1>3, <3>3 DEF CronNext, TypeOK
    <3>4. ASSUME NEW s \in Senders, KillSender(s) PROVE o \in queue[k]
      BY <1>3, <3>4 DEF KillSender
    <3> QED  BY <3>1, <3>2, <3>3, <3>4, Writers DEF CronStep, NeedingNotification, TypeOK
  <2>2. QED
    BY <1>1, <2>1 DEF OnlyPlacedOrders, Placed
<1>4. ASSUME NEW c \in Calls, call'[c].pc # "idle" PROVE status'[call'[c].order] # "none"
  <2>1. ASSUME call[c].pc # "idle", call'[c].order = call[c].order
        PROVE  status'[call'[c].order] # "none"
    BY <1>1, <2>1 DEF OnlyPlacedOrders, TypeOK
  <2>2. ASSUME NEW o \in Orders, NEW v \in Verdicts, StartCall(c, o, v),
               \/ Placed(o)
               \/ \E a \in Admins : \E i \in DOMAIN chat[a] : chat[a][i].order = o
        PROVE  status'[call'[c].order] # "none"
    <3>1. call'[c].order = o /\ Placed(o)
      BY <2>2 DEF StartCall, NotCalled, OnlyPlacedOrders, TypeOK
    <3>2. QED
      BY <1>1, <3>1
  <2>3. CASE UpdateStatus(c) \/ ReadRow(c) \/ Return(c) \/ KillCall(c)
    <3>1. call[c].pc # "idle" /\ call'[c].order = call[c].order
      BY <2>3 DEF UpdateStatus, ReadRow, Return, KillCall, TypeOK, CallType
    <3>2. QED
      BY <2>1, <3>1
  <2>4. ASSUME NEW a \in Admins, Edit(c, a) PROVE status'[call'[c].order] # "none"
    <3>1. call[c].pc # "idle" /\ call'[c].order = call[c].order
      BY <2>4 DEF Edit, TypeOK, CallType
    <3>2. QED
      BY <2>1, <3>1
  <2>5. CASE call'[c] = call[c]
    BY <1>4, <2>1, <2>5
  <2>6. QED
    BY <2>2, <2>3, <2>4, <2>5, WhoWritesCalls
<1>5. ASSUME NEW a \in Admins, NEW i \in DOMAIN chat'[a]
      PROVE  status'[chat'[a][i].order] # "none"
  <2>1. \A j \in DOMAIN chat[a] : status'[chat[a][j].order] # "none"
    BY <1>1, MessagesTyped DEF OnlyPlacedOrders, MessageType
  <2>2. chat'[a][i].order \in {chat[a][j].order : j \in DOMAIN chat[a]}
           \cup {job[s].order : s \in {r \in Senders : job[r].pc = "send"}}
    <3>1. CASE UNCHANGED chat
      BY <3>1
    <3>2. ASSUME NEW s \in Senders, NEW b \in Admins, Send(s, b), chat'[a] # chat[a]
          PROVE  \/ chat'[a][i].order = job[s].order /\ job[s].pc = "send"
                 \/ i \in DOMAIN chat[a] /\ chat'[a][i] = chat[a][i]
      <4> DEFINE m == Message(job[s].order, "buttons")
      <4>1. a = b /\ job[s].pc = "send" /\ chat'[a] = Append(chat[a], m)
        BY <3>2 DEF Send, TypeOK
      <4>2. chat[a] \in Seq(MessageType) /\ m \in MessageType
        BY <4>1 DEF TypeOK, Message, MessageType
      <4>3. Len(chat[a]) \in Nat /\ DOMAIN chat[a] = 1..Len(chat[a])
        BY <4>2, LenProperties
      <4>4. /\ DOMAIN chat'[a] = 1..(Len(chat[a]) + 1)
            /\ \A j \in 1..Len(chat[a]) : chat'[a][j] = chat[a][j]
            /\ chat'[a][Len(chat[a]) + 1] = m
        BY <4>1, <4>2, <4>3, AppendProperties, LenProperties
      <4>5. QED
        BY <4>1, <4>3, <4>4 DEF Message
    <3>3. ASSUME NEW c \in Calls, NEW b \in Admins, Edit(c, b)
          PROVE  i \in DOMAIN chat[a] /\ chat'[a][i].order = chat[a][i].order
      <4>1. DOMAIN chat'[a] = DOMAIN chat[a]
        <5>1. \/ chat' = chat
              \/ chat' = [chat EXCEPT ![b][call[c].todo[b]].shows = call[c].text]
          BY <3>3 DEF Edit
        <5>2. chat[a] \in Seq(MessageType)
          BY DEF TypeOK
        <5>3. QED
          BY <5>1, <5>2 DEF TypeOK
      <4>2. Names(i, a, chat[a][i].order) /\ chat[a][i].order \in Orders
        BY <4>1, MessagesTyped DEF Names, MessageType
      <4>3. QED
        BY <4>1, <4>2, NamesStable
    <3>4. QED
      BY <3>1, <3>2, <3>3, WhoWritesChats
  <2>3. QED
    BY <1>1, <2>1, <2>2 DEF OnlyPlacedOrders, TypeOK
<1>6. QED
  BY <1>2, <1>3, <1>4, <1>5 DEF OnlyPlacedOrders, Placed

LEMMA IdsInRowsStep ==
    ASSUME TypeOK, IdsInRows, IdsInSenders, [Next]_vars
    PROVE  IdsInRows'
<1> SUFFICES ASSUME NEW o \in Orders, NEW a \in Admins, tg'[o].entries[a] # 0
             PROVE  /\ tg'[o].entries[a] \in DOMAIN chat'[a]
                    /\ chat'[a][tg'[o].entries[a]].order = o
  BY DEF IdsInRows, Names
<1>1. CASE tg'[o] = tg[o]
  BY <1>1, NamesStable DEF IdsInRows
<1>2. CASE tg'[o] # tg[o]
  <2>1. PICK s \in Senders : Save(s)
    BY <1>2, WhoWritesRows
  <2>2. /\ job[s].pc = "send" /\ job[s].order = o
        /\ tg'[o].entries = Merge(job[s].prev, job[s].fresh)
    BY <1>2, <2>1 DEF Save, TypeOK
  <2>3. tg'[o].entries[a] \in {job[s].prev[a], job[s].fresh[a]}
    BY <2>2 DEF Merge
  <2>4. Names(tg'[o].entries[a], a, o)
    BY <2>2, <2>3 DEF IdsInSenders
  <2>5. QED
    BY <2>4, NamesStable
<1>3. QED
  BY <1>1, <1>2

LEMMA IdsInSendersStep ==
    ASSUME TypeOK, IdsInRows, IdsInSenders, [Next]_vars
    PROVE  IdsInSenders'
<1> SUFFICES ASSUME NEW s \in Senders, job'[s].pc = "send", NEW a \in Admins
             PROVE  \A i \in {job'[s].prev[a], job'[s].fresh[a]} : i # 0 =>
                       i \in DOMAIN chat'[a] /\ chat'[a][i].order = job'[s].order
  BY DEF IdsInSenders, Names
<1>1. CASE job'[s] = job[s]
  BY <1>1, NamesStable DEF IdsInSenders, TypeOK
<1>2. CASE ReadPrev(s)
  <2> DEFINE o == job[s].order
  <2>1. o \in Orders /\ job'[s].order = o
    BY <1>2 DEF ReadPrev, TypeOK, Idle, JobType
  <2>2. job'[s].fresh = NoEntries
    BY <1>2 DEF ReadPrev, TypeOK, Idle, JobType
  <2>3. job'[s].prev \in {tg[o].entries, NoEntries}
    BY <1>2 DEF ReadPrev, TypeOK, Idle, JobType
  <2>4. QED
    BY <2>1, <2>2, <2>3, NamesStable DEF IdsInRows, NoEntries
<1>3. ASSUME NEW b \in Admins, Send(s, b)
      PROVE  \A i \in {job'[s].prev[a], job'[s].fresh[a]} : i # 0 =>
                i \in DOMAIN chat'[a] /\ chat'[a][i].order = job'[s].order
  <2> DEFINE o == job[s].order
  <2>1. /\ o \in Orders /\ job'[s].order = o /\ job[s].pc = "send"
        /\ job'[s].prev = job[s].prev
    BY <1>3 DEF Send, TypeOK, JobType
  <2>2. CASE job'[s].fresh[a] = job[s].fresh[a]
    BY <2>1, <2>2, NamesStable DEF IdsInSenders
  <2>3. CASE job'[s].fresh[a] # job[s].fresh[a]
    <3>1. /\ a = b /\ job'[s].fresh[a] = Len(chat[a]) + 1
          /\ chat' = [chat EXCEPT ![a] = Append(@, Message(o, "buttons"))]
      <4>1. job[s].fresh \in Entries /\ job[s] \in JobType
        BY <2>1 DEF TypeOK, JobType
      <4>2. job' # [job EXCEPT ![s].todo = @ \ {b}]
        BY <2>3 DEF TypeOK, JobType
      <4>3. /\ job' = [job EXCEPT ![s].todo = @ \ {b}, ![s].fresh[b] = Len(chat[b]) + 1]
            /\ chat' = [chat EXCEPT ![b] = Append(@, Message(o, "buttons"))]
        BY <1>3, <4>2 DEF Send
      <4>4. job'[s].fresh = [job[s].fresh EXCEPT ![b] = Len(chat[b]) + 1]
        BY <4>1, <4>3 DEF TypeOK, JobType
      <4>5. QED
        BY <2>3, <4>1, <4>3, <4>4 DEF Entries
    <3>2. chat[a] \in Seq(MessageType) /\ Message(o, "buttons") \in MessageType
      BY <2>1 DEF TypeOK, Message, MessageType
    <3>3. Len(chat[a]) \in Nat
      BY <3>2, LenProperties
    <3>4. /\ Append(chat[a], Message(o, "buttons"))[Len(chat[a]) + 1] = Message(o, "buttons")
          /\ DOMAIN Append(chat[a], Message(o, "buttons")) = 1..(Len(chat[a]) + 1)
      BY <3>2, <3>3, AppendProperties, LenProperties
    <3>5. /\ Len(chat[a]) + 1 \in DOMAIN chat'[a]
          /\ chat'[a][Len(chat[a]) + 1].order = o
      BY <3>1, <3>3, <3>4 DEF TypeOK, Message
    <3>6. QED
      BY <2>1, <3>1, <3>5, NamesStable DEF IdsInSenders
  <2>4. QED
    BY <2>2, <2>3
<1>4. QED
  BY <1>1, <1>2, <1>3, WhoWritesJobs

LEMMA IdsInCallsStep ==
    ASSUME TypeOK, IdsInRows, IdsInCalls, [Next]_vars
    PROVE  IdsInCalls'
<1> SUFFICES ASSUME NEW c \in Calls, call'[c].pc = "edit", NEW a \in Admins,
                    call'[c].todo[a] # 0
             PROVE  /\ call'[c].todo[a] \in DOMAIN chat'[a]
                    /\ chat'[a][call'[c].todo[a]].order = call'[c].order
  BY DEF IdsInCalls, Names
<1> DEFINE o == call[c].order
<1>1. CASE call'[c] = call[c]
  BY <1>1, NamesStable DEF IdsInCalls, TypeOK
<1>2. CASE ReadRow(c)
  <2>1. o \in Orders /\ call'[c].order = o /\ call'[c].todo = tg[o].entries
    BY <1>2 DEF ReadRow, TypeOK, CallType
  <2>2. QED
    BY <2>1, NamesStable DEF IdsInRows
<1>3. ASSUME NEW b \in Admins, Edit(c, b)
      PROVE  /\ call'[c].todo[a] \in DOMAIN chat'[a]
             /\ chat'[a][call'[c].todo[a]].order = call'[c].order
  <2>1. o \in Orders /\ call'[c].order = o /\ call[c].pc = "edit"
    BY <1>3 DEF Edit, TypeOK, CallType
  <2>2. call'[c].todo[a] = call[c].todo[a]
    BY <1>3 DEF Edit, TypeOK, CallType, Entries
  <2>3. QED
    BY <2>1, <2>2, NamesStable DEF IdsInCalls
<1>4. ASSUME NEW p, NEW v, StartCall(c, p, v) PROVE call'[c].pc = "update"
  BY <1>4 DEF StartCall, NotCalled, TypeOK
<1>5. ASSUME UpdateStatus(c) \/ Return(c) \/ KillCall(c) PROVE call'[c].pc # "edit"
  BY <1>5 DEF UpdateStatus, Return, KillCall, TypeOK, CallType
<1>6. QED
  BY <1>1, <1>2, <1>3, <1>4, <1>5, WhoWritesCalls

\* A list whose length reaches the number of admins has a message for each.
LEMMA AllDoneMeansFull ==
    ASSUME NEW e \in Entries, AllDone(e)
    PROVE  \A a \in Admins : e[a] # 0
<1> DEFINE have == {a \in Admins : e[a] # 0}
<1>1. have \subseteq Admins /\ IsFiniteSet(Admins)
  BY DeskAssumption
<1>2. Cardinality(have) <= Cardinality(Admins) /\ IsFiniteSet(have)
  BY <1>1, FS_Subset
<1>3. Cardinality(have) \in Nat /\ Cardinality(Admins) \in Nat
  BY <1>1, <1>2, FS_CardinalityType
<1>4. Cardinality(have) = Cardinality(Admins)
  BY <1>2, <1>3 DEF AllDone
<1>5. have = Admins
  BY <1>1, <1>4, FS_Subset
<1>6. QED
  BY <1>5

LEMMA MarkedMeansFullStep ==
    ASSUME TypeOK, MarkedMeansFull, [Next]_vars
    PROVE  MarkedMeansFull'
<1> SUFFICES ASSUME NEW o \in Orders, tg'[o].notified
             PROVE  \A a \in Admins : tg'[o].entries[a] # 0
  BY DEF MarkedMeansFull
<1>1. CASE tg'[o] = tg[o]
  BY <1>1 DEF MarkedMeansFull
<1>2. CASE tg'[o] # tg[o]
  <2>1. PICK s \in Senders : Save(s)
    BY <1>2, WhoWritesRows
  <2> DEFINE e == Merge(job[s].prev, job[s].fresh)
  <2>2. tg'[o].entries = e /\ tg'[o].notified = AllDone(e)
    <3>1. tg' = [tg EXCEPT ![job[s].order] = [entries |-> e, notified |-> AllDone(e)]]
      BY <1>2, <2>1 DEF Save
    <3>2. QED
      BY <1>2, <3>1 DEF TypeOK
  <2>3. e \in Entries
    BY DEF TypeOK, JobType, Entries, Merge
  <2>4. QED
    BY <2>2, <2>3, AllDoneMeansFull
<1>3. QED
  BY <1>1, <1>2

LEMMA CallsKnowVerdictStep ==
    ASSUME TypeOK, OnlyPlacedOrders, CallsKnowVerdict, [Next]_vars
    PROVE  CallsKnowVerdict'
<1> SUFFICES ASSUME NEW c \in Calls
             PROVE  /\ call'[c].pc \in {"idle", "update"} => ~call'[c].updated
                    /\ call'[c].updated => status'[call'[c].order] = call'[c].verdict
                    /\ call'[c].pc \in {"read", "edit"} => status'[call'[c].order] \in Verdicts
                    /\ call'[c].pc = "edit" => call'[c].text = status'[call'[c].order]
  BY DEF CallsKnowVerdict, Decided
<1> DEFINE o == call[c].order
<1>1. /\ call[c].pc # "idle" => o \in Orders /\ call[c].verdict \in Verdicts
      /\ call[c].updated => call[c].pc # "idle"
      /\ call[c].pc \in {"idle", "update", "read", "edit", "returned", "failed"}
      /\ call[c].updated \in BOOLEAN
  BY DEF TypeOK, CallType, CallsKnowVerdict
<1>2. /\ call[c].updated => status[o] = call[c].verdict /\ status'[o] = status[o]
      /\ call[c].pc \in {"read", "edit"} => status[o] \in Verdicts /\ status'[o] = status[o]
  BY <1>1, DecisionStable DEF CallsKnowVerdict, Decided
<1>3. CASE call'[c] = call[c]
  BY <1>2, <1>3 DEF CallsKnowVerdict
<1>4. ASSUME NEW p \in Orders, NEW v \in Verdicts, StartCall(c, p, v)
      PROVE  call'[c] = [NotCalled EXCEPT !.pc = "update", !.order = p, !.verdict = v]
  BY <1>4 DEF StartCall, TypeOK
<1>5. CASE UpdateStatus(c)
  <2>1. o \in Orders /\ ~call[c].updated /\ call'[c].order = o
        /\ call'[c].verdict = call[c].verdict /\ call[c].verdict \in Verdicts
    BY <1>1, <1>5 DEF UpdateStatus, CallsKnowVerdict, TypeOK, CallType
  <2>2. CASE call'[c].pc = "failed"
    <3>1. call' = [call EXCEPT ![c].pc = "failed"]
             \/ call' = [call EXCEPT ![c].pc = "read", ![c].updated = (status[o] = "pending")]
      BY <1>5 DEF UpdateStatus
    <3>2. call' = [call EXCEPT ![c].pc = "failed"]
      BY <2>2, <3>1 DEF TypeOK, CallType
    <3>3. ~call'[c].updated
      BY <2>1, <3>2 DEF TypeOK, CallType
    <3>4. QED
      BY <2>2, <3>3
  <2>3. CASE call'[c].pc # "failed"
    <3>1. /\ call'[c].pc = "read"
          /\ call'[c].updated = (status[o] = "pending")
          /\ status' = IF status[o] = "pending"
                       THEN [status EXCEPT ![o] = call[c].verdict] ELSE status
      BY <1>5, <2>3 DEF UpdateStatus, TypeOK, CallType
    <3>2. status[o] # "none"
      BY <1>5 DEF UpdateStatus, OnlyPlacedOrders, Placed
    <3>3. QED
      BY <2>1, <3>1, <3>2 DEF TypeOK
  <2>4. QED
    BY <2>2, <2>3
<1>6. CASE ReadRow(c)
  <2>1. /\ call[c].pc = "read" /\ call'[c].order = o /\ call'[c].updated = call[c].updated
        /\ call'[c].verdict = call[c].verdict
        /\ \/ call'[c].pc = "failed"
           \/ call'[c].pc = "edit" /\ call'[c].text = NewText(c)
    BY <1>6 DEF ReadRow, TypeOK, CallType
  <2>2. NewText(c) = status[o]
    BY <1>2, <2>1 DEF NewText, Decided
  <2>3. QED
    BY <1>2, <2>1, <2>2
<1>7. ASSUME NEW a \in Admins, Edit(c, a)
      PROVE  call[c].pc = "edit" /\ call'[c] = [call[c] EXCEPT !.todo = [@ EXCEPT ![a] = 0]]
  BY <1>7 DEF Edit, TypeOK, CallType
<1>8. ASSUME Return(c) \/ KillCall(c)
      PROVE  \E pc \in {"returned", "failed"} : call'[c] = [call[c] EXCEPT !.pc = pc]
  BY <1>8 DEF Return, KillCall, TypeOK
<1>9. call[c] \in CallType
  BY DEF TypeOK
<1>10. CASE \E a \in Admins : Edit(c, a)
  BY <1>2, <1>7, <1>9, <1>10 DEF CallType, CallsKnowVerdict
<1>11. CASE Return(c) \/ KillCall(c)
  BY <1>2, <1>8, <1>9, <1>11 DEF CallType
<1>12. QED
  BY <1>3, <1>4, <1>5, <1>6, <1>10, <1>11, WhoWritesCalls DEF NotCalled

LEMMA MessagesStep ==
    ASSUME TypeOK, OnlyPlacedOrders, IdsInCalls, CallsKnowVerdict,
           MessagesTellTheVerdict, [Next]_vars
    PROVE  MessagesTellTheVerdict'
<1> SUFFICES ASSUME NEW a \in Admins, NEW i \in DOMAIN chat'[a],
                    chat'[a][i].shows # "buttons"
             PROVE  chat'[a][i].shows = status'[chat'[a][i].order]
  BY DEF MessagesTellTheVerdict
<1>1. ASSUME i \in DOMAIN chat[a], chat'[a][i] = chat[a][i]
      PROVE  chat'[a][i].shows = status'[chat'[a][i].order]
  <2>1. chat[a][i] \in MessageType
    BY <1>1, MessagesTyped
  <2>2. /\ chat[a][i].shows = status[chat[a][i].order]
        /\ chat[a][i].shows \in Verdicts \cup {"gone"}
        /\ chat[a][i].order \in Orders
    BY <1>1, <2>1 DEF MessagesTellTheVerdict, MessageType
  <2>3. Decided(chat[a][i].order)
    BY <2>2 DEF Decided, TypeOK, Verdicts
  <2>4. QED
    BY <1>1, <2>2, <2>3, DecisionStable
<1>2. ASSUME NEW s \in Senders, NEW b \in Admins, Send(s, b)
      PROVE  i \in DOMAIN chat[a] /\ chat'[a][i] = chat[a][i]
  <2> DEFINE m == Message(job[s].order, "buttons")
  <2>1. CASE chat'[a] = chat[a]
    BY <2>1
  <2>2. CASE chat'[a] # chat[a]
    <3>1. job[s].pc = "send" /\ chat'[a] = Append(chat[a], m)
      BY <1>2, <2>2 DEF Send, TypeOK
    <3>2. chat[a] \in Seq(MessageType) /\ m \in MessageType
      BY <3>1 DEF TypeOK, Message, MessageType
    <3>3. Len(chat[a]) \in Nat /\ DOMAIN chat[a] = 1..Len(chat[a])
      BY <3>2, LenProperties
    <3>4. /\ DOMAIN chat'[a] = 1..(Len(chat[a]) + 1)
          /\ \A j \in 1..Len(chat[a]) : chat'[a][j] = chat[a][j]
          /\ chat'[a][Len(chat[a]) + 1] = m
      BY <3>1, <3>2, <3>3, AppendProperties, LenProperties
    <3>5. i # Len(chat[a]) + 1
      BY <3>4 DEF Message
    <3>6. QED
      BY <3>3, <3>4, <3>5
  <2>3. QED
    BY <2>1, <2>2
<1>3. ASSUME NEW c \in Calls, NEW b \in Admins, Edit(c, b)
      PROVE  chat'[a][i].shows = status'[chat'[a][i].order]
  <2> DEFINE j == call[c].todo[b]
  <2>1. /\ i \in DOMAIN chat[a]
        /\ call[c].pc = "edit" /\ j # 0 /\ UNCHANGED status
    BY <1>3 DEF Edit, TypeOK
  <2>2. chat[a][i] \in MessageType
    BY <2>1, MessagesTyped
  <2>3. CASE a = b /\ i = j /\ chat'[a] # chat[a]
    <3>1. chat'[a][i] = [chat[a][i] EXCEPT !.shows = call[c].text]
      BY <1>3, <2>1, <2>3 DEF Edit, TypeOK
    <3>2. chat[a][i].order = call[c].order
      BY <2>1, <2>3 DEF IdsInCalls, Names
    <3>3. call[c].text = status[call[c].order]
      BY <2>1 DEF CallsKnowVerdict
    <3>4. QED
      BY <2>1, <2>2, <3>1, <3>2, <3>3 DEF MessageType
  <2>4. CASE ~(a = b /\ i = j /\ chat'[a] # chat[a])
    <3>1. chat'[a][i] = chat[a][i]
      BY <1>3, <2>1, <2>4 DEF Edit, TypeOK
    <3>2. QED
      BY <1>1, <2>1, <3>1
  <2>5. QED
    BY <2>3, <2>4
<1>4. QED
  BY <1>1, <1>2, <1>3, WhoWritesChats

LEMMA InvStep == TypeOK /\ DeskInv /\ [Next]_vars => DeskInv'
  BY OnlyPlacedOrdersStep, IdsInRowsStep, IdsInSendersStep, IdsInCallsStep,
     MarkedMeansFullStep, CallsKnowVerdictStep, MessagesStep DEF DeskInv

THEOREM DeskInvariant == Spec => []DeskInv
  BY InvInit, InvStep, DeskTypeCorrect, PTL DEF Spec

\* However senders overlap, fail or overwrite each other's lists, a row marked
\* tg_notified holds for every admin the id of a message about that order.
THEOREM NotifiedOrdersReachEveryAdmin == Spec => []NotifiedMeansEveryAdminHasMessage
<1>1. DeskInv => NotifiedMeansEveryAdminHasMessage
  BY DEF DeskInv, IdsInRows, MarkedMeansFull, NotifiedMeansEveryAdminHasMessage
<1>2. QED
  BY <1>1, DeskInvariant, PTL

\* A rewritten message says what its order's row says, and no message ever
\* says that the order was not found.
THEOREM RewrittenMessagesAreTrue == Spec => []MessagesTellTheVerdict
<1>1. DeskInv => MessagesTellTheVerdict
  BY DEF DeskInv
<1>2. QED
  BY <1>1, DeskInvariant, PTL

-----------------------------------------------------------------------------
(* Telegram and the table.                                                 *)

\* Entry n is the only message about o in the chat of a; 0 = there is none.
Only(n, a, o) == \A i \in DOMAIN chat[a] : chat[a][i].order = o => i = n

\* The row names every message there is about o, and nobody is to send one.
Complete(o) ==
    /\ \A a \in Admins : tg[o].entries[a] # 0 /\ Only(tg[o].entries[a], a, o)
    /\ \A s \in Senders : ~(job[s].pc = "send" /\ job[s].order = o)

\* Sender s has asked nobody yet, or holds the id of each message it has sent.
Announces(s, o) ==
    \/ /\ job[s].pc = "read"
       /\ \A a \in Admins : Only(0, a, o)
    \/ /\ job[s].pc = "send" /\ job[s].prev = NoEntries
       /\ \A a \in Admins : /\ Only(job[s].fresh[a], a, o)
                            /\ job[s].fresh[a] = 0 <=> a \in job[s].todo

\* The first sender of o is under way, alone, and o is not decided yet.
Announced(o) ==
    /\ status[o] = "pending" /\ tg[o].entries = NoEntries
    /\ \E s \in Senders : /\ Sending(s, o) /\ Announces(s, o)
                          /\ \A r \in Senders : Sending(r, o) => r = s

\* A call is about to rewrite the messages about o that still have buttons.
Rewriting(c, o) ==
    /\ call[c].order = o
    /\ \/ call[c].pc = "read"
       \/ call[c].pc = "edit" /\ \A a \in Admins : \A i \in Open(a, o) : call[c].todo[a] = i

\* The sender that a request runs has no order but the one it has placed.
OwnOrders == \A s \in Orders : job[s].pc # "idle" => job[s].order = s

\* What holds of a placed, and of a decided, order that nothing has disturbed.
Settled(o) == Complete(o) \/ Announced(o)
Rewritten(o) == (\A a \in Admins : Open(a, o) = {}) \/ \E c \in Calls : Rewriting(c, o)

SyncInv ==
    /\ OwnOrders
    /\ \A o \in Orders \ disturbed :
          /\ Placed(o) => Settled(o)
          /\ Decided(o) => Rewritten(o)

\* What a step adds to a chat: a message at its end, or another text.
LEMMA Appended ==
    ASSUME TypeOK, NEW p \in Orders, NEW b \in Admins,
           chat' = [chat EXCEPT ![b] = Append(@, Message(p, "buttons"))],
           NEW a \in Admins, NEW i \in DOMAIN chat'[a]
    PROVE  \/ i \in DOMAIN chat[a] /\ chat'[a][i] = chat[a][i]
           \/ a = b /\ i = Len(chat[b]) + 1 /\ chat'[a][i] = Message(p, "buttons")
<1>1. chat[b] \in Seq(MessageType) /\ Message(p, "buttons") \in MessageType
  BY DEF TypeOK, Message, MessageType
<1>2. CASE a = b
  <2>1. chat'[a] = Append(chat[b], Message(p, "buttons"))  BY <1>2 DEF TypeOK
  <2>2. i \in 1..(Len(chat[b]) + 1) /\ DOMAIN chat[b] = 1..Len(chat[b]) /\ Len(chat[b]) \in Nat
    BY <1>1, <2>1, AppendProperties, LenProperties
  <2>3. CASE i = Len(chat[b]) + 1  BY <1>1, <1>2, <2>1, <2>3, AppendProperties
  <2>4. CASE i # Len(chat[b]) + 1
    <3>1. i \in 1..Len(chat[b])  BY <2>2, <2>4
    <3> QED  BY <1>1, <1>2, <2>1, <2>2, <3>1, AppendProperties
  <2> QED  BY <2>3, <2>4
<1>3. CASE a # b  BY <1>3 DEF TypeOK
<1> QED  BY <1>2, <1>3

LEMMA Rewrote ==
    ASSUME TypeOK, NEW b \in Admins, NEW j, NEW t,
           chat' = [chat EXCEPT ![b][j].shows = t],
           NEW a \in Admins, NEW i \in DOMAIN chat'[a]
    PROVE  /\ i \in DOMAIN chat[a] /\ chat'[a][i].order = chat[a][i].order
           /\ chat'[a][i] = chat[a][i] \/ (a = b /\ i = j /\ chat'[a][i].shows = t)
<1>1. CASE a = b
  <2>1. chat'[a] = [chat[a] EXCEPT ![j].shows = t]  BY <1>1 DEF TypeOK
  <2>2. i \in DOMAIN chat[a]  BY <2>1
  <2>3. chat[a][i] \in MessageType  BY <2>2, MessagesTyped
  <2>4. CASE i = j
    <3>1. chat'[a][i] = [chat[a][i] EXCEPT !.shows = t]  BY <2>1, <2>2, <2>4
    <3> QED  BY <1>1, <2>2, <2>3, <2>4, <3>1 DEF MessageType
  <2>5. CASE i # j  BY <2>1, <2>2, <2>5
  <2> QED  BY <2>4, <2>5
<1>2. CASE a # b  BY <1>2 DEF TypeOK
<1> QED  BY <1>1, <1>2

LEMMA RewroteText ==
    ASSUME TypeOK, NEW b \in Admins, NEW j, NEW t,
           chat' = [chat EXCEPT ![b][j].shows = t], j \in DOMAIN chat'[b]
    PROVE  chat'[b][j].shows = t
<1>1. chat'[b] = [chat[b] EXCEPT ![j].shows = t]  BY DEF TypeOK
<1>2. j \in DOMAIN chat[b]  BY <1>1
<1>3. chat[b][j] \in MessageType  BY <1>2, MessagesTyped
<1>4. chat'[b][j] = [chat[b][j] EXCEPT !.shows = t]  BY <1>1, <1>2
<1> QED  BY <1>3, <1>4 DEF MessageType

\* A step that is no business of o's: its row, the messages about it and its
\* senders stay as they are.
LEMMA SettledKept ==
    ASSUME NEW o \in Orders, Settled(o), status'[o] = status[o], tg'[o] = tg[o],
           \A a \in Admins : \A i \in DOMAIN chat'[a] :
               chat'[a][i].order = o => i \in DOMAIN chat[a] /\ chat[a][i].order = o,
           \A s \in Senders : job'[s] = job[s] \/ (~Sending(s, o) /\ ~Sending(s, o)')
    PROVE  Settled(o)'
<1>1. \A n, a : a \in Admins /\ Only(n, a, o) => Only(n, a, o)'
  BY DEF Only
<1>2. CASE Complete(o)
  <2>1. \A s \in Senders : ~(job'[s].pc = "send" /\ job'[s].order = o)
    BY <1>2 DEF Complete, Sending
  <2> QED  BY <1>1, <1>2, <2>1 DEF Complete, Settled
<1>3. CASE Announced(o)
  <2>1. PICK s \in Senders : /\ Sending(s, o) /\ Announces(s, o)
                             /\ \A r \in Senders : Sending(r, o) => r = s
    BY <1>3 DEF Announced
  <2>2. job'[s] = job[s]  BY <2>1
  <2>3. Announces(s, o)'  BY <1>1, <2>1, <2>2 DEF Announces
  <2>4. Sending(s, o)'  BY <2>1, <2>2 DEF Sending
  <2>5. \A r \in Senders : job'[r] = job[r] => (Sending(r, o)' <=> Sending(r, o))  BY DEF Sending
  <2>6. ASSUME NEW r \in Senders, Sending(r, o)' PROVE r = s
    <3>1. job'[r] = job[r]  BY <2>6
    <3>2. Sending(r, o)  BY <2>5, <2>6, <3>1
    <3> QED  BY <2>1, <3>2
  <2> QED  BY <1>3, <2>3, <2>4, <2>6 DEF Announced, Settled
<1> QED  BY <1>2, <1>3 DEF Settled

\* A fault in the business of o disturbs it.
LEMMA DisturbedGrows == [Next]_vars => disturbed \subseteq disturbed'
<1> SUFFICES ASSUME [Next]_vars PROVE disturbed \subseteq disturbed'
  OBVIOUS
<1> USE DEF Works, Fails
<1>1. ASSUME NEW o \in Orders, Place(o) \/ BecomeDue(o) \/ Expire(o)
      PROVE  disturbed \subseteq disturbed'
  BY <1>1 DEF Place, StartJob, BecomeDue, Expire
<1>2. ASSUME NEW k \in Crons, CronStep(k) PROVE disturbed \subseteq disturbed'
  BY <1>2 DEF CronStep, CronSelect, CronNext, StartJob
<1>3. ASSUME NEW s \in Senders, SenderStep(s) \/ KillSender(s) PROVE disturbed \subseteq disturbed'
  BY <1>3 DEF SenderStep, ReadPrev, Send, Save, KillSender
<1>4. ASSUME NEW c \in Calls, PressButton(c) \/ PatchOrder(c) PROVE disturbed \subseteq disturbed'
  BY <1>4 DEF PressButton, PatchOrder, StartCall
<1>5. ASSUME NEW c \in Calls, CallStep(c) \/ KillCall(c) PROVE disturbed \subseteq disturbed'
  BY <1>5 DEF CallStep, UpdateStatus, ReadRow, Edit, Return, KillCall
<1> HIDE DEF Works, Fails
<1> QED  BY <1>1, <1>2, <1>3, <1>4, <1>5 DEF Next, vars

LEMMA OwnOrdersStep == TypeOK /\ OwnOrders /\ [Next]_vars => OwnOrders'
<1> SUFFICES ASSUME TypeOK, OwnOrders, [Next]_vars, NEW s \in Orders, job'[s].pc # "idle"
             PROVE  job'[s].order = s
  BY DEF OwnOrders
<1>0. s \in Senders /\ s \notin Crons  BY DeskAssumption DEF Senders
<1>1. \/ UNCHANGED job
      \/ \E p \in Orders : Place(p)
      \/ \E k \in Crons : CronNext(k)
      \/ \E r \in Senders : \/ ReadPrev(r) \/ (\E a \in Admins : Send(r, a))
                            \/ job' = [job EXCEPT ![r] = Idle]
  BY Writers
<1>2. ASSUME NEW p \in Orders, Place(p) PROVE job'[s].order = s
  <2>1. job' = [job EXCEPT ![p] = [Idle EXCEPT !.pc = "read", !.order = p]]
    BY <1>2 DEF Place, StartJob
  <2>2. CASE p = s  BY <1>0, <2>1, <2>2 DEF TypeOK, Idle
  <2>3. CASE p # s  BY <1>0, <2>1, <2>3 DEF TypeOK, OwnOrders
  <2> QED  BY <2>2, <2>3
<1>3. ASSUME NEW k \in Crons, CronNext(k) PROVE job'[s].order = s
  <2>1. job'[s] = job[s]  BY <1>0, <1>3 DEF CronNext, StartJob, TypeOK
  <2> QED  BY <2>1 DEF OwnOrders
<1>4. ASSUME NEW r \in Senders, ReadPrev(r) PROVE job'[s].order = s
  <2>1. job[r].pc = "read" /\ (r # s => job'[s] = job[s])
    BY <1>0, <1>4 DEF ReadPrev, TypeOK
  <2>2. job'[r] = Idle \/ job'[r].order = job[r].order
    BY <1>4 DEF ReadPrev, TypeOK, JobType
  <2> QED  BY <2>1, <2>2 DEF OwnOrders, Idle
<1>5. ASSUME NEW r \in Senders, NEW a \in Admins, Send(r, a) PROVE job'[s].order = s
  <2>1. job[r].pc = "send" /\ (r # s => job'[s] = job[s]) /\ job'[r].order = job[r].order
    BY <1>0, <1>5 DEF Send, TypeOK, JobType
  <2> QED  BY <2>1 DEF OwnOrders
<1>6. ASSUME NEW r \in Senders, job' = [job EXCEPT ![r] = Idle] PROVE job'[s].order = s
  BY <1>0, <1>6 DEF TypeOK, OwnOrders, Idle
<1> QED  BY <1>1, <1>2, <1>3, <1>4, <1>5, <1>6 DEF OwnOrders

\* A row that does not exist has no list, no sender, and no message is about it.
LEMMA NothingBefore ==
    ASSUME TypeOK, DeskInv, NEW o \in Orders, ~Placed(o)
    PROVE  /\ tg[o].entries = NoEntries
           /\ \A s \in Senders : ~Sending(s, o)
           /\ \A a \in Admins : \A i \in DOMAIN chat[a] : chat[a][i].order # o
<1>1. \A s \in Senders : ~Sending(s, o)
  BY DEF DeskInv, OnlyPlacedOrders, Sending
<1>2. \A a \in Admins : \A i \in DOMAIN chat[a] : chat[a][i].order # o
  BY DEF DeskInv, OnlyPlacedOrders
<1>3. \A a \in Admins : tg[o].entries[a] = 0
  BY <1>2 DEF DeskInv, IdsInRows, Names
<1>4. tg[o].entries \in [Admins -> Nat]  BY DEF TypeOK, Entries
<1>5. tg[o].entries = NoEntries  BY <1>3, <1>4 DEF NoEntries
<1> QED  BY <1>1, <1>2, <1>5

LEMMA SettledByPlace ==
    ASSUME TypeOK, DeskInv, OwnOrders, NEW o \in Orders, NEW p \in Orders, Place(p),
           Placed(o)', Placed(o) => Settled(o)
    PROVE  Settled(o)'
<1>1. /\ status[p] = "none" /\ status' = [status EXCEPT ![p] = "pending"]
      /\ job' = [job EXCEPT ![p] = [Idle EXCEPT !.pc = "read", !.order = p]]
      /\ UNCHANGED <<tg, chat>>
  BY DEF Place, StartJob
<1>2. \A s \in Senders : s # p => job'[s] = job[s]
  BY <1>1, SendersAreOrdersOrCrons DEF TypeOK
<1>3. job'[p].pc = "read" /\ job'[p].order = p /\ p \in Senders
  BY <1>1, SendersAreOrdersOrCrons DEF TypeOK, Idle
<1>4. CASE o = p
  <2>1. /\ tg[o].entries = NoEntries
        /\ \A s \in Senders : ~Sending(s, o)
        /\ \A a \in Admins : \A i \in DOMAIN chat[a] : chat[a][i].order # o
    BY <1>1, <1>4, NothingBefore DEF Placed
  <2>2. status'[o] = "pending" /\ tg'[o].entries = NoEntries
    BY <1>1, <1>4, <2>1 DEF TypeOK
  <2>3. Announces(p, o)'  BY <1>1, <1>3, <2>1 DEF Announces, Only
  <2>4. Sending(p, o)' /\ \A r \in Senders : Sending(r, o)' => r = p
    BY <1>2, <1>3, <1>4, <2>1 DEF Sending
  <2> QED  BY <1>3, <2>2, <2>3, <2>4 DEF Settled, Announced
<1>5. CASE o # p
  <2>1. status'[o] = status[o] /\ tg'[o] = tg[o]  BY <1>1, <1>5 DEF TypeOK
  <2>2. ~Sending(p, o) /\ ~Sending(p, o)'  BY <1>3, <1>5 DEF OwnOrders, Sending
  <2> QED  BY <1>1, <1>2, <2>1, <2>2, SettledKept DEF Placed
<1> QED  BY <1>4, <1>5

LEMMA SettledByCron ==
    ASSUME TypeOK, NEW o \in Orders \ disturbed', NEW k \in Crons, CronNext(k), Settled(o)
    PROVE  Settled(o)'
<1>1. PICK p \in queue[k] : StartJob(k, p)  BY DEF CronNext
<1>2. /\ job' = [job EXCEPT ![k] = [Idle EXCEPT !.pc = "read", !.order = p]]
      /\ disturbed' = disturbed \cup {q \in {p} : \E r \in Senders : Sending(r, q)}
      /\ UNCHANGED <<status, tg, chat>> /\ job[k].pc = "idle" /\ k \in Senders
  BY <1>1, SendersAreOrdersOrCrons DEF StartJob, CronNext
<1>3. \A s \in Senders : s # k => job'[s] = job[s]  BY <1>2 DEF TypeOK
<1>4. job'[k].pc = "read" /\ job'[k].order = p  BY <1>2 DEF TypeOK, Idle
<1>5. CASE o = p
  <2>1. \A s \in Senders : ~Sending(s, o)  BY <1>2, <1>5
  <2>2. Complete(o)  BY <2>1 DEF Settled, Announced
  <2>3. \A s \in Senders : ~(job'[s].pc = "send" /\ job'[s].order = o)
    BY <1>3, <1>4, <2>2 DEF Complete
  <2> QED  BY <1>2, <2>2, <2>3 DEF Settled, Complete, Only
<1>6. CASE o # p
  <2>1. ~Sending(k, o) /\ ~Sending(k, o)'  BY <1>2, <1>4, <1>6 DEF Sending
  <2> QED  BY <1>2, <1>3, <2>1, SettledKept
<1> QED  BY <1>5, <1>6

LEMMA SettledByRead ==
    ASSUME TypeOK, NEW o \in Orders \ disturbed', NEW s \in Senders, ReadPrev(s), Settled(o)
    PROVE  Settled(o)'
<1>1. job[s].pc = "read" /\ UNCHANGED <<status, tg, chat>> /\ s \in Senders  BY DEF ReadPrev
<1>2. \A r \in Senders : r # s => job'[r] = job[r]  BY DEF ReadPrev, TypeOK
<1>3. job'[s].pc # "idle" => job'[s].order = job[s].order
  BY DEF ReadPrev, TypeOK, JobType, Idle
<1>4. CASE job[s].order = o
  <2>1. DEFINE prev == tg[o].entries
               missing == {a \in Admins : prev[a] = 0}
  <2>2. job'[s] = IF missing = {} THEN Idle
                  ELSE [job[s] EXCEPT !.pc = "send", !.prev = prev,
                                      !.todo = missing, !.fresh = NoEntries]
    <3>1. PICK p \in {tg[job[s].order].entries, NoEntries} :
            /\ \/ p = tg[job[s].order].entries /\ Works
               \/ p = NoEntries /\ Fails(job[s].order)
            /\ job' = [job EXCEPT ![s] =
                         IF {a \in Admins : p[a] = 0} = {} THEN Idle
                         ELSE [@ EXCEPT !.pc = "send", !.prev = p,
                                        !.todo = {a \in Admins : p[a] = 0},
                                        !.fresh = NoEntries]]
      BY DEF ReadPrev
    <3>2. p = prev  BY <1>4, <3>1 DEF Fails
    <3> QED  BY <3>1, <3>2 DEF TypeOK
  <2>3. CASE Complete(o)
    <3>1. missing = {}  BY <2>3 DEF Complete
    <3>2. job'[s].pc = "idle"  BY <2>2, <3>1 DEF Idle
    <3>3. \A r \in Senders : ~(job'[r].pc = "send" /\ job'[r].order = o)
      BY <1>2, <2>3, <3>2 DEF Complete
    <3> QED  BY <1>1, <2>3, <3>3 DEF Complete, Settled, Only
  <2>4. CASE Announced(o)
    <3>1. /\ status[o] = "pending" /\ prev = NoEntries
          /\ Announces(s, o) /\ \A r \in Senders : Sending(r, o) => r = s
      BY <1>1, <1>4, <2>4 DEF Announced, Sending
    <3>2. \A a \in Admins : Only(0, a, o)  BY <1>1, <3>1 DEF Announces
    <3>3. \A r \in Senders : Sending(r, o)' => r = s  BY <1>2, <3>1 DEF Sending
    <3>4. CASE Admins = {}
      <4>1. missing = {}  BY <3>4
      <4>2. job'[s].pc = "idle"  BY <2>2, <4>1 DEF Idle
      <4>3. \A r \in Senders : ~(job'[r].pc = "send" /\ job'[r].order = o)
        BY <3>3, <4>2 DEF Sending
      <4> QED  BY <3>4, <4>3 DEF Complete, Settled
    <3>5. CASE Admins # {}
      <4>1. missing = Admins  BY <3>1 DEF NoEntries
      <4>2. job'[s] = [job[s] EXCEPT !.pc = "send", !.prev = prev,
                                     !.todo = Admins, !.fresh = NoEntries]
        BY <2>2, <3>5, <4>1
      <4>3. /\ job'[s].pc = "send" /\ job'[s].prev = NoEntries /\ job'[s].todo = Admins
            /\ job'[s].fresh = NoEntries /\ job'[s].order = o
        BY <1>4, <3>1, <4>2 DEF TypeOK, JobType
      <4>4. Announces(s, o)'
        BY <1>1, <3>2, <4>3 DEF Announces, NoEntries, Only
      <4>5. Sending(s, o)'  BY <4>3 DEF Sending
      <4> QED  BY <1>1, <3>1, <3>3, <4>4, <4>5 DEF Announced, Settled
    <3> QED  BY <3>4, <3>5
  <2> QED  BY <2>3, <2>4 DEF Settled
<1>5. CASE job[s].order # o
  <2>1. ~Sending(s, o) /\ ~Sending(s, o)'  BY <1>3, <1>5 DEF Sending
  <2> QED  BY <1>1, <1>2, <2>1, SettledKept
<1> QED  BY <1>4, <1>5

LEMMA SettledBySend ==
    ASSUME TypeOK, NEW o \in Orders \ disturbed', NEW s \in Senders, NEW b \in Admins,
           Send(s, b), Settled(o)
    PROVE  Settled(o)'
<1>1. job[s].pc = "send" /\ b \in job[s].todo /\ UNCHANGED <<status, tg>> /\ job[s].order \in Orders
  BY DEF Send, TypeOK
<1>2. \A r \in Senders : r # s => job'[r] = job[r]  BY DEF Send, TypeOK
<1>3. job'[s].pc = "send" /\ job'[s].order = job[s].order /\ job'[s].prev = job[s].prev
  BY DEF Send, TypeOK, JobType
<1>4. CASE job[s].order = o
  <2>1. /\ chat' = [chat EXCEPT ![b] = Append(@, Message(o, "buttons"))]
        /\ job' = [job EXCEPT ![s].todo = @ \ {b}, ![s].fresh[b] = Len(chat[b]) + 1]
    BY <1>4 DEF Send, Fails
  <2>2. ~Complete(o)  BY <1>1, <1>4 DEF Complete
  <2>3. /\ status[o] = "pending" /\ tg[o].entries = NoEntries /\ Announces(s, o)
        /\ \A r \in Senders : Sending(r, o) => r = s
    BY <1>1, <1>4, <2>2 DEF Settled, Announced, Sending
  <2>4. /\ job[s].prev = NoEntries
        /\ \A a \in Admins : /\ Only(job[s].fresh[a], a, o)
                             /\ job[s].fresh[a] = 0 <=> a \in job[s].todo
    BY <1>1, <2>3 DEF Announces
  <2>5. job'[s].todo = job[s].todo \ {b}  BY <2>1 DEF TypeOK, JobType
  <2>6. job'[s].fresh = [job[s].fresh EXCEPT ![b] = Len(chat[b]) + 1]
    BY <2>1 DEF TypeOK, JobType
  <2>7. job[s].fresh \in [Admins -> Nat]  BY DEF TypeOK, JobType, Entries
  <2>8. Len(chat[b]) \in Nat  BY LenProperties DEF TypeOK
  <2>9. ASSUME NEW a \in Admins
        PROVE  Only(job[s].fresh[a], a, o)' /\ (job'[s].fresh[a] = 0 <=> a \in job'[s].todo)
    <3>1. CASE a = b
      <4>1. job[s].fresh[a] = 0  BY <1>1, <2>4, <3>1
      <4>2. job'[s].fresh[a] = Len(chat[b]) + 1  BY <2>6, <2>7, <3>1
      <4>3. \A i \in DOMAIN chat[a] : chat[a][i].order = o => i = 0
        BY <2>4, <4>1 DEF Only
      <4>4. \A i \in DOMAIN chat[a] : i # 0
        <5>1. DOMAIN chat[a] = 1..Len(chat[a])  BY LenProperties DEF TypeOK
        <5> QED  BY <2>8, <3>1, <5>1
      <4>5. ASSUME NEW i \in DOMAIN chat'[a], chat'[a][i].order = o
            PROVE  i = Len(chat[b]) + 1
        <5>1. \/ i \in DOMAIN chat[a] /\ chat'[a][i] = chat[a][i]
              \/ i = Len(chat[b]) + 1
          BY <2>1, Appended
        <5> QED  BY <4>3, <4>4, <4>5, <5>1
      <4> QED  BY <2>5, <2>8, <3>1, <4>2, <4>5 DEF Only
    <3>2. CASE a # b
      <4>1. job'[s].fresh[a] = job[s].fresh[a]  BY <2>6, <2>7, <3>2
      <4>2. chat'[a] = chat[a]  BY <2>1, <3>2 DEF TypeOK
      <4> QED  BY <2>4, <2>5, <3>2, <4>1, <4>2 DEF Only
    <3> QED  BY <3>1, <3>2
  <2>10. Announces(s, o)'  BY <1>3, <2>4, <2>9 DEF Announces
  <2>11. Sending(s, o)' /\ \A r \in Senders : Sending(r, o)' => r = s
    BY <1>2, <1>3, <1>4, <2>3 DEF Sending
  <2> QED  BY <1>1, <2>3, <2>10, <2>11 DEF Announced, Settled
<1>5. CASE job[s].order # o
  <2>1. ~Sending(s, o) /\ ~Sending(s, o)'  BY <1>3, <1>5 DEF Sending
  <2>2. chat' = chat \/ chat' = [chat EXCEPT ![b] = Append(@, Message(job[s].order, "buttons"))]
    BY DEF Send
  <2>3. ASSUME NEW a \in Admins, NEW i \in DOMAIN chat'[a], chat'[a][i].order = o
        PROVE  i \in DOMAIN chat[a] /\ chat[a][i].order = o
    <3>1. CASE chat' = chat  BY <2>3, <3>1
    <3>2. CASE chat' = [chat EXCEPT ![b] = Append(@, Message(job[s].order, "buttons"))]
      <4>1. \/ i \in DOMAIN chat[a] /\ chat'[a][i] = chat[a][i]
            \/ chat'[a][i] = Message(job[s].order, "buttons")
        BY <1>1, <3>2, Appended
      <4> QED  BY <1>5, <2>3, <4>1 DEF Message
    <3> QED  BY <2>2, <3>1, <3>2
  <2> QED  BY <1>1, <1>2, <2>1, <2>3, SettledKept
<1> QED  BY <1>4, <1>5

LEMMA SettledBySave ==
    ASSUME TypeOK, NEW o \in Orders \ disturbed', NEW s \in Senders, Save(s), Settled(o)
    PROVE  Settled(o)'
<1>1. /\ job[s].pc = "send" /\ job[s].todo = {} /\ UNCHANGED <<status, chat>>
      /\ job' = [job EXCEPT ![s] = Idle]
  BY DEF Save
<1>2. job'[s].pc = "idle" /\ \A r \in Senders : r # s => job'[r] = job[r]
  BY <1>1 DEF TypeOK, Idle
<1>3. CASE job[s].order = o
  <2>1. ~Complete(o)  BY <1>1, <1>3 DEF Complete
  <2>2. Announces(s, o) /\ \A r \in Senders : Sending(r, o) => r = s
    BY <1>1, <1>3, <2>1 DEF Settled, Announced, Sending
  <2>3. /\ job[s].prev = NoEntries
        /\ \A a \in Admins : Only(job[s].fresh[a], a, o) /\ job[s].fresh[a] # 0
    BY <1>1, <2>2 DEF Announces
  <2>4. \A r \in Senders : ~(job'[r].pc = "send" /\ job'[r].order = o)
    BY <1>2, <2>2 DEF Sending
  <2>5. CASE Merge(job[s].prev, job[s].fresh) = NoEntries
    <3>1. \A a \in Admins : FALSE  BY <2>3, <2>5 DEF Merge, NoEntries
    <3> QED  BY <2>4, <3>1 DEF Complete, Settled
  <2>6. CASE Merge(job[s].prev, job[s].fresh) # NoEntries
    <3>1. tg'[o].entries = Merge(job[s].prev, job[s].fresh)
      BY <1>3, <2>6 DEF Save, Fails, TypeOK
    <3>2. \A a \in Admins : tg'[o].entries[a] = job[s].fresh[a]
      BY <2>3, <3>1 DEF Merge, NoEntries
    <3>3. \A a \in Admins : tg'[o].entries[a] # 0 /\ Only(tg[o].entries[a], a, o)'
      BY <1>1, <2>3, <3>2 DEF Only
    <3> QED  BY <2>4, <3>3 DEF Complete, Settled
  <2> QED  BY <2>5, <2>6
<1>4. CASE job[s].order # o
  <2>1. tg'[o] = tg[o]  BY <1>4 DEF Save, TypeOK
  <2>2. ~Sending(s, o) /\ ~Sending(s, o)'  BY <1>2, <1>4 DEF Sending
  <2> QED  BY <1>1, <1>2, <2>1, <2>2, SettledKept
<1> QED  BY <1>3, <1>4

LEMMA SettledByKill ==
    ASSUME TypeOK, NEW o \in Orders \ disturbed', NEW s \in Senders, KillSender(s), Settled(o)
    PROVE  Settled(o)'
<1>1. /\ job' = [job EXCEPT ![s] = Idle] /\ UNCHANGED <<status, chat, tg>> /\ job[s].order # o
  BY DEF KillSender, Fails
<1>2. job'[s].pc = "idle" /\ \A r \in Senders : r # s => job'[r] = job[r]
  BY <1>1 DEF TypeOK, Idle
<1>3. ~Sending(s, o) /\ ~Sending(s, o)'  BY <1>1, <1>2 DEF Sending
<1> QED  BY <1>1, <1>2, <1>3, SettledKept

LEMMA SettledByDecision ==
    ASSUME TypeOK, NEW o \in Orders \ disturbed', NEW c \in Calls, UpdateStatus(c), Settled(o)
    PROVE  Settled(o)'
<1>1. UNCHANGED <<tg, chat, job>>  BY DEF UpdateStatus
<1>2. CASE status'[o] = status[o]  BY <1>1, <1>2, SettledKept
<1>3. CASE status'[o] # status[o]
  <2>1. call[c].order = o /\ status[o] = "pending"
    BY <1>3 DEF UpdateStatus, TypeOK
  <2>2. disturbed' = disturbed \cup {p \in {o} : \E s \in Senders : Sending(s, p)}
    BY <2>1 DEF UpdateStatus, Fails
  <2>3. \A s \in Senders : ~Sending(s, o)  BY <2>2
  <2>4. Complete(o)  BY <2>3 DEF Settled, Announced
  <2> QED  BY <1>1, <2>4 DEF Settled, Complete, Only
<1> QED  BY <1>2, <1>3

LEMMA SettledByEdit ==
    ASSUME TypeOK, NEW o \in Orders, NEW c \in Calls, NEW b \in Admins, Edit(c, b), Settled(o)
    PROVE  Settled(o)'
<1>1. /\ UNCHANGED <<tg, status, job>>
      /\ chat' = chat \/ chat' = [chat EXCEPT ![b][call[c].todo[b]].shows = call[c].text]
  BY DEF Edit
<1>2. ASSUME NEW a \in Admins, NEW i \in DOMAIN chat'[a], chat'[a][i].order = o
      PROVE  i \in DOMAIN chat[a] /\ chat[a][i].order = o
  <2>1. CASE chat' = chat  BY <1>2, <2>1
  <2>2. CASE chat' = [chat EXCEPT ![b][call[c].todo[b]].shows = call[c].text]
    BY <1>2, <2>2, Rewrote
  <2> QED  BY <1>1, <2>1, <2>2
<1> QED  BY <1>1, <1>2, SettledKept

LEMMA SettledStep ==
    ASSUME TypeOK, DeskInv, OwnOrders, [Next]_vars, NEW o \in Orders \ disturbed',
           Placed(o)', Placed(o) => Settled(o)
    PROVE  Settled(o)'
<1>1. CASE \E p \in Orders : Place(p)  BY <1>1, SettledByPlace
<1> SUFFICES ASSUME ~\E p \in Orders : Place(p) PROVE Settled(o)'  BY <1>1
<1>2. Settled(o)
  <2>1. status' = status \/ \E c \in Calls : UpdateStatus(c)  BY WhoWritesStatus
  <2>2. ASSUME NEW c \in Calls, UpdateStatus(c), status[o] = "none" PROVE status'[o] = "none"
    <3> DEFINE wins == status[call[c].order] = "pending"
               decided == IF wins THEN [status EXCEPT ![call[c].order] = call[c].verdict] ELSE status
    <3>1. status' = status \/ status' = decided  BY <2>2 DEF UpdateStatus
    <3>2. decided[o] = "none"  BY <2>2 DEF TypeOK
    <3> QED  BY <2>2, <3>1, <3>2
  <2> QED  BY <2>1, <2>2 DEF Placed
<1>3. \/ UNCHANGED <<status, tg, chat, job>>
      \/ \E k \in Crons : CronNext(k)
      \/ \E s \in Senders : ReadPrev(s) \/ Save(s) \/ KillSender(s) \/ \E a \in Admins : Send(s, a)
      \/ \E c \in Calls : UpdateStatus(c) \/ \E a \in Admins : Edit(c, a)
  BY DEF Next, vars, SenderStep, CronStep, CallStep, BecomeDue, Expire, CronSelect,
         PressButton, PatchOrder, StartCall, ReadRow, Return, KillCall
<1>4. CASE UNCHANGED <<status, tg, chat, job>>  BY <1>2, <1>4, SettledKept
<1>5. CASE \E k \in Crons : CronNext(k)  BY <1>2, <1>5, SettledByCron
<1>6. CASE \E s \in Senders : ReadPrev(s) \/ Save(s) \/ KillSender(s) \/ \E a \in Admins : Send(s, a)
  BY <1>2, <1>6, SettledByRead, SettledBySave, SettledByKill, SettledBySend
<1>7. CASE \E c \in Calls : UpdateStatus(c) \/ \E a \in Admins : Edit(c, a)
  BY <1>2, <1>7, SettledByDecision, SettledByEdit
<1> QED  BY <1>3, <1>4, <1>5, <1>6, <1>7

\* While nobody is to send a message about o, none gets its buttons (back).
LEMMA OpenShrinks ==
    ASSUME TypeOK, [Next]_vars, NEW o \in Orders, Complete(o), NEW a \in Admins,
           NEW i \in DOMAIN chat'[a], chat'[a][i].order = o, chat'[a][i].shows = "buttons"
    PROVE  i \in Open(a, o)
<1>1. CASE UNCHANGED chat  BY <1>1 DEF Open
<1>2. ASSUME NEW s \in Senders, NEW b \in Admins, Send(s, b) PROVE i \in Open(a, o)
  <2>1. job[s].pc = "send" /\ job[s].order \in Orders /\ job[s].order # o
    BY <1>2 DEF Send, TypeOK, Complete
  <2>2. chat' = chat \/ chat' = [chat EXCEPT ![b] = Append(@, Message(job[s].order, "buttons"))]
    BY <1>2 DEF Send
  <2>3. CASE chat' = [chat EXCEPT ![b] = Append(@, Message(job[s].order, "buttons"))]
    <3>1. \/ i \in DOMAIN chat[a] /\ chat'[a][i] = chat[a][i]
          \/ chat'[a][i] = Message(job[s].order, "buttons")
      BY <2>1, <2>3, Appended
    <3> QED  BY <2>1, <3>1 DEF Message, Open
  <2> QED  BY <1>1, <2>2, <2>3
<1>3. ASSUME NEW c \in Calls, NEW b \in Admins, Edit(c, b) PROVE i \in Open(a, o)
  <2>1. call[c].text # "buttons"  BY DEF TypeOK, CallType, Verdicts
  <2>2. chat' = chat \/ chat' = [chat EXCEPT ![b][call[c].todo[b]].shows = call[c].text]
    BY <1>3 DEF Edit
  <2>3. CASE chat' = [chat EXCEPT ![b][call[c].todo[b]].shows = call[c].text]
    <3>1. /\ i \in DOMAIN chat[a] /\ chat'[a][i].order = chat[a][i].order
          /\ chat'[a][i] = chat[a][i] \/ chat'[a][i].shows = call[c].text
      BY <2>3, Rewrote
    <3> QED  BY <2>1, <3>1 DEF Open
  <2> QED  BY <1>1, <2>2, <2>3
<1> QED  BY <1>1, <1>2, <1>3, WhoWritesChats

LEMMA RewrittenStep ==
    ASSUME TypeOK, [Next]_vars, NEW o \in Orders \ disturbed', Placed(o) => Settled(o),
           Decided(o)', Decided(o) => Rewritten(o)
    PROVE  Rewritten(o)'
<1>1. CASE ~Decided(o)
  <2>1. PICK c \in Calls : UpdateStatus(c)
    BY <1>1, WhoWritesStatus DEF Place, Decided, Verdicts, TypeOK
  <2>2. call[c].order = o
    BY <1>1, <2>1 DEF UpdateStatus, Decided, TypeOK
  <2>3. call'[c].pc = "read" /\ call'[c].order = o
    BY <2>1, <2>2 DEF UpdateStatus, Fails, TypeOK, CallType
  <2> QED  BY <2>3 DEF Rewritten, Rewriting
<1>2. CASE Decided(o)
  <2>1. Complete(o)  BY <1>2 DEF Settled, Announced, Decided, Verdicts, Placed
  <2>2. \A a \in Admins : Open(a, o)' \subseteq Open(a, o)
    BY <2>1, OpenShrinks DEF Open
  <2>3. CASE \A a \in Admins : Open(a, o) = {}  BY <2>2, <2>3 DEF Rewritten
  <2>4. ASSUME NEW c \in Calls, Rewriting(c, o) PROVE Rewritten(o)'
    <3>1. CASE call'[c] = call[c]
      <4>1. Rewriting(c, o)'  BY <2>2, <2>4, <3>1 DEF Rewriting
      <4> QED  BY <4>1 DEF Rewritten
    <3>2. CASE ReadRow(c)
      <4>1. call' = [call EXCEPT ![c].pc = "edit", ![c].text = NewText(c),
                                 ![c].todo = tg[o].entries]
        BY <2>4, <3>2 DEF ReadRow, Fails, Rewriting
      <4>2. call'[c].pc = "edit" /\ call'[c].order = o /\ call'[c].todo = tg[o].entries
        BY <2>4, <4>1 DEF TypeOK, CallType, Rewriting
      <4>3. \A a \in Admins : \A i \in Open(a, o) : i = tg[o].entries[a]
        BY <2>1 DEF Complete, Only, Open
      <4>4. Rewriting(c, o)'  BY <2>2, <4>2, <4>3 DEF Rewriting
      <4> QED  BY <4>4 DEF Rewritten
    <3>3. ASSUME NEW b \in Admins, Edit(c, b) PROVE Rewritten(o)'
      <4>1. /\ call[c].order = o /\ call[c].pc = "edit"
            /\ \A a \in Admins : \A i \in Open(a, o) : call[c].todo[a] = i
        BY <2>4, <3>3 DEF Rewriting, Edit
      <4>2. /\ chat' = [chat EXCEPT ![b][call[c].todo[b]].shows = call[c].text]
            /\ call' = [call EXCEPT ![c].todo[b] = 0]
        BY <3>3, <4>1 DEF Edit, Fails
      <4>3. call'[c].order = o /\ call'[c].pc = "edit"
        BY <4>1, <4>2 DEF TypeOK, CallType
      <4>4. call'[c].todo = [call[c].todo EXCEPT ![b] = 0]
        BY <4>2 DEF TypeOK, CallType
      <4>5. call[c].todo \in [Admins -> Nat] /\ call[c].text # "buttons"
        BY DEF TypeOK, CallType, Entries, Verdicts
      <4>6. ASSUME NEW a \in Admins, NEW i \in Open(a, o)' PROVE call'[c].todo[a] = i
        <5>1. i \in Open(a, o) /\ call[c].todo[a] = i  BY <2>2, <4>1, <4>6
        <5>2. i \in DOMAIN chat'[a] /\ chat'[a][i].shows = "buttons"  BY <4>6 DEF Open
        <5>3. PICK j, t : /\ j = call[c].todo[b] /\ t = call[c].text
                          /\ chat' = [chat EXCEPT ![b][j].shows = t]
          BY <4>2, Zenon
        <5>4. j \in DOMAIN chat'[b] => chat'[b][j].shows = t  BY <5>3, RewroteText
        <5>5. a # b  BY <4>5, <5>1, <5>2, <5>3, <5>4
        <5> QED  BY <4>4, <4>5, <5>1, <5>5
      <4>7. Rewriting(c, o)'  BY <4>3, <4>6 DEF Rewriting
      <4> QED  BY <4>7 DEF Rewritten
    <3>4. CASE Return(c)
      <4>1. \A a \in Admins : \A i \in Open(a, o) : i = 0
        BY <2>4, <3>4 DEF Return, Rewriting, NoEntries
      <4>2. ASSUME NEW a \in Admins PROVE Open(a, o) = {}
        <5>1. DOMAIN chat[a] = 1..Len(chat[a]) /\ Len(chat[a]) \in Nat
          BY LenProperties DEF TypeOK
        <5> QED  BY <4>1, <5>1 DEF Open
      <4> QED  BY <2>2, <4>2 DEF Rewritten
    <3>5. ~KillCall(c) /\ ~UpdateStatus(c) /\ \A p, v : ~StartCall(c, p, v)
      BY <2>4 DEF Rewriting, KillCall, Fails, UpdateStatus, StartCall
    <3> QED  BY <3>1, <3>2, <3>3, <3>4, <3>5, WhoWritesCalls
  <2> QED  BY <1>2, <2>3, <2>4 DEF Rewritten
<1> QED  BY <1>1, <1>2

LEMMA SyncInit == Init => SyncInv
  BY SendersAreOrdersOrCrons DEF Init, SyncInv, OwnOrders, Idle, Placed, Decided, Verdicts

LEMMA SyncStep == TypeOK /\ DeskInv /\ SyncInv /\ [Next]_vars => SyncInv'
<1> SUFFICES ASSUME TypeOK, DeskInv, SyncInv, [Next]_vars PROVE SyncInv'  OBVIOUS
<1>1. OwnOrders'  BY OwnOrdersStep DEF SyncInv
<1>2. ASSUME NEW o \in Orders \ disturbed'
      PROVE  (Placed(o)' => Settled(o)') /\ (Decided(o)' => Rewritten(o)')
  <2>1. o \notin disturbed  BY <1>2, DisturbedGrows
  <2> QED  BY <1>2, <2>1, SettledStep, RewrittenStep DEF SyncInv
<1> QED  BY <1>1, <1>2 DEF SyncInv

THEOREM SyncInvariant == Spec => []SyncInv
  BY SyncInit, SyncStep, DeskTypeCorrect, DeskInvariant, PTL DEF Spec

\* What does hold of "Telegram and the table never get out of sync" (the comment on
\* resolveOrder): an order that no fault hit, that never had two senders and that
\* was not decided under one has at most one message in each chat, and none with
\* buttons once it is decided and nobody works on it.
THEOREM InSyncUnlessDisturbedAlways == Spec => []InSyncUnlessDisturbed
<1>1. TypeOK /\ DeskInv /\ SyncInv => InSyncUnlessDisturbed
  <2> SUFFICES ASSUME TypeOK, DeskInv, SyncInv, NEW o \in Orders \ disturbed, NEW a \in Admins
               PROVE  /\ Cardinality({i \in DOMAIN chat[a] : chat[a][i].order = o}) <= 1
                      /\ Decided(o) /\ Quiet(o) => Open(a, o) = {}
    BY DEF InSyncUnlessDisturbed
  <2> DEFINE Mine == {i \in DOMAIN chat[a] : chat[a][i].order = o}
  <2>1. \E n : Only(n, a, o)
    <3>1. CASE ~Placed(o)  BY <3>1, NothingBefore DEF Only
    <3>2. CASE Placed(o)
      <4>1. Settled(o)  BY <3>2 DEF SyncInv
      <4> QED  BY <4>1 DEF Settled, Complete, Announced, Announces
    <3> QED  BY <3>1, <3>2
  <2>2. PICK n : Mine \subseteq {n}  BY <2>1 DEF Only
  <2>3. IsFiniteSet({n}) /\ Cardinality({n}) = 1  BY FS_Singleton
  <2>4. Cardinality(Mine) <= 1  BY <2>2, <2>3, FS_Subset
  <2>5. Decided(o) /\ Quiet(o) => Open(a, o) = {}
    BY DEF SyncInv, Rewritten, Rewriting, Quiet
  <2> QED  BY <2>4, <2>5
<1> QED  BY <1>1, SyncInvariant, DeskInvariant, DeskTypeCorrect, PTL

-----------------------------------------------------------------------------
(* resolveOrder implements the lifecycle of OrderLifecycle.                *)

LEMMA LifecycleInit == Init => Lifecycle!Init
  BY DEF Init, Lifecycle!Init, Told, NotCalled

\* As long as no call wins, nobody new is told.
LEMMA ToldUnchanged ==
    ASSUME TypeOK, DeskInv,
           \A c \in Calls : /\ call'[c].updated = call[c].updated
                            /\ call[c].updated => /\ call'[c].order = call[c].order
                                                  /\ call'[c].verdict = call[c].verdict
    PROVE  Told' = Told
  BY DEF Told

LEMMA LifecycleStep ==
    TypeOK /\ DeskInv /\ [Next]_vars => [Lifecycle!Next]_(Lifecycle!lifecycleVars)
<1> SUFFICES ASSUME TypeOK, DeskInv, [Next]_vars
             PROVE  Lifecycle!Next \/ UNCHANGED Lifecycle!lifecycleVars
  OBVIOUS
<1>1. ASSUME NEW c \in Calls, ~UpdateStatus(c)
      PROVE  /\ call'[c].updated = call[c].updated
             /\ call[c].updated => /\ call'[c].order = call[c].order
                                   /\ call'[c].verdict = call[c].verdict
  <2>1. call[c] \in CallType
    BY DEF TypeOK
  <2>2. ASSUME NEW o, NEW v, StartCall(c, o, v)
        PROVE  call'[c].updated = FALSE /\ call[c].updated = FALSE
    BY <2>1, <2>2 DEF StartCall, NotCalled, TypeOK, CallType, DeskInv, CallsKnowVerdict
  <2>3. ASSUME ReadRow(c) \/ Return(c) \/ KillCall(c)
        PROVE  /\ call'[c].updated = call[c].updated /\ call'[c].order = call[c].order
               /\ call'[c].verdict = call[c].verdict
    BY <2>1, <2>3 DEF ReadRow, Return, KillCall, TypeOK, CallType
  <2>4. ASSUME NEW a \in Admins, Edit(c, a)
        PROVE  /\ call'[c].updated = call[c].updated /\ call'[c].order = call[c].order
               /\ call'[c].verdict = call[c].verdict
    BY <2>1, <2>4 DEF Edit, TypeOK, CallType
  <2>5. QED
    BY <1>1, <2>2, <2>3, <2>4, WhoWritesCalls
<1>2. CASE UNCHANGED status /\ \A d \in Calls : ~UpdateStatus(d)
  <2>1. Told' = Told
    BY <1>1, <1>2, ToldUnchanged
  <2>2. QED
    BY <1>2, <2>1 DEF Lifecycle!lifecycleVars
<1>3. ASSUME NEW o \in Orders, Place(o) PROVE Lifecycle!Place(o)
  <2>1. Told' = Told
    BY <1>3, ToldUnchanged DEF Place
  <2>2. QED
    BY <1>3, <2>1 DEF Place, Lifecycle!Place
<1>4. ASSUME NEW c \in Calls, UpdateStatus(c)
      PROVE  Lifecycle!Next \/ UNCHANGED Lifecycle!lifecycleVars
  <2> DEFINE o == call[c].order
             v == call[c].verdict
             wins == status[o] = "pending"
             decided == [status EXCEPT ![o] = v]
  <2>1. o \in Orders /\ v \in Verdicts /\ ~call[c].updated
    BY <1>4 DEF UpdateStatus, TypeOK, DeskInv, CallsKnowVerdict
  <2>2. /\ \A d \in Calls \ {c} : call'[d] = call[d]
        /\ call'[c].order = o /\ call'[c].verdict = v
    BY <1>4 DEF UpdateStatus, TypeOK, CallType
  <2>3. CASE ~call'[c].updated
    <3>1. Told' = Told
      <4>1. call'[c].updated = call[c].updated
        BY <2>1, <2>3, TypeStep DEF TypeOK, CallType
      <4>2. QED
        BY <2>1, <2>2, <4>1, ToldUnchanged
    <3>2. status' = status \/ (wins /\ status' = decided)
      BY <1>4 DEF UpdateStatus
    <3>3. CASE status' = status
      BY <3>1, <3>3 DEF Lifecycle!lifecycleVars
    <3>4. CASE wins /\ status' = decided
      <4>1. Lifecycle!DecideUnheard(o, v)
        BY <3>1, <3>4 DEF Lifecycle!DecideUnheard
      <4>2. QED
        BY <2>1, <4>1 DEF Lifecycle!Next, Lifecycle!Verdicts, Verdicts
    <3>5. QED
      BY <3>2, <3>3, <3>4
  <2>4. CASE call'[c].updated
    <3>1. wins /\ status' = decided
      BY <1>4, <2>1, <2>4 DEF UpdateStatus, TypeOK, CallType
    <3>2. \A d \in Calls : call[d].updated => call[d].order # o
      BY <2>1, <3>1 DEF TypeOK, DeskInv, CallsKnowVerdict, Verdicts
    <3>3. Told'[o] = {<<c, v>>}
      BY <2>1, <2>2, <2>4, <3>2 DEF Told
    <3>4. \A p \in Orders \ {o} : Told'[p] = Told[p]
      BY <2>1, <2>2 DEF Told
    <3>5. Told' = [Told EXCEPT ![o] = {<<c, v>>}]
      <4>1. Told' = [p \in Orders |-> Told'[p]] /\ Told = [p \in Orders |-> Told[p]]
        BY DEF Told
      <4>2. QED
        BY <2>1, <3>3, <3>4, <4>1
    <3>6. Lifecycle!Decide(o, c, v)
      BY <3>1, <3>5 DEF Lifecycle!Decide
    <3>7. QED
      BY <2>1, <3>6 DEF Lifecycle!Next, Lifecycle!Verdicts, Verdicts
  <2>5. QED
    BY <2>3, <2>4
<1>5. QED
  BY <1>2, <1>3, <1>4, WhoWritesStatus DEF Lifecycle!Next

\* The desk implements the lifecycle: one final decision for each order, and
\* at most one caller that is told its verdict decided it.
THEOREM DeskImplementsLifecycle == Spec => ImplementsLifecycle
  BY LifecycleInit, LifecycleStep, DeskTypeCorrect, DeskInvariant, PTL
     DEF Spec, ImplementsLifecycle, Lifecycle!Spec
=============================================================================
