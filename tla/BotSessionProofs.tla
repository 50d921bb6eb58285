-------------------------- MODULE BotSessionProofs --------------------------
(***************************************************************************)
(* Proofs about BotSession, for every number of chats, of updates handled  *)
(* at once, of dialogues, of ids and of faults.                            *)
(***************************************************************************)
EXTENDS BotSession, TLAPS

-----------------------------------------------------------------------------
(* The inductive invariant.                                                *)

\* A session has an id exactly in the steps that add a row under it.
Formed(s) ==
    /\ s.dlg = 0 <=> s = NoSession
    /\ s.dlg # 0 => s.step \in Steps
    /\ s.id # 0 <=> s.step \in Creating

\* A handler holds a session from the read that found it until it ends, and
\* stores only what has a next step.
WorkFormed ==
    /\ \A c \in Chats : Formed(session[c])
    /\ \A h \in Handlers :
          /\ Formed(handler[h].held)
          /\ handler[h].pc \in {"store", "download", "apply", "clear"} <=> Held(h) # 0
          /\ handler[h].pc # "idle" => handler[h].chat \in Chats
          /\ handler[h].pc = "store" => handler[h].held.step \in DOMAIN NextStep
          /\ handler[h].pc = "open" => handler[h].update \in Openings \cup {"tables"}

\* Only dialogues that were opened are met anywhere.
Opened ==
    /\ \A c \in Chats : session[c].dlg <= dialogues
    /\ \A h \in Handlers : Held(h) <= dialogues
    /\ \A r \in made : r.dlg <= dialogues
    /\ \A d \in Dialogues : ended[d] # "no" => d <= dialogues

\* A dialogue is held in one chat.
OneChat ==
    /\ \A c, e \in Chats : session[c].dlg # 0 /\ session[c].dlg = session[e].dlg => c = e
    /\ \A h \in Handlers, c \in Chats :
          Held(h) # 0 /\ Held(h) = session[c].dlg => handler[h].chat = c
    /\ \A h, g \in Handlers :
          Held(h) # 0 /\ Held(h) = Held(g) => handler[h].chat = handler[g].chat

\* Without an overlap a dialogue has one handler, and what that handler read is
\* still what the session says, if there is one.
Current ==
    /\ \A h, g \in Handlers :
          Held(h) # 0 /\ Held(h) = Held(g) => h = g \/ Held(h) \in overlapped
    /\ \A h \in Handlers, c \in Chats :
          Held(h) # 0 /\ Held(h) = session[c].dlg /\ Held(h) \notin overlapped =>
             session[c] = handler[h].held

\* A dialogue that has ended without an overlap is nowhere at work.
Gone ==
    /\ \A d \in after : ended[d] # "no"
    /\ \A d \in Dialogues : ended[d] # "no" /\ d \notin overlapped =>
          /\ d \notin after
          /\ \A c \in Chats : session[c].dlg # d
          /\ \A h \in Handlers : Held(h) # d

\* A row's id is the one id of its dialogue.
OneId ==
    \A r \in made : r.dlg \notin overlapped =>
        /\ \A s \in made : s.dlg = r.dlg => s = r
        /\ \A c \in Chats : session[c].dlg = r.dlg => session[c].id = r.id
        /\ \A h \in Handlers : Held(h) = r.dlg => handler[h].held.id = r.id

BotInv == WorkFormed /\ Opened /\ OneChat /\ Current /\ Gone /\ OneId

-----------------------------------------------------------------------------
(* Types.                                                                  *)

LEMMA BoundsTyped == MaxDialogues \in Nat /\ MaxIds \in Nat /\ MaxFaults \in Nat /\ NoChat \notin Chats
  BY BotAssumption

\* What follows each answered question: a later one, and an id where one is made.
LEMMA NextSteps ==
    \A step \in DOMAIN NextStep :
        /\ step \in Steps /\ step \notin Creating
        /\ NextStep[step] \in Steps
        /\ NextStep[step] \in Creating <=> Fresh(step)
        /\ Progress(NextStep[step]) > Progress(step)
  BY DEF NextStep, Steps, Creating, Fresh, Progress, OneAnswer, waitingForPhoto

LEMMA NoSessionTyped ==
    /\ NoSession \in SessionType /\ Formed(NoSession)
    /\ NoSession.dlg = 0 /\ NoSession.id = 0
  BY BoundsTyped DEF NoSession, SessionType, Formed, Creating

Pcs == {"idle", "leave", "open", "read", "store", "download", "apply", "clear"}

HandlerType == [pc : Pcs, chat : Chats \cup {NoChat},
                update : Updates \cup {"none"}, held : SessionType]

LEMMA IdleTyped == Idle \in HandlerType /\ Idle.held = NoSession /\ Idle.pc = "idle"
  BY NoSessionTyped DEF Idle, HandlerType, Pcs

\* What the actions write to the histories.
LEMMA CloseTyped ==
    ASSUME TypeOK, NEW h \in Handlers, NEW c \in Chats,
           NEW how \in {"cancelled", "replaced", "finished", "lost"}, Close(h, c, how)
    PROVE  /\ ended' \in [Dialogues -> {"no", "cancelled", "replaced", "finished", "lost"}]
           /\ overlapped' \subseteq Dialogues
<1>1. session[c].dlg \in 0..MaxDialogues
  BY DEF TypeOK, SessionType
<1>2. Others(h, session[c].dlg) # {} => session[c].dlg \in Dialogues
  BY <1>1, BoundsTyped DEF Others, Dialogues
<1>3. QED
  BY <1>2 DEF TypeOK, Close, MarkOverlap

LEMMA NoteTyped ==
    ASSUME TypeOK, NEW h \in Handlers, Note(h) PROVE after' \subseteq Dialogues
  BY DEF TypeOK, Note

LEMMA ReactionsTyped ==
    ASSUME NEW u, NEW s, NEW pc \in Reactions(u, s)
    PROVE  /\ pc \in {"idle", "store", "download", "apply", "clear"}
           /\ pc # "idle" => s.step # "none"
           /\ pc = "store" => s.step \in DOMAIN NextStep
  BY DEF Reactions, NextStep, waitingForPhoto, Creating, Replacing, SiteImages, OneAnswer

LEMMA TypeInit == Init => TypeOK
  BY BoundsTyped, NoSessionTyped, IdleTyped DEF Init, TypeOK, HandlerType, Pcs

LEMMA TypeStep == ASSUME TypeOK, WorkFormed, [Next]_vars PROVE TypeOK'
<1> USE BoundsTyped, NoSessionTyped, IdleTyped DEF HandlerType, Pcs
<1>0. handler \in [Handlers -> HandlerType]
  BY DEF TypeOK
<1>1. ASSUME NEW h \in Handlers, NEW c \in Chats, NEW u \in Updates, Receive(h, c, u)
      PROVE  TypeOK'
  <2>1. Start(u) \in {"leave", "read", "open"}
    BY DEF Start
  <2>2. handler' \in [Handlers -> HandlerType]
    BY <1>0, <1>1, <2>1 DEF Receive
  <2>3. QED
    BY <1>1, <2>2 DEF Receive, TypeOK, rowVars, historyVars
<1>2. ASSUME NEW h \in Handlers, Leave(h) PROVE TypeOK'
  <2>1. handler[h].chat \in Chats
    BY <1>2 DEF Leave, WorkFormed, At
  <2>2. handler' \in [Handlers -> HandlerType]
    BY <1>0, <1>2 DEF Leave, Goto, End
  <2>3. session' \in [Chats -> SessionType]
    BY <1>2 DEF Leave, TypeOK
  <2>4. QED
    BY <1>2, <2>1, <2>2, <2>3, CloseTyped DEF Leave, TypeOK
<1>3. ASSUME NEW h \in Handlers, Open(h) PROVE TypeOK'
  <2>1. handler[h].chat \in Chats
    BY <1>3 DEF Open, WorkFormed, At
  <2>2. handler' \in [Handlers -> HandlerType]
    BY <1>0, <1>3 DEF Open, End
  <2>3. dialogues' \in 0..MaxDialogues
    BY <1>3 DEF Open, TypeOK
  <2>4. session' \in [Chats -> SessionType]
    <3>1. (IF handler[h].update = "tables" THEN "edit_table_count" ELSE handler[h].update) \in Steps
      BY <1>3 DEF Open, WorkFormed, At, Openings, Steps, OneAnswer, NextStep, waitingForPhoto,
                  Replacing, SiteImages, Creating
    <3>2. QED
      BY <1>3, <2>3, <3>1 DEF Open, TypeOK, SessionType
  <2>5. QED
    BY <1>3, <2>1, <2>2, <2>3, <2>4, CloseTyped DEF Open, TypeOK
<1>4. ASSUME NEW h \in Handlers, Read(h) PROVE TypeOK'
  <2>1. handler[h].chat \in Chats
    BY <1>4 DEF Read, WorkFormed, At
  <2>2. PICK pc \in Reactions(handler[h].update, session[handler[h].chat]) :
           IF pc = "idle" THEN End(h) /\ UNCHANGED overlapped
           ELSE /\ handler' = [handler EXCEPT ![h].pc = pc, ![h].held = session[handler[h].chat]]
                /\ MarkOverlap(h, session[handler[h].chat].dlg)
    BY <1>4 DEF Read
  <2>3. session[handler[h].chat] \in SessionType
    BY <2>1 DEF TypeOK
  <2>4. pc \in Pcs
    BY ReactionsTyped
  <2>5. handler' \in [Handlers -> HandlerType]
    BY <1>0, <2>2, <2>3, <2>4 DEF End
  <2>6. overlapped' \subseteq Dialogues
    BY <2>2, <2>3 DEF MarkOverlap, Others, SessionType, Dialogues, TypeOK
  <2>7. QED
    BY <1>4, <2>5, <2>6 DEF Read, TypeOK, rowVars
<1>5. ASSUME NEW h \in Handlers, Download(h) PROVE TypeOK'
  <2>1. handler' \in [Handlers -> HandlerType]
    BY <1>0, <1>5 DEF Download, Goto, End
  <2>2. QED
    BY <1>5, <2>1 DEF Download, TypeOK, rowVars, historyVars
<1>6. ASSUME NEW h \in Handlers, Store(h) PROVE TypeOK'
  <2> DEFINE s == handler[h].held
             id == IF Fresh(s.step) THEN ids + 1 ELSE s.id
  <2>1. handler[h].chat \in Chats /\ s \in SessionType /\ s.step \in DOMAIN NextStep
    BY <1>0, <1>6 DEF Store, WorkFormed, At
  <2>2. handler' \in [Handlers -> HandlerType]
    BY <1>0, <1>6 DEF Store, End
  <2>3. ids' \in 0..MaxIds /\ id \in 0..MaxIds
    BY <1>6, <2>1 DEF Store, TypeOK, SessionType
  <2>4. Stored(s, id) \in SessionType
    BY <2>1, <2>3, NextSteps DEF Stored, SessionType
  <2>5. session' \in [Chats -> SessionType]
    BY <1>6, <2>4 DEF Store, TypeOK
  <2>6. after' \subseteq Dialogues
    BY <1>6, NoteTyped DEF Store
  <2>7. /\ ended' \in [Dialogues -> {"no", "cancelled", "replaced", "finished", "lost"}]
        /\ overlapped' \subseteq Dialogues
    BY <1>6, <2>1, CloseTyped DEF Store, TypeOK
  <2>8. QED
    BY <1>6, <2>2, <2>3, <2>5, <2>6, <2>7 DEF Store, TypeOK
<1>7. ASSUME NEW h \in Handlers, Apply(h) PROVE TypeOK'
  <2>1. /\ handler[h].held \in SessionType /\ Held(h) # 0
        /\ handler[h].held.step \in Creating => handler[h].held.id # 0
    BY <1>0, <1>7 DEF Apply, WorkFormed, At, Formed
  <2>2. made' \subseteq [id : 1..MaxIds, dlg : Dialogues]
    BY <1>7, <2>1 DEF Apply, TypeOK, SessionType, RowId, Held, Dialogues
  <2>3. handler' \in [Handlers -> HandlerType]
    BY <1>0, <1>7 DEF Apply, Goto
  <2>4. QED
    BY <1>7, <2>2, <2>3, NoteTyped DEF Apply, TypeOK
<1>8. ASSUME NEW h \in Handlers, Refuse(h) PROVE TypeOK'
  <2>1. handler' \in [Handlers -> HandlerType]
    BY <1>0, <1>8 DEF Refuse, Goto, End
  <2>2. QED
    BY <1>8, <2>1 DEF Refuse, TypeOK, rowVars, historyVars
<1>9. ASSUME NEW h \in Handlers, Clear(h) PROVE TypeOK'
  <2>1. handler[h].chat \in Chats
    BY <1>9 DEF Clear, WorkFormed, At
  <2>2. handler' \in [Handlers -> HandlerType]
    BY <1>0, <1>9 DEF Clear, End
  <2>3. session' \in [Chats -> SessionType]
    BY <1>9 DEF Clear, TypeOK
  <2>4. QED
    BY <1>9, <2>1, <2>2, <2>3, CloseTyped DEF Clear, TypeOK
<1>10. ASSUME NEW h \in Handlers, Crash(h) PROVE TypeOK'
  <2>1. handler' \in [Handlers -> HandlerType]
    BY <1>0, <1>10 DEF Crash, End
  <2>2. QED
    BY <1>10, <2>1 DEF Crash, TypeOK, rowVars, historyVars
<1>11. ASSUME NEW c \in Chats, Expire(c) PROVE TypeOK'
  <2>1. session' \in [Chats -> SessionType]
    BY <1>11 DEF Expire, TypeOK
  <2>2. QED
    BY <1>11, <2>1 DEF Expire, TypeOK, historyVars
<1>12. CASE UNCHANGED vars
  BY <1>12 DEF vars, TypeOK
<1>13. QED
  BY <1>1, <1>2, <1>3, <1>4, <1>5, <1>6, <1>7, <1>8, <1>9, <1>10, <1>11, <1>12
     DEF Next, HandlerStep

-----------------------------------------------------------------------------
(* What the steps do to the sessions that handlers hold.                   *)

Kept(g) == handler'[g].held = handler[g].held /\ handler'[g].chat = handler[g].chat

Freed(g) == handler'[g].held = NoSession

OthersKept(h) == \A g \in Handlers \ {h} : Kept(g)

\* The rows and the histories stay; a handler may end.
Rest ==
    /\ UNCHANGED <<session, made, dialogues, ended, after, overlapped>>
    /\ \A g \in Handlers : Kept(g) \/ Freed(g)

\* The session of chat c is deleted by h, which holds nothing any more.
Drop(h, c) ==
    /\ session' = [session EXCEPT ![c] = NoSession]
    /\ \E how \in {"cancelled", "replaced", "finished", "lost"} : Close(h, c, how)
    /\ Freed(h) /\ OthersKept(h)
    /\ UNCHANGED <<made, dialogues, after>>

\* The handler takes what it finds in its chat.
Take(h) ==
    /\ handler[h].chat \in Chats
    /\ handler'[h].held = session[handler[h].chat]
    /\ handler'[h].chat = handler[h].chat
    /\ OthersKept(h)
    /\ MarkOverlap(h, session[handler[h].chat].dlg)
    /\ UNCHANGED <<session, made, dialogues, ended, after>>

LEMMA ReceiveView ==
    ASSUME TypeOK, WorkFormed, NEW h \in Handlers, NEW c \in Chats, NEW u \in Updates,
           Receive(h, c, u)
    PROVE  Rest
<1>1. handler'[h].held = NoSession
  BY DEF Receive, Idle, TypeOK
<1>2. QED
  BY <1>1 DEF Receive, Rest, Kept, Freed, rowVars, historyVars, TypeOK

LEMMA PausesView ==
    ASSUME TypeOK, NEW h \in Handlers, Download(h) \/ Refuse(h) \/ Crash(h)
    PROVE  Rest
<1>1. (\E pc \in Pcs : Goto(h, pc)) \/ End(h)
  BY DEF Download, Refuse, Crash, Pcs
<1>2. \A g \in Handlers : Kept(g) \/ Freed(g)
  BY <1>1, IdleTyped DEF Goto, End, Kept, Freed, TypeOK
<1>3. QED
  BY <1>2 DEF Rest, Download, Refuse, Crash, rowVars, historyVars

LEMMA LeaveView ==
    ASSUME TypeOK, WorkFormed, NEW h \in Handlers, Leave(h)
    PROVE  handler[h].chat \in Chats /\ Drop(h, handler[h].chat)
<1>1. handler[h].chat \in Chats /\ handler[h].held = NoSession
  BY DEF Leave, WorkFormed, At, Formed, Held
<1>2. Freed(h) /\ OthersKept(h)
  BY <1>1, IdleTyped DEF Leave, Goto, End, Freed, OthersKept, Kept, TypeOK
<1>3. QED
  BY <1>1, <1>2 DEF Leave, Drop

LEMMA ClearView ==
    ASSUME TypeOK, WorkFormed, NEW h \in Handlers, Clear(h)
    PROVE  handler[h].chat \in Chats /\ Drop(h, handler[h].chat)
<1>1. handler[h].chat \in Chats
  BY DEF Clear, WorkFormed, At
<1>2. Freed(h) /\ OthersKept(h)
  BY IdleTyped DEF Clear, End, Freed, OthersKept, Kept, TypeOK
<1>3. QED
  BY <1>1, <1>2 DEF Clear, Drop

LEMMA ReadView ==
    ASSUME TypeOK, WorkFormed, NEW h \in Handlers, Read(h)
    PROVE  Rest \/ (Take(h) /\ Held(h) = 0)
<1>1. handler[h].chat \in Chats /\ handler[h].held = NoSession /\ Held(h) = 0
  BY NoSessionTyped DEF Read, WorkFormed, At, Formed, Held
<1>2. CASE End(h) /\ UNCHANGED overlapped
  <2>1. \A g \in Handlers : Kept(g) \/ Freed(g)
    BY <1>2, IdleTyped DEF End, Kept, Freed, TypeOK
  <2>2. QED
    BY <1>2, <2>1 DEF Rest, Read, rowVars
<1>3. ASSUME NEW pc,
             handler' = [handler EXCEPT ![h].pc = pc, ![h].held = session[handler[h].chat]],
             MarkOverlap(h, session[handler[h].chat].dlg)
      PROVE  Take(h)
  BY <1>1, <1>3 DEF Take, OthersKept, Kept, Read, rowVars, TypeOK
<1>4. QED
  BY <1>1, <1>2, <1>3 DEF Read

LEMMA OpenView ==
    ASSUME TypeOK, WorkFormed, NEW h \in Handlers, Open(h)
    PROVE  LET c == handler[h].chat IN
           /\ c \in Chats
           /\ session'[c].dlg = dialogues + 1 /\ session'[c].id = 0
           /\ session'[c].step \in Openings \cup {"edit_table_count"}
           /\ \A e \in Chats \ {c} : session'[e] = session[e]
           /\ Close(h, c, "replaced")
           /\ Freed(h) /\ OthersKept(h)
           /\ dialogues' = dialogues + 1 /\ dialogues + 1 \in Dialogues
           /\ UNCHANGED <<made, after>>
<1>1. /\ handler[h].chat \in Chats
      /\ handler[h].update \in Openings \cup {"tables"}
  BY DEF Open, WorkFormed, At
<1>2. Freed(h) /\ OthersKept(h)
  BY IdleTyped DEF Open, End, Freed, OthersKept, Kept, TypeOK
<1>3. dialogues + 1 \in Dialogues
  BY BoundsTyped DEF Open, TypeOK, Dialogues
<1>4. QED
  BY <1>1, <1>2, <1>3 DEF Open, TypeOK

LEMMA StoreView ==
    ASSUME TypeOK, WorkFormed, NEW h \in Handlers, Store(h)
    PROVE  LET c == handler[h].chat
               s == handler[h].held
           IN
           /\ c \in Chats /\ s.dlg # 0 /\ s.step \in DOMAIN NextStep /\ s.id = 0
           /\ session'[c].dlg = s.dlg /\ session'[c].step = NextStep[s.step]
           /\ session'[c].id # 0 <=> Fresh(s.step)
           /\ \A e \in Chats \ {c} : session'[e] = session[e]
           /\ IF session[c].dlg \in {0, s.dlg} THEN UNCHANGED <<ended, overlapped>>
              ELSE Close(h, c, "replaced")
           /\ Note(h)
           /\ Freed(h) /\ OthersKept(h)
           /\ UNCHANGED <<made, dialogues>>
<1>1. /\ handler[h].chat \in Chats /\ handler[h].held.dlg # 0
      /\ handler[h].held.step \in DOMAIN NextStep
      /\ handler[h].held.id = 0
  BY NextSteps DEF Store, WorkFormed, At, Held, Formed
<1>2. Freed(h) /\ OthersKept(h)
  BY IdleTyped DEF Store, End, Freed, OthersKept, Kept, TypeOK
<1>3. ids + 1 # 0
  BY BoundsTyped DEF TypeOK
<1>4. QED
  BY <1>1, <1>2, <1>3 DEF Store, Stored, TypeOK

LEMMA ApplyView ==
    ASSUME TypeOK, WorkFormed, NEW h \in Handlers, Apply(h)
    PROVE  /\ Held(h) # 0
           /\ \/ made' = made
              \/ /\ handler[h].held.step \in Creating
                 /\ \A r \in made : r.id # handler[h].held.id
                 /\ made' = made \cup {[id |-> handler[h].held.id, dlg |-> Held(h)]}
           /\ Note(h)
           /\ \A g \in Handlers : Kept(g)
           /\ UNCHANGED <<session, dialogues, ended, overlapped>>
<1>1. \A g \in Handlers : Kept(g)
  BY DEF Apply, Goto, Kept, TypeOK
<1>2. Held(h) # 0
  BY DEF Apply, WorkFormed, At
<1>3. QED
  BY <1>1, <1>2 DEF Apply, Taken, RowId

\* Everything that can happen.
LEMMA Views ==
    ASSUME TypeOK, WorkFormed, [Next]_vars
    PROVE  \/ Rest
           \/ \E h \in Handlers, c \in Chats : Drop(h, c)
           \/ \E h \in Handlers : Take(h) /\ Held(h) = 0
           \/ \E c \in Chats : Expire(c)
           \/ \E h \in Handlers : Open(h) \/ Store(h) \/ Apply(h)
<1>1. CASE UNCHANGED vars
  BY <1>1 DEF vars, Rest, Kept
<1>2. QED
  BY <1>1, ReceiveView, PausesView, LeaveView, ClearView, ReadView DEF Next, HandlerStep

-----------------------------------------------------------------------------
(* The invariant is inductive.                                             *)

LEMMA InvInit == Init => BotInv
<1> SUFFICES ASSUME Init PROVE BotInv
  OBVIOUS
<1>1. /\ \A c \in Chats : session[c] = NoSession
      /\ \A h \in Handlers : handler[h].held = NoSession /\ handler[h].pc = "idle"
      /\ made = {} /\ dialogues = 0 /\ after = {}
      /\ \A d \in Dialogues : ended[d] = "no"
  BY IdleTyped DEF Init
<1>2. WorkFormed
  BY <1>1, NoSessionTyped DEF WorkFormed, Held
<1>3. Opened /\ OneChat /\ Current /\ Gone /\ OneId
  BY <1>1, NoSessionTyped DEF Opened, OneChat, Current, Gone, OneId, Held
<1>4. QED
  BY <1>2, <1>3 DEF BotInv

\* The records stay well formed: at the places where h changes them.
LEMMA FormedAt ==
    ASSUME WorkFormed, NEW h \in Handlers, TypeOK, TypeOK',
           \A c \in Chats : Formed(session'[c]),
           \A g \in Handlers \ {h} : handler'[g] = handler[g],
           /\ Formed(handler'[h].held)
           /\ handler'[h].pc \in {"store", "download", "apply", "clear"} <=> Held(h)' # 0
           /\ handler'[h].pc # "idle" => handler'[h].chat \in Chats
           /\ handler'[h].pc = "store" => handler'[h].held.step \in DOMAIN NextStep
           /\ handler'[h].pc = "open" => handler'[h].update \in Openings \cup {"tables"}
    PROVE  WorkFormed'
<1>1. ASSUME NEW g \in Handlers
      PROVE  /\ Formed(handler'[g].held)
             /\ handler'[g].pc \in {"store", "download", "apply", "clear"} <=> Held(g)' # 0
             /\ handler'[g].pc # "idle" => handler'[g].chat \in Chats
             /\ handler'[g].pc = "store" => handler'[g].held.step \in DOMAIN NextStep
             /\ handler'[g].pc = "open" => handler'[g].update \in Openings \cup {"tables"}
  <2>1. CASE g = h
    BY <2>1
  <2>2. CASE g # h
    BY <2>2 DEF WorkFormed, Held
  <2>3. QED
    BY <2>1, <2>2
<1>2. QED
  BY <1>1 DEF WorkFormed, Formed

\* A handler that ends.
LEMMA EndFormed ==
    ASSUME WorkFormed, NEW h \in Handlers, TypeOK, TypeOK', End(h),
           \A c \in Chats : Formed(session'[c])
    PROVE  WorkFormed'
<1>1. handler'[h] = Idle /\ \A g \in Handlers \ {h} : handler'[g] = handler[g]
  BY DEF End, TypeOK
<1>2. QED
  BY <1>1, FormedAt, IdleTyped, NoSessionTyped DEF Held

LEMMA FormedStep == ASSUME TypeOK, TypeOK', WorkFormed, [Next]_vars PROVE WorkFormed'
<1>0. \A c \in Chats : Formed(session[c])
  BY DEF WorkFormed
<1>1. ASSUME NEW h \in Handlers, NEW c \in Chats, NEW u \in Updates, Receive(h, c, u)
      PROVE  WorkFormed'
  <2>1. /\ Start(u) \in {"leave", "read", "open"}
        /\ Start(u) = "open" => u \in Openings
    BY DEF Start, Updates
  <2>2. /\ handler'[h].pc = Start(u) /\ handler'[h].chat = c /\ handler'[h].update = u
        /\ handler'[h].held = NoSession
        /\ \A g \in Handlers \ {h} : handler'[g] = handler[g]
    BY <1>1 DEF Receive, Idle, TypeOK
  <2>3. session' = session
    BY <1>1 DEF Receive, rowVars
  <2>4. QED
    BY <1>0, <2>1, <2>2, <2>3, FormedAt, NoSessionTyped DEF Held
<1>2. ASSUME NEW h \in Handlers, Leave(h) PROVE WorkFormed'
  <2>1. \A c \in Chats : Formed(session'[c])
    BY <1>0, <1>2, NoSessionTyped DEF Leave, TypeOK
  <2>2. CASE End(h)
    BY <2>1, <2>2, EndFormed
  <2>3. CASE Goto(h, "open") /\ handler[h].update = "tables"
    <3>1. /\ handler'[h].pc = "open" /\ handler'[h].update = "tables"
          /\ handler'[h].held = handler[h].held /\ handler'[h].chat = handler[h].chat
          /\ \A g \in Handlers \ {h} : handler'[g] = handler[g]
      BY <2>3 DEF Goto, TypeOK
    <3>2. Formed(handler[h].held) /\ Held(h) = 0 /\ handler[h].chat \in Chats
      BY <1>2 DEF Leave, WorkFormed, At
    <3>3. QED
      BY <2>1, <3>1, <3>2, FormedAt DEF Held
  <2>4. QED
    BY <1>2, <2>2, <2>3 DEF Leave
<1>3. ASSUME NEW h \in Handlers, Open(h) PROVE WorkFormed'
  <2>1. ASSUME NEW c \in Chats PROVE Formed(session'[c])
    <3>1. CASE c = handler[h].chat
      <4>1. /\ session'[c].dlg = dialogues + 1 /\ session'[c].id = 0
            /\ session'[c].step \in Openings \cup {"edit_table_count"}
        BY <1>3, <3>1, OpenView
      <4>2. session'[c].step \in Steps /\ session'[c].step \notin Creating
        BY <4>1 DEF Openings, Steps, OneAnswer, Creating, NextStep, waitingForPhoto,
                    Replacing, SiteImages
      <4>3. dialogues + 1 # 0
        BY BoundsTyped DEF TypeOK
      <4>4. QED
        BY <4>1, <4>2, <4>3, NoSessionTyped DEF Formed
    <3>2. CASE c # handler[h].chat
      BY <1>0, <1>3, <3>2, OpenView
    <3>3. QED
      BY <3>1, <3>2
  <2>2. QED
    BY <1>3, <2>1, EndFormed DEF Open
<1>4. ASSUME NEW h \in Handlers, Read(h) PROVE WorkFormed'
  <2> DEFINE s == session[handler[h].chat]
  <2>1. handler[h].chat \in Chats
    BY <1>4 DEF Read, WorkFormed, At
  <2>2. \A c \in Chats : Formed(session'[c])
    BY <1>0, <1>4 DEF Read, rowVars
  <2>3. CASE End(h)
    BY <2>2, <2>3, EndFormed
  <2>4. ASSUME NEW pc \in Reactions(handler[h].update, s), pc # "idle",
               handler' = [handler EXCEPT ![h].pc = pc, ![h].held = s]
        PROVE  WorkFormed'
    <3>1. /\ pc \in {"store", "download", "apply", "clear"} /\ s.step # "none"
          /\ pc = "store" => s.step \in DOMAIN NextStep
      BY <2>4, ReactionsTyped
    <3>2. Formed(s) /\ s.dlg # 0
      BY <1>0, <2>1, <3>1 DEF Formed, NoSession
    <3>3. /\ handler'[h].pc = pc /\ handler'[h].held = s /\ handler'[h].chat = handler[h].chat
          /\ \A g \in Handlers \ {h} : handler'[g] = handler[g]
      BY <2>4 DEF TypeOK
    <3>4. QED
      BY <2>1, <2>2, <3>1, <3>2, <3>3, FormedAt DEF Held
  <2>5. QED
    BY <1>4, <2>3, <2>4 DEF Read
<1>5. ASSUME NEW h \in Handlers, NEW pc \in {"apply", "clear"}, Goto(h, pc), Held(h) # 0,
             session' = session, handler[h].pc # "idle"
      PROVE  WorkFormed'
  <2>1. /\ handler'[h].pc = pc /\ handler'[h].held = handler[h].held
        /\ handler'[h].chat = handler[h].chat
        /\ \A g \in Handlers \ {h} : handler'[g] = handler[g]
    BY <1>5 DEF Goto, TypeOK
  <2>2. Formed(handler[h].held) /\ handler[h].chat \in Chats
    BY <1>5 DEF WorkFormed
  <2>3. QED
    BY <1>0, <1>5, <2>1, <2>2, FormedAt DEF Held
<1>6. ASSUME NEW h \in Handlers, Download(h) \/ Refuse(h) \/ Crash(h) \/ Apply(h)
      PROVE  WorkFormed'
  <2>1. session' = session
    BY <1>6 DEF Download, Refuse, Crash, Apply, rowVars
  <2>2. CASE End(h)
    BY <1>0, <2>1, <2>2, EndFormed
  <2>3. CASE ~End(h)
    <3>1. (Goto(h, "apply") \/ Goto(h, "clear")) /\ handler[h].pc \in {"download", "apply"}
      BY <1>6, <2>3 DEF Download, Refuse, Crash, Apply, At
    <3>2. Held(h) # 0
      BY <3>1 DEF WorkFormed
    <3>3. QED
      BY <1>5, <2>1, <3>1, <3>2
  <2>4. QED
    BY <2>2, <2>3
<1>7. ASSUME NEW h \in Handlers, Store(h) PROVE WorkFormed'
  <2>1. ASSUME NEW c \in Chats PROVE Formed(session'[c])
    <3>1. CASE c = handler[h].chat
      BY <1>7, <3>1, StoreView, NextSteps, NoSessionTyped DEF Formed
    <3>2. CASE c # handler[h].chat
      BY <1>0, <1>7, <3>2, StoreView
    <3>3. QED
      BY <3>1, <3>2
  <2>2. QED
    BY <1>7, <2>1, EndFormed DEF Store
<1>8. ASSUME NEW h \in Handlers, Clear(h) PROVE WorkFormed'
  <2>1. \A c \in Chats : Formed(session'[c])
    BY <1>0, <1>8, NoSessionTyped DEF Clear, TypeOK
  <2>2. QED
    BY <1>8, <2>1, EndFormed DEF Clear
<1>9. ASSUME NEW c \in Chats, Expire(c) PROVE WorkFormed'
  <2>1. /\ \A e \in Chats : Formed(session'[e])
        /\ handler' = handler
    BY <1>0, <1>9, NoSessionTyped DEF Expire, TypeOK
  <2>2. QED
    BY <2>1 DEF WorkFormed, Held, Formed
<1>10. CASE UNCHANGED vars
  BY <1>10 DEF vars, WorkFormed, Held, Formed
<1>11. QED
  BY <1>1, <1>2, <1>3, <1>4, <1>6, <1>7, <1>8, <1>9, <1>10 DEF Next, HandlerStep

\* Numbers, so that the provers may compare them.
LEMMA Numbers ==
    ASSUME TypeOK
    PROVE  /\ dialogues \in Nat
           /\ \A c \in Chats : session[c].dlg \in Nat /\ session[c].id \in Nat
           /\ \A h \in Handlers : Held(h) \in Nat /\ handler[h].held.id \in Nat
           /\ \A r \in made : r.dlg \in Dialogues /\ r.id \in Nat \ {0}
           /\ Dialogues \subseteq Nat \ {0}
  BY BoundsTyped DEF TypeOK, SessionType, Held, Dialogues

\* What a closed dialogue leaves, and what a noted one.
LEMMA CloseView ==
    ASSUME TypeOK, NEW h \in Handlers, NEW c \in Chats,
           NEW how \in {"cancelled", "replaced", "finished", "lost"}, Close(h, c, how)
    PROVE  /\ \A d \in Dialogues : ended'[d] # "no" => ended[d] # "no" \/ d = session[c].dlg
           /\ \A d \in Dialogues : ended[d] # "no" => ended'[d] # "no"
           /\ overlapped \subseteq overlapped'
           /\ \A g \in Handlers \ {h} :
                 session[c].dlg # 0 /\ Held(g) = session[c].dlg => session[c].dlg \in overlapped'
<1>1. \A d \in Dialogues : /\ ended'[d] # "no" => ended[d] # "no" \/ d = session[c].dlg
                           /\ ended[d] # "no" => ended'[d] # "no"
  BY DEF Close
<1>2. overlapped \subseteq overlapped'
  BY DEF Close, MarkOverlap
<1>3. ASSUME NEW g \in Handlers \ {h}, session[c].dlg # 0, Held(g) = session[c].dlg
      PROVE  session[c].dlg \in overlapped'
  BY <1>3 DEF Close, MarkOverlap, Others
<1>4. QED
  BY <1>1, <1>2, <1>3

LEMMA NoteView ==
    ASSUME TypeOK, NEW h \in Handlers, Note(h)
    PROVE  \A d \in Dialogues : d \in after' => d \in after \/ (d = Held(h) /\ ended[d] # "no")
  BY DEF Note

LEMMA OpenedStep == ASSUME TypeOK, WorkFormed, Opened, [Next]_vars PROVE Opened'
<1> USE Numbers, NoSessionTyped
<1>1. CASE Rest
  BY <1>1 DEF Rest, Kept, Freed, Opened, Held
<1>2. ASSUME NEW h \in Handlers, NEW c \in Chats, Drop(h, c) PROVE Opened'
  <2>1. \A d \in Dialogues : ended'[d] # "no" => ended[d] # "no" \/ d = session[c].dlg
    BY <1>2, CloseView DEF Drop
  <2>2. \A e \in Chats : session'[e].dlg <= dialogues
    BY <1>2 DEF Drop, Opened, TypeOK
  <2>3. \A g \in Handlers : Held(g)' <= dialogues
    BY <1>2 DEF Drop, Kept, OthersKept, Freed, Opened, Held
  <2>4. QED
    BY <1>2, <2>1, <2>2, <2>3 DEF Drop, Opened
<1>3. ASSUME NEW h \in Handlers, Take(h) PROVE Opened'
  BY <1>3 DEF Take, OthersKept, Kept, Opened, Held
<1>4. ASSUME NEW c \in Chats, Expire(c) PROVE Opened'
  BY <1>4 DEF Expire, Opened, Held, historyVars, TypeOK
<1>5. ASSUME NEW h \in Handlers, Open(h) PROVE Opened'
  <2>1. \A d \in Dialogues : ended'[d] # "no" => ended[d] # "no" \/ d = session[handler[h].chat].dlg
    BY <1>5, CloseView, OpenView
  <2>2. \A e \in Chats : session'[e].dlg <= dialogues + 1
    BY <1>5, OpenView DEF Opened
  <2>3. \A g \in Handlers : Held(g)' <= dialogues + 1
    BY <1>5, OpenView DEF Kept, OthersKept, Freed, Opened, Held
  <2>4. QED
    BY <1>5, <2>1, <2>2, <2>3, OpenView DEF Opened
<1>6. ASSUME NEW h \in Handlers, Store(h) PROVE Opened'
  <2>1. \A d \in Dialogues : ended'[d] # "no" => ended[d] # "no" \/ d = session[handler[h].chat].dlg
    BY <1>6, CloseView, StoreView
  <2>2. \A e \in Chats : session'[e].dlg <= dialogues
    BY <1>6, StoreView DEF Opened, Held
  <2>3. \A g \in Handlers : Held(g)' <= dialogues
    BY <1>6, StoreView DEF Kept, OthersKept, Freed, Opened, Held
  <2>4. QED
    BY <1>6, <2>1, <2>2, <2>3, StoreView DEF Opened
<1>7. ASSUME NEW h \in Handlers, Apply(h) PROVE Opened'
  BY <1>7, ApplyView DEF Kept, Opened, Held
<1>8. QED
  BY <1>1, <1>2, <1>3, <1>4, <1>5, <1>6, <1>7, Views

LEMMA OneChatStep == ASSUME TypeOK, WorkFormed, Opened, OneChat, [Next]_vars PROVE OneChat'
<1> USE Numbers, NoSessionTyped
<1>1. CASE Rest
  BY <1>1 DEF Rest, Kept, Freed, OneChat, Held
<1>2. ASSUME NEW h \in Handlers, NEW c \in Chats, Drop(h, c) PROVE OneChat'
  <2>1. \A e \in Chats : session'[e] = IF e = c THEN NoSession ELSE session[e]
    BY <1>2 DEF Drop, TypeOK
  <2>2. QED
    BY <1>2, <2>1 DEF Drop, Kept, OthersKept, Freed, OneChat, Held
<1>3. ASSUME NEW h \in Handlers, Take(h) PROVE OneChat'
  <2>1. \A g \in Handlers : handler'[g].chat = handler[g].chat
    BY <1>3 DEF Take, OthersKept, Kept
  <2>2. \A g \in Handlers \ {h} : Held(g)' = Held(g)
    BY <1>3 DEF Take, OthersKept, Kept, Held
  <2>3. Held(h)' = session[handler[h].chat].dlg /\ handler[h].chat \in Chats /\ session' = session
    BY <1>3 DEF Take, Held
  <2>4. QED
    BY <2>1, <2>2, <2>3 DEF OneChat
<1>4. ASSUME NEW c \in Chats, Expire(c) PROVE OneChat'
  BY <1>4 DEF Expire, OneChat, Held, TypeOK
<1>5. ASSUME NEW h \in Handlers, Open(h) PROVE OneChat'
  <2>1. \A g \in Handlers : Held(g)' <= dialogues /\ (Held(g)' = 0 \/ Kept(g))
    BY <1>5, OpenView DEF Kept, OthersKept, Freed, Opened, Held
  <2>2. \A e \in Chats : IF e = handler[h].chat THEN session'[e].dlg = dialogues + 1
                                                ELSE session'[e] = session[e]
    BY <1>5, OpenView
  <2>3. \A e \in Chats : session[e].dlg <= dialogues
    BY DEF Opened
  <2>4. \A c, e \in Chats : session'[c].dlg # 0 /\ session'[c].dlg = session'[e].dlg => c = e
    BY <2>2, <2>3 DEF OneChat
  <2>5. \A g \in Handlers, c \in Chats :
           Held(g)' # 0 /\ Held(g)' = session'[c].dlg => handler'[g].chat = c
    BY <2>1, <2>2 DEF OneChat, Kept, Held
  <2>6. \A f, g \in Handlers :
           Held(f)' # 0 /\ Held(f)' = Held(g)' => handler'[f].chat = handler'[g].chat
    BY <2>1 DEF OneChat, Kept, Held
  <2>7. QED
    BY <2>4, <2>5, <2>6 DEF OneChat
<1>6. ASSUME NEW h \in Handlers, Store(h) PROVE OneChat'
  <2>1. \A g \in Handlers : Held(g)' = 0 \/ Kept(g)
    BY <1>6, StoreView DEF Kept, OthersKept, Freed, Held
  <2>2. \A e \in Chats : IF e = handler[h].chat THEN session'[e].dlg = Held(h)
                                                ELSE session'[e] = session[e]
    BY <1>6, StoreView DEF Held
  <2>3. \A c, e \in Chats : session'[c].dlg # 0 /\ session'[c].dlg = session'[e].dlg => c = e
    BY <2>2 DEF OneChat
  <2>4. \A g \in Handlers, c \in Chats :
           Held(g)' # 0 /\ Held(g)' = session'[c].dlg => handler'[g].chat = c
    BY <2>1, <2>2 DEF OneChat, Kept, Held
  <2>5. \A f, g \in Handlers :
           Held(f)' # 0 /\ Held(f)' = Held(g)' => handler'[f].chat = handler'[g].chat
    BY <2>1 DEF OneChat, Kept, Held
  <2>6. QED
    BY <2>3, <2>4, <2>5 DEF OneChat
<1>7. ASSUME NEW h \in Handlers, Apply(h) PROVE OneChat'
  BY <1>7, ApplyView DEF Kept, OneChat, Held
<1>8. QED
  BY <1>1, <1>2, <1>3, <1>4, <1>5, <1>6, <1>7, Views

LEMMA CurrentStep ==
    ASSUME TypeOK, WorkFormed, Opened, OneChat, Current, [Next]_vars PROVE Current'
<1> USE Numbers, NoSessionTyped
<1>1. CASE Rest
  BY <1>1 DEF Rest, Kept, Freed, Current, Held
<1>2. ASSUME NEW h \in Handlers, NEW c \in Chats, Drop(h, c) PROVE Current'
  <2>1. \A e \in Chats : session'[e] = IF e = c THEN NoSession ELSE session[e]
    BY <1>2 DEF Drop, TypeOK
  <2>2. overlapped \subseteq overlapped'
    BY <1>2, CloseView DEF Drop
  <2>3. QED
    BY <1>2, <2>1, <2>2 DEF Drop, Kept, OthersKept, Freed, Current, Held
<1>3. ASSUME NEW h \in Handlers, Take(h) PROVE Current'
  <2> DEFINE s == session[handler[h].chat]
  <2>1. \A g \in Handlers \ {h} : handler'[g].held = handler[g].held
    BY <1>3 DEF Take, OthersKept, Kept
  <2>2. handler'[h].held = s /\ handler[h].chat \in Chats /\ session' = session
    BY <1>3 DEF Take
  <2>3. /\ overlapped \subseteq overlapped'
        /\ \A g \in Handlers \ {h} : s.dlg # 0 /\ Held(g) = s.dlg => s.dlg \in overlapped'
    BY <1>3 DEF Take, MarkOverlap, Others
  <2>4. \A f, g \in Handlers :
           Held(f)' # 0 /\ Held(f)' = Held(g)' => f = g \/ Held(f)' \in overlapped'
    BY <2>1, <2>2, <2>3 DEF Current, Held
  <2>5. ASSUME NEW g \in Handlers, NEW c \in Chats,
               Held(g)' # 0, Held(g)' = session'[c].dlg, Held(g)' \notin overlapped'
        PROVE  session'[c] = handler'[g].held
    <3>1. CASE g = h
      BY <2>2, <2>5, <3>1 DEF OneChat, Held
    <3>2. CASE g # h
      BY <2>1, <2>2, <2>3, <2>5, <3>2 DEF Current, Held
    <3>3. QED
      BY <3>1, <3>2
  <2>6. QED
    BY <2>4, <2>5 DEF Current
<1>4. ASSUME NEW c \in Chats, Expire(c) PROVE Current'
  BY <1>4 DEF Expire, Current, Held, historyVars, TypeOK
<1>5. ASSUME NEW h \in Handlers, Open(h) PROVE Current'
  <2>1. \A g \in Handlers : Held(g)' <= dialogues /\ (Held(g)' = 0 \/ Kept(g))
    BY <1>5, OpenView DEF Kept, OthersKept, Freed, Opened, Held
  <2>2. \A e \in Chats : IF e = handler[h].chat THEN session'[e].dlg = dialogues + 1
                                                ELSE session'[e] = session[e]
    BY <1>5, OpenView
  <2>3. overlapped \subseteq overlapped'
    BY <1>5, OpenView, CloseView
  <2>4. QED
    BY <2>1, <2>2, <2>3 DEF Current, Kept, Held
<1>6. ASSUME NEW h \in Handlers, Store(h) PROVE Current'
  <2>1. Held(h)' = 0 /\ \A g \in Handlers \ {h} : Kept(g)
    BY <1>6, StoreView DEF Kept, OthersKept, Freed, Held
  <2>2. \A e \in Chats : IF e = handler[h].chat THEN session'[e].dlg = Held(h)
                                                ELSE session'[e] = session[e]
    BY <1>6, StoreView DEF Held
  <2>3. overlapped \subseteq overlapped'
    BY <1>6, StoreView, CloseView
  <2>4. QED
    BY <2>1, <2>2, <2>3 DEF Current, Kept, Held
<1>7. ASSUME NEW h \in Handlers, Apply(h) PROVE Current'
  BY <1>7, ApplyView DEF Kept, Current, Held
<1>8. QED
  BY <1>1, <1>2, <1>3, <1>4, <1>5, <1>6, <1>7, Views

LEMMA GoneStep ==
    ASSUME TypeOK, TypeOK', WorkFormed, Opened, OneChat, Gone, [Next]_vars PROVE Gone'
<1> USE Numbers, NoSessionTyped
<1>1. CASE Rest
  BY <1>1 DEF Rest, Kept, Freed, Gone, Held
<1>2. ASSUME NEW h \in Handlers, NEW c \in Chats, Drop(h, c) PROVE Gone'
  <2>1. /\ \A d \in Dialogues : ended'[d] # "no" => ended[d] # "no" \/ d = session[c].dlg
        /\ \A d \in Dialogues : ended[d] # "no" => ended'[d] # "no"
        /\ overlapped \subseteq overlapped'
        /\ \A g \in Handlers \ {h} :
              session[c].dlg # 0 /\ Held(g) = session[c].dlg => session[c].dlg \in overlapped'
    BY <1>2, CloseView DEF Drop
  <2>2. \A e \in Chats : session'[e] = IF e = c THEN NoSession ELSE session[e]
    BY <1>2 DEF Drop, TypeOK
  <2>3. after' = after /\ after \subseteq Dialogues
    BY <1>2 DEF Drop, TypeOK
  <2>4. ASSUME NEW d \in Dialogues, ended'[d] # "no", d \notin overlapped'
        PROVE  /\ d \notin after'
               /\ \A e \in Chats : session'[e].dlg # d
               /\ \A g \in Handlers : Held(g)' # d
    <3>1. CASE ended[d] # "no"
      BY <1>2, <2>1, <2>2, <2>3, <2>4, <3>1 DEF Drop, OthersKept, Kept, Freed, Gone, Held
    <3>2. CASE ended[d] = "no" /\ d = session[c].dlg
      <4>1. \A g \in Handlers : Held(g)' # d
        BY <1>2, <2>1, <2>4, <3>2 DEF Drop, OthersKept, Kept, Freed, Held
      <4>2. \A e \in Chats : session'[e].dlg # d
        BY <2>2, <3>2 DEF OneChat
      <4>3. QED
        BY <2>3, <3>2, <4>1, <4>2 DEF Gone
    <3>3. QED
      BY <2>1, <2>4, <3>1, <3>2
  <2>5. QED
    BY <2>1, <2>3, <2>4 DEF Gone
<1>3. ASSUME NEW h \in Handlers, Take(h) PROVE Gone'
  <2>1. /\ \A g \in Handlers \ {h} : Held(g)' = Held(g)
        /\ Held(h)' = session[handler[h].chat].dlg /\ handler[h].chat \in Chats
        /\ overlapped \subseteq overlapped'
        /\ UNCHANGED <<session, ended, after>>
    BY <1>3 DEF Take, OthersKept, Kept, MarkOverlap, Held
  <2>2. QED
    BY <2>1 DEF Gone
<1>4. ASSUME NEW c \in Chats, Expire(c) PROVE Gone'
  BY <1>4 DEF Expire, Gone, Held, historyVars, TypeOK
<1>5. ASSUME NEW h \in Handlers, Open(h) PROVE Gone'
  <2> DEFINE c == handler[h].chat
  <2>1. /\ c \in Chats /\ session'[c].dlg = dialogues + 1
        /\ \A e \in Chats \ {c} : session'[e] = session[e]
        /\ Held(h)' = 0 /\ \A g \in Handlers \ {h} : Held(g)' = Held(g)
        /\ after' = after /\ after \subseteq Dialogues
    BY <1>5, OpenView DEF Kept, OthersKept, Freed, Held, TypeOK
  <2>2. /\ \A d \in Dialogues : ended'[d] # "no" => ended[d] # "no" \/ d = session[c].dlg
        /\ \A d \in Dialogues : ended[d] # "no" => ended'[d] # "no"
        /\ overlapped \subseteq overlapped'
        /\ \A g \in Handlers \ {h} :
              session[c].dlg # 0 /\ Held(g) = session[c].dlg => session[c].dlg \in overlapped'
    BY <1>5, <2>1, OpenView, CloseView
  <2>3. \A d \in Dialogues : ended[d] # "no" \/ d = session[c].dlg => d <= dialogues
    BY <2>1 DEF Opened
  <2>4. ASSUME NEW d \in Dialogues, ended'[d] # "no", d \notin overlapped'
        PROVE  /\ d \notin after'
               /\ \A e \in Chats : session'[e].dlg # d
               /\ \A g \in Handlers : Held(g)' # d
    <3>1. d # dialogues + 1 /\ d # 0
      BY <2>2, <2>3, <2>4
    <3> HIDE DEF c
    <3>2. CASE ended[d] # "no"
      BY <2>1, <2>2, <2>4, <3>1, <3>2 DEF Gone
    <3>3. CASE ended[d] = "no" /\ d = session[c].dlg
      BY <2>1, <2>2, <2>4, <3>1, <3>3 DEF Gone, OneChat
    <3>4. QED
      BY <2>2, <2>4, <3>2, <3>3
  <2>5. QED
    BY <2>1, <2>2, <2>4 DEF Gone
<1>6. ASSUME NEW h \in Handlers, Store(h) PROVE Gone'
  <2> DEFINE c == handler[h].chat
  <2>1. /\ c \in Chats /\ session'[c].dlg = Held(h) /\ Held(h) # 0
        /\ \A e \in Chats \ {c} : session'[e] = session[e]
        /\ Held(h)' = 0 /\ \A g \in Handlers \ {h} : Held(g)' = Held(g)
        /\ after \subseteq Dialogues
    BY <1>6, StoreView DEF Kept, OthersKept, Freed, Held, TypeOK
  <2>2. /\ \A d \in Dialogues : ended'[d] # "no" =>
              ended[d] # "no" \/ (d = session[c].dlg /\ d # Held(h))
        /\ \A d \in Dialogues : ended[d] # "no" => ended'[d] # "no"
        /\ overlapped \subseteq overlapped'
        /\ \A g \in Handlers \ {h}, d \in Dialogues :
              Held(g) = d /\ ended[d] = "no" /\ ended'[d] # "no" => d \in overlapped'
    <3>1. CASE session[c].dlg \in {0, Held(h)}
      BY <1>6, <3>1, StoreView DEF Held
    <3>2. CASE session[c].dlg \notin {0, Held(h)}
      <4>1. Close(h, c, "replaced")
        BY <1>6, <3>2, StoreView DEF Held
      <4>2. QED
        BY <2>1, <3>2, <4>1, CloseView
    <3>3. QED
      BY <3>1, <3>2
  <2>3. \A d \in Dialogues : d \in after' => d \in after \/ (d = Held(h) /\ ended[d] # "no")
    BY <1>6, StoreView, NoteView
  <2>4. after' \subseteq Dialogues
    BY DEF TypeOK
  <2>5. ASSUME NEW d \in Dialogues, ended'[d] # "no", d \notin overlapped'
        PROVE  /\ d \notin after'
               /\ \A e \in Chats : session'[e].dlg # d
               /\ \A g \in Handlers : Held(g)' # d
    <3> HIDE DEF c
    <3>1. CASE ended[d] # "no"
      BY <2>1, <2>2, <2>3, <2>5, <3>1 DEF Gone
    <3>2. CASE ended[d] = "no" /\ d = session[c].dlg /\ d # Held(h)
      BY <2>1, <2>2, <2>3, <2>5, <3>2 DEF Gone, OneChat
    <3>3. QED
      BY <2>2, <2>5, <3>1, <3>2
  <2>6. QED
    BY <2>2, <2>3, <2>4, <2>5 DEF Gone
<1>7. ASSUME NEW h \in Handlers, Apply(h) PROVE Gone'
  <2>1. /\ \A g \in Handlers : Held(g)' = Held(g)
        /\ UNCHANGED <<session, ended, overlapped>>
    BY <1>7, ApplyView DEF Kept, Held
  <2>2. \A d \in Dialogues : d \in after' => d \in after \/ (d = Held(h) /\ ended[d] # "no")
    BY <1>7, ApplyView, NoteView
  <2>3. after' \subseteq Dialogues /\ after \subseteq Dialogues
    BY DEF TypeOK
  <2>4. QED
    BY <2>1, <2>2, <2>3 DEF Gone
<1>8. QED
  BY <1>1, <1>2, <1>3, <1>4, <1>5, <1>6, <1>7, Views

LEMMA OneIdStep ==
    ASSUME TypeOK, WorkFormed, Opened, OneChat, Current, OneId, [Next]_vars PROVE OneId'
<1> USE Numbers, NoSessionTyped
<1>1. CASE Rest
  BY <1>1 DEF Rest, Kept, Freed, OneId, Held
<1>2. ASSUME NEW h \in Handlers, NEW c \in Chats, Drop(h, c) PROVE OneId'
  <2>1. \A e \in Chats : session'[e] = IF e = c THEN NoSession ELSE session[e]
    BY <1>2 DEF Drop, TypeOK
  <2>2. overlapped \subseteq overlapped'
    BY <1>2, CloseView DEF Drop
  <2>3. QED
    BY <1>2, <2>1, <2>2 DEF Drop, Kept, OthersKept, Freed, OneId, Held
<1>3. ASSUME NEW h \in Handlers, Take(h) PROVE OneId'
  <2>1. /\ \A g \in Handlers \ {h} : handler'[g].held = handler[g].held
        /\ handler'[h].held = session[handler[h].chat] /\ handler[h].chat \in Chats
        /\ overlapped \subseteq overlapped'
        /\ UNCHANGED <<session, made>>
    BY <1>3 DEF Take, OthersKept, Kept, MarkOverlap
  <2>2. QED
    BY <2>1 DEF OneId, Held
<1>4. ASSUME NEW c \in Chats, Expire(c) PROVE OneId'
  BY <1>4 DEF Expire, OneId, Held, historyVars, TypeOK
<1>5. ASSUME NEW h \in Handlers, Open(h) PROVE OneId'
  <2>1. /\ \A g \in Handlers : Held(g)' = 0 \/ handler'[g].held = handler[g].held
        /\ \A e \in Chats : session'[e].dlg = dialogues + 1 \/ session'[e] = session[e]
        /\ made' = made
    BY <1>5, OpenView DEF Kept, OthersKept, Freed, Held
  <2>2. overlapped \subseteq overlapped'
    BY <1>5, OpenView, CloseView
  <2>3. QED
    BY <2>1, <2>2 DEF OneId, Opened, Held
<1>6. ASSUME NEW h \in Handlers, Store(h) PROVE OneId'
  <2>1. /\ \A g \in Handlers : Held(g)' = 0 \/ handler'[g].held = handler[g].held
        /\ \A e \in Chats : session'[e].dlg = Held(h) \/ session'[e] = session[e]
        /\ handler[h].held.id = 0
        /\ made' = made
    BY <1>6, StoreView DEF Kept, OthersKept, Freed, Held
  <2>2. overlapped \subseteq overlapped'
    BY <1>6, StoreView, CloseView
  <2>3. \A r \in made : r.dlg \notin overlapped => r.dlg # Held(h)
    BY <2>1 DEF OneId
  <2>4. QED
    BY <2>1, <2>2, <2>3 DEF OneId, Held
<1>7. ASSUME NEW h \in Handlers, Apply(h) PROVE OneId'
  <2>1. /\ \A g \in Handlers : handler'[g].held = handler[g].held
        /\ UNCHANGED <<session, overlapped>>
        /\ Held(h) # 0
    BY <1>7, ApplyView DEF Kept
  <2>2. CASE made' = made
    BY <2>1, <2>2 DEF OneId, Held
  <2> DEFINE row == [id |-> handler[h].held.id, dlg |-> Held(h)]
  <2>3. CASE /\ \A r \in made : r.id # handler[h].held.id
             /\ made' = made \cup {row}
    <3>1. Held(h) \notin overlapped =>
             /\ \A r \in made : r.dlg # Held(h)
             /\ \A c \in Chats : session[c].dlg = Held(h) => session[c].id = handler[h].held.id
             /\ \A g \in Handlers : Held(g) = Held(h) => g = h
      BY <2>1, <2>3 DEF OneId, Current
    <3>2. ASSUME NEW r \in made', r.dlg \notin overlapped'
          PROVE  /\ \A s \in made' : s.dlg = r.dlg => s = r
                 /\ \A c \in Chats : session'[c].dlg = r.dlg => session'[c].id = r.id
                 /\ \A g \in Handlers : Held(g)' = r.dlg => handler'[g].held.id = r.id
      <4>1. CASE r = row
        <5>1. r.dlg = Held(h) /\ r.id = handler[h].held.id
          BY <4>1
        <5>2. QED
          BY <2>1, <2>3, <3>1, <3>2, <4>1, <5>1 DEF Held
      <4>2. CASE r \in made
        <5>1. row.dlg = r.dlg => FALSE
          BY <2>1, <3>1, <3>2, <4>2
        <5> HIDE DEF row
        <5>2. QED
          BY <2>1, <2>3, <3>2, <4>2, <5>1 DEF OneId, Held
      <4>3. QED
        BY <2>3, <3>2, <4>1, <4>2
    <3>3. QED
      BY <3>2 DEF OneId
  <2>4. QED
    BY <1>7, <2>2, <2>3, ApplyView
<1>8. QED
  BY <1>1, <1>2, <1>3, <1>4, <1>5, <1>6, <1>7, Views

-----------------------------------------------------------------------------
(* Theorems.                                                               *)

LEMMA InvStep == TypeOK /\ BotInv /\ [Next]_vars => (TypeOK /\ BotInv)'
<1> SUFFICES ASSUME TypeOK, BotInv, [Next]_vars PROVE TypeOK' /\ BotInv'
  OBVIOUS
<1>1. TypeOK'
  BY TypeStep DEF BotInv
<1>2. WorkFormed' /\ Opened' /\ OneChat'
  BY <1>1, FormedStep, OpenedStep, OneChatStep DEF BotInv
<1>3. Current' /\ Gone' /\ OneId'
  BY <1>1, CurrentStep, GoneStep, OneIdStep DEF BotInv
<1>4. QED
  BY <1>1, <1>2, <1>3 DEF BotInv

\* The types of the variables are kept, and with them BotInv.
THEOREM BotTypeCorrect == Spec => [](TypeOK /\ BotInv)
<1>1. Init => TypeOK /\ BotInv
  BY TypeInit, InvInit
<1>2. QED
  BY <1>1, InvStep, PTL DEF Spec

\* However handlers die, sessions expire and dialogues follow each other: one
\* dialogue whose answers were not handled at once adds one row.
THEOREM OneRow == Spec => []OneRowUnlessOverlapped
<1>1. BotInv => OneRowUnlessOverlapped
  BY DEF BotInv, OneId, OneRowUnlessOverlapped
<1>2. QED
  BY <1>1, BotTypeCorrect, PTL

\* What has ended without an overlap neither comes back nor does anything.
THEOREM EndedIsOver == Spec => []EndedStaysEnded
<1>1. BotInv => EndedStaysEnded
  BY DEF BotInv, Gone, EndedStaysEnded
<1>2. QED
  BY <1>1, BotTypeCorrect, PTL

\* Steps change the session of a going dialogue only to a later question.
LEMMA ForwardStep ==
    ASSUME TypeOK, BotInv, [Next]_vars, NEW c \in Chats,
           session[c].dlg # 0, session'[c].dlg = session[c].dlg, session'[c] # session[c]
    PROVE  \/ Progress(session'[c].step) > Progress(session[c].step)
           \/ session[c].dlg \in overlapped'
<1> USE Numbers, NoSessionTyped DEF BotInv
<1>1. ~Rest /\ ~Expire(c)
  BY DEF Rest, Expire, TypeOK
<1>2. ASSUME NEW h \in Handlers, NEW e \in Chats, Drop(h, e) \/ Expire(e) PROVE FALSE
  <2>1. session' = [session EXCEPT ![e] = NoSession]
    BY <1>2 DEF Drop, Expire
  <2>2. QED
    BY <2>1 DEF TypeOK
<1>3. ASSUME NEW h \in Handlers, Take(h) \/ Apply(h) PROVE FALSE
  BY <1>3 DEF Take, Apply
<1>4. ASSUME NEW h \in Handlers, Open(h) PROVE FALSE
  <2>1. session'[c] = session[c] \/ session'[c].dlg = dialogues + 1
    BY <1>4, OpenView
  <2>2. QED
    BY <2>1 DEF Opened
<1>5. ASSUME NEW h \in Handlers, Store(h)
      PROVE  \/ Progress(session'[c].step) > Progress(session[c].step)
             \/ session[c].dlg \in overlapped'
  <2>1. /\ handler[h].chat = c /\ Held(h) = session[c].dlg
        /\ session'[c].step = NextStep[handler[h].held.step]
        /\ handler[h].held.step \in DOMAIN NextStep
        /\ overlapped' = overlapped
    BY <1>5, StoreView DEF Held
  <2>2. CASE session[c] = handler[h].held
    BY <2>1, <2>2, NextSteps
  <2>3. CASE Held(h) \in overlapped
    BY <2>1, <2>3
  <2>4. QED
    BY <2>1, <2>2, <2>3 DEF Current
<1>6. \A e \in Chats : ~Expire(e)
  BY DEF Expire, TypeOK
<1>7. QED
  BY <1>1, <1>2, <1>3, <1>4, <1>5, <1>6, Views

\* A dialogue only moves forward.
THEOREM MovesForward == Spec => ForwardOnly
<1>1. TypeOK /\ BotInv /\ [Next]_vars =>
         [\A c \in Chats :
             LET s == session[c]
                 t == session'[c]
             IN  s.dlg # 0 /\ t.dlg = s.dlg /\ t # s =>
                    Progress(t.step) > Progress(s.step) \/ s.dlg \in overlapped']_vars
  BY ForwardStep
<1>2. QED
  BY <1>1, BotTypeCorrect, PTL DEF Spec, ForwardOnly
=============================================================================
