----------------------------- MODULE BotSession -----------------------------
(***************************************************************************)
(* The dialogues that an admin has with the bot (telegram.js and           *)
(* telegram/*.js). A dialogue lives in one row of bot_state per chat, the  *)
(* session, which says what the next text or photo of that chat answers.   *)
(*                                                                         *)
(* The webhook says "OK" at once and leaves the update to waitUntil, so    *)
(* Telegram sends the next one before the last is done: the updates of a   *)
(* chat (the photos of an album, two presses, a press during an upload)    *)
(* are handled at the same time, each over the session as it read it.      *)
(* deleteMessageSafe, the preview, the download and every query are the    *)
(* points where they interleave.                                           *)
(*                                                                         *)
(* Every dialogue has a number here; the products, prices and names it is  *)
(* about are functions of that number and are left out, all but the id     *)
(* that a new product or category gets. What is written to the menu        *)
(* otherwise, and the image files, are left out too.                       *)
(***************************************************************************)
EXTENDS Naturals, FiniteSets

CONSTANTS
    Chats,          \* admins' chats
    Handlers,       \* updates that may be handled at the same time
    NoChat,         \* chat of an idle handler
    Pressed,        \* the buttons that admins press; the others are left alone
    MaxDialogues,   \* bound on the number of dialogues
    MaxIds,         \* bound on the number of generated ids
    MaxFaults       \* bound on the number of faults

ASSUME BotAssumption ==
    /\ IsFiniteSet(Handlers)
    /\ NoChat \notin Chats
    /\ {MaxDialogues, MaxIds, MaxFaults} \subseteq Nat

VARIABLES
    session,    \* session[c]: the unexpired row session:<c> of bot_state
    handler,    \* handler[h]: the local variables of a running handleUpdate
    made,       \* products and categories added, each by its id and dialogue
    dialogues,  \* number of dialogues so far
    ids,        \* number of ids generated so far
    spent,      \* number of faults so far
    ended,      \* ended[d]: how dialogue d first lost its session
    after,      \* dialogues that wrote something after that
    overlapped  \* dialogues that two handlers dealt with at once

rowVars == <<session, made>>
historyVars == <<ended, after, overlapped>>
vars == <<session, handler, made, dialogues, ids, spent, ended, after, overlapped>>

-----------------------------------------------------------------------------
\* The steps in which a text is an answer and the next question follows.
NextStep ==
    [bulk_percent       |-> "bulk_confirm",
     new_category_label |-> "new_category_image",
     new_product_name   |-> "new_product_note",
     new_product_note   |-> "new_product_price",
     new_product_price  |-> "new_product_image"]

\* The steps in which a text is the only answer.
OneAnswer == {"edit_price", "discount_percent", "edit_table_count"}

\* The steps that add a row under the id in the session, with a photo or with
\* the words "without a photo".
Creating == {"new_product_image", "new_category_image"}

Replacing == {"edit_category_image", "edit_product_image"}

SiteImages == {"edit_site_logo", "edit_site_cover"}

waitingForPhoto == Creating \cup Replacing \cup SiteImages

\* The steps that a button of a menu opens.
Openings == {"bulk_percent", "new_product_name", "new_category_label", "edit_price",
             "discount_percent"} \cup Replacing \cup SiteImages

Steps == DOMAIN NextStep \cup OneAnswer \cup waitingForPhoto \cup {"bulk_confirm"}

\* How far a dialogue has got.
Progress(step) ==
    CASE step \in {"new_product_note", "bulk_confirm", "new_category_image"} -> 2
      [] step = "new_product_price" -> 3
      [] step = "new_product_image" -> 4
      [] OTHER -> 1

Dialogues == 1..MaxDialogues

\* dlg 0 and id 0 stand for none.
NoSession == [step |-> "none", dlg |-> 0, id |-> 0]

\* What arrives: a word or a key of the main keyboard that leaves the dialogue
\* (/start and the button "cancel" too), the key for the number of tables, a
\* text, a photo, the button "bulkconfirm", or a button that opens a dialogue.
Updates == {"leave", "tables", "text", "photo", "confirm"} \cup (Openings \cap Pressed)

\* Where handling of an update starts.
Start(u) ==
    CASE u \in {"leave", "tables"} -> "leave"
      [] u \in {"text", "photo", "confirm"} -> "read"
      [] OTHER -> "open"

Idle == [pc |-> "idle", chat |-> NoChat, update |-> "none", held |-> NoSession]

At(h, pc) == handler[h].pc = pc

Goto(h, pc) == handler' = [handler EXCEPT ![h].pc = pc]

End(h) == handler' = [handler EXCEPT ![h] = Idle]

\* The dialogue that h read from the session; the others that read d.
Held(h) == handler[h].held.dlg
Others(h, d) == {g \in Handlers \ {h} : d # 0 /\ Held(g) = d}

MarkOverlap(h, d) ==
    overlapped' = IF Others(h, d) = {} THEN overlapped ELSE overlapped \cup {d}

\* The dialogue in session[c] loses it at the hands of h.
Close(h, c, how) ==
    LET d == session[c].dlg
    IN  /\ ended' = [e \in Dialogues |->
                        IF e = d /\ ended[e] = "no" THEN how ELSE ended[e]]
        /\ MarkOverlap(h, d)

\* The dialogue of h writes to the session or to the menu.
Note(h) ==
    after' = IF \E e \in Dialogues : e = Held(h) /\ ended[e] # "no"
             THEN after \cup {Held(h)} ELSE after

Init ==
    /\ session = [c \in Chats |-> NoSession]
    /\ handler = [h \in Handlers |-> Idle]
    /\ made = {}
    /\ dialogues = 0 /\ ids = 0 /\ spent = 0
    /\ ended = [d \in Dialogues |-> "no"]
    /\ after = {} /\ overlapped = {}

-----------------------------------------------------------------------------
\* The webhook hands an update to handleUpdate; for a message, deleteMessageSafe
\* delays what comes next.
Receive(h, c, u) ==
    /\ At(h, "idle")
    /\ handler' = [handler EXCEPT ![h] = [Idle EXCEPT !.pc = Start(u), !.chat = c, !.update = u]]
    /\ UNCHANGED <<rowVars, dialogues, ids, spent, historyVars>>

\* Mutant of Leave: the menu is shown and the session stays.
LeaveForMenu(h) ==
    /\ At(h, "leave")
    /\ Close(h, handler[h].chat, "cancelled")
    /\ End(h)
    /\ UNCHANGED <<rowVars, dialogues, ids, spent, after>>

\* clearSession, and then a menu; the key for the tables goes on to ask.
Leave(h) ==
    LET c == handler[h].chat
    IN
    /\ At(h, "leave")
    /\ session' = [session EXCEPT ![c] = NoSession]
    /\ Close(h, c, "cancelled")
    /\ IF handler[h].update = "tables" THEN Goto(h, "open") ELSE End(h)
    /\ UNCHANGED <<made, dialogues, ids, spent, after>>

\* setSession with the first step of a dialogue, over whatever is there.
Open(h) ==
    LET c == handler[h].chat
        u == handler[h].update
        step == IF u = "tables" THEN "edit_table_count" ELSE u
    IN
    /\ At(h, "open")
    /\ dialogues < MaxDialogues
    /\ dialogues' = dialogues + 1
    /\ session' = [session EXCEPT ![c] = [step |-> step, dlg |-> dialogues + 1, id |-> 0]]
    /\ Close(h, c, "replaced")
    /\ End(h)
    /\ UNCHANGED <<made, ids, spent, after>>

\* What an update leads to in session s: the next question, a change of the
\* menu, the end of the dialogue, or nothing but a message ("idle").
Reactions(u, s) ==
    CASE u = "text" /\ s.step = "new_category_label" -> {"store"}
      [] u = "text" /\ s.step = "bulk_percent" -> {"store", "clear", "idle"}
      [] u = "text" /\ s.step \in DOMAIN NextStep -> {"store", "idle"}
      [] u = "text" /\ s.step \in OneAnswer \cup Creating -> {"apply", "idle"}
      [] u = "text" /\ s.step \in SiteImages \cup {"bulk_confirm"} -> {"clear"}
      [] u = "photo" /\ s.step \in waitingForPhoto -> {"download"}
      [] u = "confirm" /\ s.step = "bulk_confirm" -> {"apply"}
      [] OTHER -> {"idle"}

\* getSession, and the checks of handleTextStep, of handleUpdate for a photo and
\* of "bulkconfirm".
Read(h) ==
    LET s == session[handler[h].chat]
    IN
    /\ At(h, "read")
    /\ \E pc \in Reactions(handler[h].update, s) :
          IF pc = "idle" THEN End(h) /\ UNCHANGED overlapped
          ELSE /\ handler' = [handler EXCEPT ![h].pc = pc, ![h].held = s]
               /\ MarkOverlap(h, s.dlg)
    /\ UNCHANGED <<rowVars, dialogues, ids, spent, ended, after>>

\* downloadTelegramFile and the KV put: refused or failed, the admin is asked
\* again and the session stays.
Download(h) ==
    /\ At(h, "download")
    /\ Goto(h, "apply") \/ End(h)
    /\ UNCHANGED <<rowVars, dialogues, ids, spent, historyVars>>

Fresh(step) == step \in {"new_product_price", "new_category_label"}

\* Mutant of Stored: the old session is spread over the new step.
StoredOver(s, id) == [s EXCEPT !.id = id]

\* What follows s: the answer and perhaps an id are added.
Stored(s, id) == [step |-> NextStep[s.step], dlg |-> s.dlg, id |-> id]

\* setSession with the next step; newProductId and newCategoryId are called here.
Store(h) ==
    LET c == handler[h].chat
        s == handler[h].held
        id == IF Fresh(s.step) THEN ids + 1 ELSE s.id
    IN
    /\ At(h, "store")
    /\ Fresh(s.step) => ids < MaxIds
    /\ ids' = IF Fresh(s.step) THEN ids + 1 ELSE ids
    /\ session' = [session EXCEPT ![c] = Stored(s, id)]
    /\ IF session[c].dlg \in {0, s.dlg}
       THEN UNCHANGED <<ended, overlapped>>
       ELSE Close(h, c, "replaced")
    /\ Note(h)
    /\ End(h)
    /\ UNCHANGED <<made, dialogues, spent>>

\* Mutants of RowId: the id is made when the row is; a category's id is looked
\* for where a product's is.
RowIdAtInsert(h) == Cardinality(made) + 1
RowIdOfProduct(h) ==
    IF handler[h].held.step = "new_product_image" THEN handler[h].held.id ELSE 0

\* The id under which addProduct or addCategory inserts.
RowId(h) == handler[h].held.id

Taken(h) == \E r \in made : r.id = RowId(h)

\* The dialogue's change of the menu or of the settings.
Apply(h) ==
    /\ At(h, "apply")
    /\ IF handler[h].held.step \in Creating
       THEN /\ ~Taken(h)
            /\ made' = made \cup {[id |-> RowId(h), dlg |-> Held(h)]}
       ELSE UNCHANGED made
    /\ Note(h)
    /\ Goto(h, "clear")
    /\ UNCHANGED <<session, dialogues, ids, spent, ended, overlapped>>

\* It is refused: the id is taken, the category is gone, a price is out of
\* bounds or not the previewed one. Only "bulkconfirm" clears the session then.
Refuse(h) ==
    LET step == handler[h].held.step
    IN
    /\ At(h, "apply")
    /\ \/ step = "bulk_confirm" /\ Goto(h, "clear")
       \/ step \in {"edit_price", "new_product_image"} /\ End(h)
       \/ step = "new_category_image" /\ Taken(h) /\ End(h)
    /\ UNCHANGED <<rowVars, dialogues, ids, spent, historyVars>>

\* clearSession at the end of a dialogue: by chat, not by dialogue.
Clear(h) ==
    LET c == handler[h].chat
    IN
    /\ At(h, "clear")
    /\ session' = [session EXCEPT ![c] = NoSession]
    /\ Close(h, c, IF session[c].dlg = Held(h) THEN "finished" ELSE "lost")
    /\ End(h)
    /\ UNCHANGED <<made, dialogues, ids, spent, after>>

\* A query throws, after it has taken effect or before, or the invocation is
\* cancelled: handleUpdate is abandoned. A failed change under "bulkconfirm" is
\* caught instead, see Refuse.
Crash(h) ==
    /\ ~At(h, "idle")
    /\ spent < MaxFaults
    /\ spent' = spent + 1
    /\ End(h)
    /\ UNCHANGED <<rowVars, dialogues, ids, historyVars>>

\* Ten minutes after the last setSession.
Expire(c) ==
    /\ session[c] # NoSession
    /\ session' = [session EXCEPT ![c] = NoSession]
    /\ UNCHANGED <<handler, made, dialogues, ids, spent, historyVars>>

HandlerStep(h) ==
    \/ Leave(h) \/ Open(h) \/ Read(h) \/ Download(h) \/ Store(h)
    \/ Apply(h) \/ Refuse(h) \/ Clear(h) \/ Crash(h)

Next ==
    \/ \E h \in Handlers, c \in Chats, u \in Updates : Receive(h, c, u)
    \/ \E h \in Handlers : HandlerStep(h)
    \/ \E c \in Chats : Expire(c)

Spec == Init /\ [][Next]_vars

-----------------------------------------------------------------------------
(* Properties.                                                             *)

SessionType == [step : Steps \cup {"none"}, dlg : 0..MaxDialogues, id : 0..MaxIds]

\* The types of the variables.
TypeOK ==
    /\ session \in [Chats -> SessionType]
    /\ handler \in [Handlers ->
          [pc : {"idle", "leave", "open", "read", "store", "download", "apply", "clear"},
           chat : Chats \cup {NoChat}, update : Updates \cup {"none"}, held : SessionType]]
    /\ made \subseteq [id : 1..MaxIds, dlg : Dialogues]
    /\ dialogues \in 0..MaxDialogues
    /\ ids \in 0..MaxIds
    /\ spent \in 0..MaxFaults
    /\ ended \in [Dialogues -> {"no", "cancelled", "replaced", "finished", "lost"}]
    /\ after \subseteq Dialogues
    /\ overlapped \subseteq Dialogues

\* A dialogue adds one product or category, also when a handler dies between
\* the INSERT and clearSession and the admin answers again, or the session
\* expires meanwhile; only answers handled at once can make it two.
OneRowUnlessOverlapped ==
    \A r, s \in made : r.dlg = s.dlg /\ r # s => r.dlg \in overlapped

\* A dialogue that was left, replaced or completed is over: its session does not
\* come back and it changes nothing any more, unless a handler of it was at work
\* when it ended, or two were at work before.
EndedStaysEnded ==
    \A d \in Dialogues : ended[d] # "no" /\ d \notin overlapped =>
        d \notin after /\ \A c \in Chats : session[c].dlg # d

\* An answer that was taken brings the dialogue to a later question; it is never
\* thrown back to an earlier one, nor given a second id at the same one, unless
\* answers to it were handled at once.
ForwardOnly ==
    [][\A c \in Chats :
          LET s == session[c]
              t == session'[c]
          IN  s.dlg # 0 /\ t.dlg = s.dlg /\ t # s =>
                 Progress(t.step) > Progress(s.step) \/ s.dlg \in overlapped']_vars

\* The comment in handleUpdate: an admin can cancel at any stage, and any key of
\* the main keyboard deletes the session. So nothing comes of it afterwards.
CancelEnds ==
    \A d \in Dialogues : ended[d] = "cancelled" =>
        d \notin after /\ \A c \in Chats : session[c].dlg # d
=============================================================================
