-------------------------- MODULE ImageStoreProofs --------------------------
(***************************************************************************)
(* Proofs about ImageStore, for any rows, files, handlers and panels and   *)
(* any number of requests and faults: no row or setting refers to a file   *)
(* that has been deleted, unless a form put it there when it was lost or a *)
(* dialogue's photo when it was deleted, and whoever takes a file out of   *)
(* use goes on to delete it.                                               *)
(***************************************************************************)
EXTENDS ImageStore, TLAPS

-----------------------------------------------------------------------------
(* The records of TypeOK by name.                                          *)

HandlerType ==
    [pc : {"idle", "read", "write", "delete"},
     kind : {"none", "replace", "add", "remove", "drop", "save", "create"},
     slot : Slots \cup {None}, new : Files \cup {None}, old : Files \cup {None},
     panel : Panels \cup {None}]

FormType ==
    [pc : {"closed", "editing", "waiting"},
     slot : Rows \cup {None, NewRow}, image : Files \cup {None}]

CleanerType == [pc : {"idle", "reading", "deleting"}, used : SUBSET Files, doomed : SUBSET Files]

DeleteOK(h) == At(h, "delete") => handler[h].old \in Files \ {handler[h].new}

-----------------------------------------------------------------------------
(* The inductive invariant.                                                *)

\* Which local variables a kind of request sets: the bot's uploads are never a
\* panel's, and the panel's files never the handler's own.
HandlerOK(h) ==
    LET H == handler[h]
    IN  /\ H.pc = "idle" => H = Idle
        /\ H.pc = "read" => H.old = None
        /\ H.kind \in {"replace", "add"} => H.panel = None
        /\ H.kind = "replace" => H.new \in Timed
        /\ H.kind \in {"save", "create"} => H.panel # None
        /\ H.kind \in {"remove", "drop"} => H.new = None
        /\ H.kind \in {"add", "create", "drop"} => H.slot \in Rows

HandlersOK == \A h \in Handlers : HandlerOK(h)

RowsExist == \A s \in Slots : image[s] # None => Present(s)

\* Whatever names a file names one that has been stored, so that a new upload is
\* known to nobody.
KnownFiles ==
    /\ \A s \in Slots : image[s] \in Files => kv[image[s]] # "none"
    /\ \A h \in Handlers : handler[h].new \in Files => kv[handler[h].new] # "none"
    /\ \A h \in Handlers : handler[h].old \in Files => kv[handler[h].old] # "none"
    /\ \A p \in Panels : form[p].image \in Files => kv[form[p].image] # "none"
    /\ \A p \in Panels : upload[p] \in Files => kv[upload[p]] # "none"
    /\ \A f \in cleaner.doomed : kv[f] # "none"

\* File f is stored, and only handler h knows of it.
Private(h, f) ==
    /\ kv[f] = "fresh"
    /\ \A s \in Slots : image[s] # f
    /\ \A g \in Handlers : handler[g].old # f
    /\ \A g \in Handlers : handler[g].new = f => g = h
    /\ \A p \in Panels : form[p].image # f /\ upload[p] # f
    /\ f \notin cleaner.doomed

\* A file under a timed name is its uploader's alone. The photos of a dialogue
\* share theirs.
HeldFilesPrivate ==
    \A h \in Handlers : Holding(h) /\ handler[h].new \in Timed => Private(h, handler[h].new)

\* The name <id>.<ext> turns up with row <id> only.
OwnPlace(r, f) ==
    /\ \A s \in Slots : image[s] = f => s = r
    /\ \A g \in Handlers : f \in {handler[g].new, handler[g].old} => handler[g].slot = r
    /\ \A p \in Panels : form[p].image = f => form[p].slot = r
    /\ \A p \in Panels : upload[p] # f

OwnPlaces == \A r \in Drafts : \A f \in OwnNames[r] : OwnPlace(r, f)

\* The clean-up leaves file f alone.
NotDue(f) == kv[f] # "old" /\ f \notin cleaner.doomed

\* It leaves alone the files that a handler or a dialogue has yet to put to use.
PhotosNotDue ==
    /\ \A h \in Handlers : Holding(h) /\ handler[h].new \in Files => NotDue(handler[h].new)
    /\ \A r \in drafts : \A f \in OwnNames[r] : NotDue(f)

\* File f is stored, s alone refers to it, and nobody is about to delete it but a
\* handler of s that has yet to write s.
Secure(s, f) ==
    /\ Stored(f)
    /\ \A t \in Slots : image[t] = f => t = s
    /\ \A g \in Handlers : handler[g].old = f => handler[g].pc # "delete" /\ handler[g].slot = s
    /\ f \notin cleaner.doomed
    /\ cleaner.pc = "reading" /\ kv[f] = "old" => f \in cleaner.used

ImagesSecure == \A s \in Slots : image[s] \in Files \ condemned => Secure(s, image[s])

IInv ==
    /\ TypeOK /\ HandlersOK /\ RowsExist /\ KnownFiles
    /\ OwnPlaces /\ PhotosNotDue
    /\ HeldFilesPrivate /\ ImagesSecure

-----------------------------------------------------------------------------
(* What steps do to forms and to handlers.                                 *)

FormsStay ==
    /\ form' \in [Panels -> FormType]
    /\ \A p \in Panels : \/ form'[p].image = None
                         \/ form'[p].image = form[p].image /\ form'[p].slot = form[p].slot

\* All handlers but h stay as they are.
OnlyMoves(h) ==
    /\ handler' \in [Handlers -> HandlerType]
    /\ \A g \in Handlers \ {h} : handler'[g] = handler[g]

\* Answering or reopening a form puts no image into it that was not there.
LEMMA ReopenKeepsImages ==
    ASSUME TypeOK, NEW h \in Handlers, Reopen(h)
    PROVE  FormsStay
BY DEF TypeOK, Reopen, FormsStay, FormType

LEMMA AnswerKeepsImages ==
    ASSUME TypeOK, NEW h \in Handlers, Answer(h)
    PROVE  FormsStay /\ faults' \in 0..MaxFaults
<1>1. faults' \in 0..MaxFaults
  BY ImageAssumption DEF Answer, TypeOK
<1>2. FormsStay
  <2>1. ASSUME form' = [p \in Panels |-> IF handler[h].panel = p THEN Closed ELSE form[p]]
        PROVE  FormsStay
    BY <2>1 DEF TypeOK, FormsStay, FormType, Closed
  <2>2. ASSUME Reopen(h) PROVE FormsStay
    BY <2>2, ReopenKeepsImages
  <2> QED BY <2>1, <2>2 DEF Answer
<1> QED BY <1>1, <1>2

-----------------------------------------------------------------------------
\* How the steps of a handler leave its local variables.
LEMMA IdleType == Idle \in HandlerType
BY DEF Idle, HandlerType

LEMMA ProceedSteps ==
    ASSUME TypeOK, NEW h \in Handlers, Proceed(h)
    PROVE  /\ \/ /\ handler[h].old \in {None, handler[h].new}
                 /\ handler' = [handler EXCEPT ![h] = Idle]
              \/ /\ handler[h].old \in Files \ {handler[h].new}
                 /\ handler' = [handler EXCEPT ![h].pc = "delete"]
           /\ FormsStay
           /\ faults' \in 0..MaxFaults
<1>1. CASE handler[h].old \in {None, handler[h].new}
  BY <1>1, AnswerKeepsImages DEF Proceed, End
<1>2. CASE handler[h].old \notin {None, handler[h].new}
  BY <1>2 DEF Proceed, Goto, TypeOK, FormsStay, FormType
<1> QED BY <1>1, <1>2

LEMMA CurrentTyped ==
    ASSUME TypeOK, NEW s \in Slots
    PROVE  Current(s) \in Files \cup {None}
BY DEF TypeOK, Current

LEMMA BeginMoves ==
    ASSUME TypeOK, NEW h \in Handlers, NEW pc \in {"read", "write"},
           NEW kind \in {"replace", "add", "remove", "drop", "save", "create"},
           NEW s \in Slots, NEW new \in Files \cup {None}, NEW old \in Files \cup {None},
           NEW p \in Panels \cup {None}, Begin(h, pc, kind, s, new, old, p)
    PROVE  /\ OnlyMoves(h)
           /\ handler'[h] = [pc |-> pc, kind |-> kind, slot |-> s, new |-> new, old |-> old, panel |-> p]
           /\ requests' \in 0..MaxRequests
<1>1. [pc |-> pc, kind |-> kind, slot |-> s, new |-> new, old |-> old, panel |-> p] \in HandlerType
  BY DEF HandlerType
<1>2. handler \in [Handlers -> HandlerType]
  BY DEF TypeOK, HandlerType
<1>3. requests' \in 0..MaxRequests
  BY ImageAssumption DEF Begin, TypeOK
<1> QED BY <1>1, <1>2, <1>3 DEF Begin, OnlyMoves

LEMMA EndMoves ==
    ASSUME TypeOK, NEW h \in Handlers, End(h)
    PROVE  OnlyMoves(h) /\ handler'[h] = Idle
<1>1. handler \in [Handlers -> HandlerType]
  BY DEF TypeOK, HandlerType
<1> QED BY <1>1, IdleType DEF End, OnlyMoves

LEMMA GotoMoves ==
    ASSUME TypeOK, NEW h \in Handlers, NEW pc \in {"write", "delete"}, Goto(h, pc)
    PROVE  /\ OnlyMoves(h)
           /\ handler'[h] = [pc |-> pc, kind |-> handler[h].kind, slot |-> handler[h].slot,
                             new |-> handler[h].new, old |-> handler[h].old, panel |-> handler[h].panel]
<1>1. handler \in [Handlers -> HandlerType]
  BY DEF TypeOK, HandlerType
<1> QED BY <1>1 DEF Goto, OnlyMoves, HandlerType

LEMMA ReadMoves ==
    ASSUME TypeOK, NEW h \in Handlers, Read(h)
    PROVE  /\ OnlyMoves(h)
           /\ \/ handler'[h] = Idle /\ FormsStay
              \/ /\ handler'[h] = [pc |-> "write", kind |-> handler[h].kind, slot |-> handler[h].slot,
                                new |-> handler[h].new, old |-> Current(handler[h].slot),
                                panel |-> handler[h].panel]
                 /\ UNCHANGED form
<1>1. handler \in [Handlers -> HandlerType]
  BY DEF TypeOK, HandlerType
<1>2. CASE End(h) /\ Reopen(h)
  BY <1>2, EndMoves, ReopenKeepsImages
<1>3. CASE /\ handler' = [handler EXCEPT ![h].pc = "write", ![h].old = Current(handler[h].slot)]
           /\ UNCHANGED form
  <2>1. Current(handler[h].slot) \in Files \cup {None}
    BY <1>1, ImageAssumption DEF TypeOK, Current, Present, Slots, HandlerType
  <2> HIDE DEF Current
  <2> QED BY <1>1, <1>3, <2>1 DEF OnlyMoves, HandlerType
<1>4. \/ End(h) /\ Reopen(h)
      \/ /\ handler' = [handler EXCEPT ![h].pc = "write", ![h].old = Current(handler[h].slot)]
         /\ UNCHANGED form
  BY DEF Read
<1> QED BY <1>2, <1>3, <1>4

-----------------------------------------------------------------------------
\* Types: what a step of a handler, and one of anybody else, must respect.
LEMMA MovesKeepType ==
    ASSUME TypeOK, NEW h \in Handlers, OnlyMoves(h), DeleteOK(h)',
           kv' \in [Files -> {"none", "fresh", "old", "gone"}],
           exists' \subseteq Rows, drafts' \subseteq Drafts,
           image' \in [Slots -> Files \cup {None}],
           form' \in [Panels -> FormType],
           upload' \in [Panels -> Files \cup {None}],
           cleaner' \in CleanerType,
           requests' \in 0..MaxRequests,
           faults' \in 0..MaxFaults,
           condemned' \subseteq Files
    PROVE  TypeOK'
<1>1. \A g \in Handlers : DeleteOK(g)'
  BY DEF TypeOK, DeleteOK, OnlyMoves, At
<1> QED BY <1>1 DEF TypeOK, OnlyMoves, DeleteOK, HandlerType, FormType, CleanerType, At

LEMMA RestKeepsType ==
    ASSUME TypeOK, UNCHANGED handler,
           kv' \in [Files -> {"none", "fresh", "old", "gone"}],
           exists' \subseteq Rows, drafts' \subseteq Drafts,
           image' \in [Slots -> Files \cup {None}],
           form' \in [Panels -> FormType],
           upload' \in [Panels -> Files \cup {None}],
           cleaner' \in CleanerType,
           requests' \in 0..MaxRequests,
           faults' \in 0..MaxFaults,
           condemned' \subseteq Files
    PROVE  TypeOK'
  BY DEF TypeOK, HandlerType, FormType, CleanerType, At

LEMMA InitType == Init => TypeOK
<1> SUFFICES ASSUME Init PROVE TypeOK
  OBVIOUS
<1>1. Idle \in HandlerType /\ Closed \in FormType /\ Asleep \in CleanerType
  BY DEF Idle, Closed, Asleep, HandlerType, FormType, CleanerType
<1>2. 0 \in 0..MaxRequests /\ 0 \in 0..MaxFaults
  BY ImageAssumption
<1>3. /\ kv \in [Files -> {"none", "fresh", "old", "gone"}]
      /\ exists \subseteq Rows
      /\ image \in [Slots -> Files \cup {None}]
      /\ drafts \subseteq Drafts
      /\ upload \in [Panels -> Files \cup {None}]
      /\ requests \in 0..MaxRequests
      /\ faults \in 0..MaxFaults
      /\ condemned \subseteq Files
  BY <1>2 DEF Init
<1>4. handler \in [Handlers -> HandlerType] /\ form \in [Panels -> FormType] /\ cleaner \in CleanerType
  BY <1>1 DEF Init
<1>5. \A h \in Handlers : ~At(h, "delete")
  BY DEF Init, Idle, At
<1> QED BY <1>3, <1>4, <1>5 DEF TypeOK, HandlerType, FormType, CleanerType

LEMMA Typed ==
    ASSUME TypeOK
    PROVE  /\ kv \in [Files -> {"none", "fresh", "old", "gone"}]
           /\ handler \in [Handlers -> HandlerType]
           /\ form \in [Panels -> FormType]
           /\ cleaner \in CleanerType
BY DEF TypeOK, HandlerType, FormType, CleanerType

LEMMA ProceedMoves ==
    ASSUME TypeOK, NEW h \in Handlers, Proceed(h)
    PROVE  /\ OnlyMoves(h)
           /\ DeleteOK(h)'
           /\ FormsStay
           /\ faults' \in 0..MaxFaults
           /\ \/ /\ handler[h].old \in {None, handler[h].new}
                 /\ handler'[h] = Idle
              \/ /\ handler[h].old \in Files \ {handler[h].new}
                 /\ handler'[h] = [pc |-> "delete", kind |-> handler[h].kind, slot |-> handler[h].slot,
                             new |-> handler[h].new, old |-> handler[h].old, panel |-> handler[h].panel]
<1>1. CASE /\ handler[h].old \in {None, handler[h].new}
           /\ handler' = [handler EXCEPT ![h] = Idle]
  <2>1. OnlyMoves(h) /\ handler'[h] = Idle
    BY <1>1, EndMoves DEF End
  <2>2. DeleteOK(h)'
    BY <2>1 DEF DeleteOK, At, Idle
  <2> QED BY <1>1, <2>1, <2>2, ProceedSteps
<1>2. CASE /\ handler[h].old \in Files \ {handler[h].new}
           /\ handler' = [handler EXCEPT ![h].pc = "delete"]
  <2>1. /\ OnlyMoves(h)
        /\ handler'[h] = [pc |-> "delete", kind |-> handler[h].kind, slot |-> handler[h].slot,
                             new |-> handler[h].new, old |-> handler[h].old, panel |-> handler[h].panel]
    BY <1>2, GotoMoves DEF Goto
  <2>2. DeleteOK(h)'
    BY <1>2, <2>1 DEF DeleteOK, At
  <2> QED BY <1>2, <2>1, <2>2, ProceedSteps
<1> QED BY <1>1, <1>2, ProceedSteps

LEMMA CondemnTyped ==
    ASSUME TypeOK, NEW h \in Handlers, Condemn(h)
    PROVE  condemned' \subseteq Files /\ condemned \subseteq condemned'
BY DEF Condemn, TypeOK

-----------------------------------------------------------------------------
\* What the actions that begin or end a handler do, one lemma each.
LEMMA ReplaceDoes ==
    ASSUME TypeOK, NEW h \in Handlers, NEW s \in Slots, NEW f \in Files, Replace(h, s, f)
    PROVE  /\ OnlyMoves(h)
           /\ handler'[h] = [pc |-> "read", kind |-> "replace", slot |-> s, new |-> f, old |-> None, panel |-> None]
           /\ handler[h].pc = "idle"
           /\ requests' \in 0..MaxRequests
           /\ f \in Timed /\ kv[f] = "none" /\ kv' = [kv EXCEPT ![f] = "fresh"]
           /\ UNCHANGED <<exists, image, drafts, form, upload, cleaner, faults, condemned>>
<1>1. Begin(h, "read", "replace", s, f, None, None)
  BY DEF Replace
<1>2. /\ "read" \in {"read", "write"}
      /\ "replace" \in {"replace", "add", "remove", "drop", "save", "create"}
      /\ s \in Slots /\ f \in Files \cup {None} /\ None \in Files \cup {None}
      /\ None \in Panels \cup {None}
  BY CurrentTyped DEF Slots, TypeOK
<1>3. handler[h].pc = "idle"
  BY <1>1 DEF Begin, At
<1> QED BY <1>1, <1>2, <1>3, BeginMoves DEF Replace, PutTimed, Put

\* How an upload leaves the store: a timed name is a new one, the name of draft r
\* may have been put before.
Stores(r, f) ==
    \/ f \in Timed /\ kv[f] = "none" /\ kv' = [kv EXCEPT ![f] = "fresh"]
    \/ f \in OwnNames[r] /\ r \in drafts /\ kv' = [kv EXCEPT ![f] = "fresh"]

LEMMA AddDoes ==
    ASSUME TypeOK, NEW h \in Handlers, NEW r \in Drafts, NEW f \in Files \cup {None}, Add(h, r, f)
    PROVE  /\ OnlyMoves(h)
           /\ handler'[h] = [pc |-> "write", kind |-> "add", slot |-> r, new |-> f, old |-> None, panel |-> None]
           /\ handler[h].pc = "idle"
           /\ requests' \in 0..MaxRequests
           /\ (f \in Files /\ Stores(r, f)) \/ (f = None /\ kv' = kv)
           /\ UNCHANGED <<exists, image, drafts, form, upload, cleaner, faults, condemned>>
<1>1. Begin(h, "write", "add", r, f, None, None)
  BY DEF Add
<1>2. /\ "write" \in {"read", "write"}
      /\ "add" \in {"replace", "add", "remove", "drop", "save", "create"}
      /\ r \in Slots /\ None \in Files \cup {None}
      /\ None \in Panels \cup {None}
  BY ImageAssumption DEF Slots
<1>3. handler[h].pc = "idle"
  BY <1>1 DEF Begin, At
<1>4. (f \in Files /\ Stores(r, f)) \/ (f = None /\ kv' = kv)
  BY ImageAssumption DEF Add, PutTimed, Put, Stores, Timed
<1> QED BY <1>1, <1>2, <1>3, <1>4, BeginMoves DEF Add

LEMMA RemoveDoes ==
    ASSUME TypeOK, NEW h \in Handlers, NEW s \in Slots, Remove(h, s)
    PROVE  /\ OnlyMoves(h)
           /\ handler'[h] = [pc |-> "write", kind |-> "remove", slot |-> s, new |-> None, old |-> Current(s), panel |-> None]
           /\ handler[h].pc = "idle"
           /\ requests' \in 0..MaxRequests
           /\ UNCHANGED <<kv, exists, image, drafts, form, upload, cleaner, faults, condemned>>
<1>1. Begin(h, "write", "remove", s, None, Current(s), None)
  BY DEF Remove
<1>2. /\ "write" \in {"read", "write"}
      /\ "remove" \in {"replace", "add", "remove", "drop", "save", "create"}
      /\ s \in Slots /\ None \in Files \cup {None} /\ Current(s) \in Files \cup {None}
      /\ None \in Panels \cup {None}
  BY CurrentTyped DEF Slots, TypeOK
<1>3. handler[h].pc = "idle"
  BY <1>1 DEF Begin, At
<1> QED BY <1>1, <1>2, <1>3, BeginMoves DEF Remove, storeVars

LEMMA DropDoes ==
    ASSUME TypeOK, NEW h \in Handlers, NEW r \in Rows, Drop(h, r)
    PROVE  /\ OnlyMoves(h)
           /\ handler'[h] = [pc |-> "write", kind |-> "drop", slot |-> r, new |-> None, old |-> Current(r), panel |-> None]
           /\ handler[h].pc = "idle"
           /\ requests' \in 0..MaxRequests
           /\ UNCHANGED <<kv, exists, image, drafts, form, upload, cleaner, faults, condemned>>
<1>1. Begin(h, "write", "drop", r, None, Current(r), None)
  BY DEF Drop
<1>2. /\ "write" \in {"read", "write"}
      /\ "drop" \in {"replace", "add", "remove", "drop", "save", "create"}
      /\ r \in Slots /\ None \in Files \cup {None} /\ Current(r) \in Files \cup {None}
      /\ None \in Panels \cup {None}
  BY CurrentTyped DEF Slots, TypeOK
<1>3. handler[h].pc = "idle"
  BY <1>1 DEF Begin, At
<1> QED BY <1>1, <1>2, <1>3, BeginMoves DEF Drop, storeVars

LEMMA SaveFormDoes ==
    ASSUME TypeOK, NEW h \in Handlers, NEW p \in Panels, NEW r \in Rows, SaveForm(h, p, r)
    PROVE  /\ OnlyMoves(h)
           /\ \/ handler'[h] = [pc |-> "write", kind |-> "create", slot |-> r, new |-> form[p].image, old |-> None, panel |-> p]
              \/ handler'[h] = [pc |-> "read", kind |-> "save", slot |-> r, new |-> form[p].image, old |-> None, panel |-> p]
           /\ handler[h].pc = "idle"
           /\ requests' \in 0..MaxRequests
           /\ form' = [form EXCEPT ![p].pc = "waiting"]
           /\ UNCHANGED <<kv, exists, image, drafts, upload, cleaner, faults, condemned>>
<1>1. \/ Begin(h, "write", "create", r, form[p].image, None, p)
      \/ Begin(h, "read", "save", r, form[p].image, None, p)
  BY DEF SaveForm
<1>2. /\ "read" \in {"read", "write"} /\ "write" \in {"read", "write"}
      /\ "create" \in {"replace", "add", "remove", "drop", "save", "create"}
      /\ "save" \in {"replace", "add", "remove", "drop", "save", "create"}
      /\ r \in Slots /\ form[p].image \in Files \cup {None}
      /\ None \in Files \cup {None} /\ p \in Panels \cup {None}
  BY DEF Slots, TypeOK
<1>3. handler[h].pc = "idle"
  BY <1>1 DEF Begin, At
<1>4. CASE Begin(h, "write", "create", r, form[p].image, None, p)
  BY <1>2, <1>3, <1>4, BeginMoves DEF SaveForm, storeVars
<1>5. CASE Begin(h, "read", "save", r, form[p].image, None, p)
  BY <1>2, <1>3, <1>5, BeginMoves DEF SaveForm, storeVars
<1> QED BY <1>1, <1>4, <1>5

LEMMA Ends ==
    ASSUME TypeOK, NEW h \in Handlers, DeleteOld(h) \/ Fail(h) \/ InsertRefused(h)
    PROVE  OnlyMoves(h) /\ handler'[h] = Idle /\ FormsStay /\ faults' \in 0..MaxFaults
<1>1. CASE DeleteOld(h)
  BY <1>1, EndMoves, AnswerKeepsImages DEF DeleteOld
<1>2. CASE Fail(h)
  <2>1. faults' \in 0..MaxFaults
    BY <1>2, ImageAssumption DEF Fail, TypeOK
  <2> QED BY <1>2, <2>1, EndMoves, ReopenKeepsImages DEF Fail
<1>3. CASE InsertRefused(h)
  BY <1>3, EndMoves, ReopenKeepsImages DEF InsertRefused, TypeOK
<1> QED BY <1>1, <1>2, <1>3

-----------------------------------------------------------------------------
\* Type correctness.
LEMMA HandlerStepType ==
    ASSUME TypeOK, NEW h \in Handlers, HandlerOK(h), HandlerNext(h)
    PROVE  TypeOK' /\ OnlyMoves(h) /\ HandlerOK(h)'
<1> USE Typed
<1>1. ASSUME NEW s \in Slots, NEW f \in Files, Replace(h, s, f) PROVE TypeOK' /\ OnlyMoves(h) /\ HandlerOK(h)'
  <2>0. /\ OnlyMoves(h)
        /\ handler'[h] = [pc |-> "read", kind |-> "replace", slot |-> s, new |-> f, old |-> None, panel |-> None]
        /\ handler[h].pc = "idle"
        /\ requests' \in 0..MaxRequests
        /\ f \in Timed /\ kv' = [kv EXCEPT ![f] = "fresh"]
        /\ UNCHANGED <<exists, image, drafts, form, upload, cleaner, faults, condemned>>
    BY <1>1, ReplaceDoes
  <2>1. DeleteOK(h)' /\ HandlerOK(h)'
    BY <2>0, ImageAssumption DEF DeleteOK, HandlerOK, At, Idle
  <2>2. kv' \in [Files -> {"none", "fresh", "old", "gone"}]
    BY <2>0 DEF TypeOK
  <2> QED BY <2>0, <2>1, <2>2, MovesKeepType DEF TypeOK
<1>2. ASSUME NEW r \in Drafts, NEW f \in Files \cup {None}, Add(h, r, f) PROVE TypeOK' /\ OnlyMoves(h) /\ HandlerOK(h)'
  <2>0. /\ OnlyMoves(h)
        /\ handler'[h] = [pc |-> "write", kind |-> "add", slot |-> r, new |-> f, old |-> None, panel |-> None]
        /\ handler[h].pc = "idle"
        /\ requests' \in 0..MaxRequests
        /\ (f \in Files /\ Stores(r, f)) \/ (f = None /\ kv' = kv)
        /\ UNCHANGED <<exists, image, drafts, form, upload, cleaner, faults, condemned>>
    BY <1>2, AddDoes
  <2>1. DeleteOK(h)' /\ HandlerOK(h)'
    BY <2>0, ImageAssumption DEF DeleteOK, HandlerOK, At, Idle
  <2>2. kv' \in [Files -> {"none", "fresh", "old", "gone"}]
    BY <2>0 DEF TypeOK, Stores
  <2> QED BY <2>0, <2>1, <2>2, MovesKeepType DEF TypeOK
<1>3. ASSUME NEW s \in Slots, Remove(h, s) PROVE TypeOK' /\ OnlyMoves(h) /\ HandlerOK(h)'
  <2>0. /\ OnlyMoves(h)
        /\ handler'[h] = [pc |-> "write", kind |-> "remove", slot |-> s, new |-> None, old |-> Current(s), panel |-> None]
        /\ handler[h].pc = "idle"
        /\ requests' \in 0..MaxRequests
        /\ UNCHANGED <<kv, exists, image, drafts, form, upload, cleaner, faults, condemned>>
    BY <1>3, RemoveDoes
  <2>1. DeleteOK(h)' /\ HandlerOK(h)'
    BY <2>0, ImageAssumption DEF DeleteOK, HandlerOK, At, Idle
  <2> QED BY <2>0, <2>1, MovesKeepType DEF TypeOK
<1>4. ASSUME NEW r \in Rows, Drop(h, r) PROVE TypeOK' /\ OnlyMoves(h) /\ HandlerOK(h)'
  <2>0. /\ OnlyMoves(h)
        /\ handler'[h] = [pc |-> "write", kind |-> "drop", slot |-> r, new |-> None, old |-> Current(r), panel |-> None]
        /\ handler[h].pc = "idle"
        /\ requests' \in 0..MaxRequests
        /\ UNCHANGED <<kv, exists, image, drafts, form, upload, cleaner, faults, condemned>>
    BY <1>4, DropDoes
  <2>1. DeleteOK(h)' /\ HandlerOK(h)'
    BY <2>0, ImageAssumption DEF DeleteOK, HandlerOK, At, Idle
  <2> QED BY <2>0, <2>1, MovesKeepType DEF TypeOK
<1>5. ASSUME NEW p \in Panels, NEW r \in Rows, SaveForm(h, p, r) PROVE TypeOK' /\ OnlyMoves(h) /\ HandlerOK(h)'
  <2>0. /\ OnlyMoves(h)
        /\ \/ handler'[h] = [pc |-> "write", kind |-> "create", slot |-> r, new |-> form[p].image, old |-> None, panel |-> p]
           \/ handler'[h] = [pc |-> "read", kind |-> "save", slot |-> r, new |-> form[p].image, old |-> None, panel |-> p]
        /\ handler[h].pc = "idle"
        /\ requests' \in 0..MaxRequests
        /\ form' = [form EXCEPT ![p].pc = "waiting"]
        /\ UNCHANGED <<kv, exists, image, drafts, upload, cleaner, faults, condemned>>
    BY <1>5, SaveFormDoes
  <2>1. DeleteOK(h)' /\ HandlerOK(h)'
    BY <2>0, ImageAssumption DEF DeleteOK, HandlerOK, At, Idle
  <2>2. form' \in [Panels -> FormType]
    BY <2>0 DEF FormType
  <2> QED BY <2>0, <2>1, <2>2, MovesKeepType DEF TypeOK
<1>6. ASSUME Read(h) PROVE TypeOK' /\ OnlyMoves(h) /\ HandlerOK(h)'
  <2>1. OnlyMoves(h) /\ form' \in [Panels -> FormType]
    BY <1>6, ReadMoves DEF FormsStay
  <2>3. \/ handler'[h] = Idle
        \/ handler'[h] = [pc |-> "write", kind |-> handler[h].kind, slot |-> handler[h].slot,
                          new |-> handler[h].new, old |-> Current(handler[h].slot),
                          panel |-> handler[h].panel]
    BY <1>6, ReadMoves
  <2>2. DeleteOK(h)' /\ HandlerOK(h)'
    BY <2>3 DEF DeleteOK, HandlerOK, At, Idle
  <2> QED BY <1>6, <2>1, <2>2, MovesKeepType DEF Read, TypeOK, storeVars
<1>7. ASSUME Proceed(h), handler[h].pc = "write" PROVE OnlyMoves(h) /\ DeleteOK(h)' /\ HandlerOK(h)'
  <2>1. OnlyMoves(h) /\ DeleteOK(h)'
    BY <1>7, ProceedMoves
  <2>2. \/ handler'[h] = Idle
        \/ handler'[h] = [pc |-> "delete", kind |-> handler[h].kind, slot |-> handler[h].slot,
                          new |-> handler[h].new, old |-> handler[h].old, panel |-> handler[h].panel]
    BY <1>7, ProceedMoves
  <2>3. HandlerOK(h)'
    BY <2>2 DEF HandlerOK, Idle
  <2> QED BY <2>1, <2>3
<1>8. ASSUME Write(h) PROVE TypeOK' /\ OnlyMoves(h) /\ HandlerOK(h)'
  <2>1. image' \in [Slots -> Files \cup {None}]
    BY <1>8 DEF Write, TypeOK
  <2>2. condemned' \subseteq Files
    BY <1>8, CondemnTyped DEF Write, TypeOK
  <2>3. Proceed(h) /\ handler[h].pc = "write"
    BY <1>8 DEF Write, At
  <2>4. FormsStay /\ faults' \in 0..MaxFaults
    BY <2>3, ProceedMoves
  <2> QED BY <1>7, <1>8, <2>1, <2>2, <2>3, <2>4, MovesKeepType DEF Write, TypeOK, FormsStay
<1>9. ASSUME Insert(h) PROVE TypeOK' /\ OnlyMoves(h) /\ HandlerOK(h)'
  <2>0. handler[h].slot \in Rows
    BY <1>9, ImageAssumption DEF Insert, HandlerOK
  <2>1. image' \in [Slots -> Files \cup {None}] /\ exists' \subseteq Rows
    BY <1>9, <2>0 DEF Insert, TypeOK
  <2>2. condemned' \subseteq Files
    BY <1>9, CondemnTyped DEF Insert, TypeOK
  <2>3. Proceed(h) /\ handler[h].pc = "write"
    BY <1>9 DEF Insert, At
  <2>4. FormsStay /\ faults' \in 0..MaxFaults
    BY <2>3, ProceedMoves
  <2> QED BY <1>7, <1>9, <2>1, <2>2, <2>3, <2>4, MovesKeepType DEF Insert, TypeOK, FormsStay
<1>10. ASSUME DeleteRow(h) PROVE TypeOK' /\ OnlyMoves(h) /\ HandlerOK(h)'
  <2>1. image' \in [Slots -> Files \cup {None}] /\ exists' \subseteq Rows
    BY <1>10 DEF DeleteRow, TypeOK
  <2>3. Proceed(h) /\ handler[h].pc = "write"
    BY <1>10 DEF DeleteRow, At
  <2>4. FormsStay /\ faults' \in 0..MaxFaults
    BY <2>3, ProceedMoves
  <2> QED BY <1>7, <1>10, <2>1, <2>3, <2>4, MovesKeepType DEF DeleteRow, TypeOK, FormsStay
<1>11. ASSUME DeleteOld(h) \/ Fail(h) \/ InsertRefused(h) PROVE TypeOK' /\ OnlyMoves(h) /\ HandlerOK(h)'
  <2>1. kv' \in [Files -> {"none", "fresh", "old", "gone"}]
    BY <1>11 DEF DeleteOld, Fail, InsertRefused, TypeOK, storeVars
  <2>2. OnlyMoves(h) /\ handler'[h] = Idle /\ FormsStay /\ faults' \in 0..MaxFaults
    BY <1>11, Ends
  <2>3. DeleteOK(h)' /\ HandlerOK(h)'
    BY <2>2, ImageAssumption DEF DeleteOK, HandlerOK, At, Idle
  <2>4. /\ exists' \subseteq Rows /\ drafts' \subseteq Drafts /\ image' \in [Slots -> Files \cup {None}]
        /\ upload' \in [Panels -> Files \cup {None}] /\ cleaner' \in CleanerType
        /\ requests' \in 0..MaxRequests /\ condemned' \subseteq Files
    BY <1>11 DEF DeleteOld, Fail, InsertRefused, TypeOK, storeVars
  <2> QED BY <2>1, <2>2, <2>3, <2>4, MovesKeepType DEF FormsStay
<1> QED BY <1>1, <1>2, <1>3, <1>4, <1>5, <1>6, <1>8, <1>9, <1>10, <1>11 DEF HandlerNext

LEMMA PanelStepType ==
    ASSUME TypeOK, NEW p \in Panels, PanelNext(p)
    PROVE  TypeOK' /\ UNCHANGED handler
<1> USE Typed
<1>1. ASSUME NEW s \in Rows \cup {NewRow}, OpenForm(p, s) PROVE TypeOK' /\ UNCHANGED handler
  <2>1. [pc |-> "editing", slot |-> s, image |-> IF s = NewRow THEN None ELSE image[s]] \in FormType
    BY <1>1 DEF TypeOK, FormType, Slots
  <2>2. form' \in [Panels -> FormType]
    BY <1>1, <2>1 DEF OpenForm
  <2> QED BY <1>1, <2>2, RestKeepsType DEF OpenForm, TypeOK, storeVars
<1>2. ASSUME NEW f \in Files, Upload(p, f) PROVE TypeOK' /\ UNCHANGED handler
  <2>1. upload' \in [Panels -> Files \cup {None}]
    BY <1>2 DEF Upload, TypeOK
  <2>2. kv' \in [Files -> {"none", "fresh", "old", "gone"}]
    BY <1>2 DEF Upload, PutTimed, Put, TypeOK
  <2> QED BY <1>2, <2>1, <2>2, RestKeepsType DEF Upload, TypeOK
<1>3. ASSUME CloseForm(p) PROVE TypeOK' /\ UNCHANGED handler
  <2>1. form' \in [Panels -> FormType]
    BY <1>3 DEF CloseForm, Closed, FormType
  <2> QED BY <1>3, <2>1, RestKeepsType DEF CloseForm, TypeOK, storeVars
<1>4. ASSUME ClearImage(p) PROVE TypeOK' /\ UNCHANGED handler
  <2>1. form' \in [Panels -> FormType]
    BY <1>4 DEF ClearImage, FormType
  <2> QED BY <1>4, <2>1, RestKeepsType DEF ClearImage, TypeOK, storeVars
<1>5. ASSUME UploadAnswered(p) PROVE TypeOK' /\ UNCHANGED handler
  <2>1. upload[p] \in Files \cup {None} /\ upload' \in [Panels -> Files \cup {None}]
    BY <1>5 DEF UploadAnswered, TypeOK
  <2>2. form' \in [Panels -> FormType]
    BY <1>5, <2>1 DEF UploadAnswered, FormType
  <2> QED BY <1>5, <2>1, <2>2, RestKeepsType DEF UploadAnswered, TypeOK, storeVars
<1> QED BY <1>1, <1>2, <1>3, <1>4, <1>5 DEF PanelNext

LEMMA CleanerStepType ==
    ASSUME TypeOK, CleanerNext
    PROVE  TypeOK' /\ UNCHANGED handler
<1> USE Typed
<1>1. ASSUME NEW f \in Files, Age(f) PROVE TypeOK' /\ UNCHANGED handler
  <2>1. kv' \in [Files -> {"none", "fresh", "old", "gone"}]
    BY <1>1 DEF Age, TypeOK
  <2> QED BY <1>1, <2>1, RestKeepsType DEF Age, TypeOK
<1>2. ASSUME NEW f \in Files, DeleteOrphan(f) PROVE TypeOK' /\ UNCHANGED handler
  <2>1. kv' \in [Files -> {"none", "fresh", "old", "gone"}]
    BY <1>2 DEF DeleteOrphan, TypeOK
  <2>2. cleaner' \in CleanerType
    BY <1>2 DEF DeleteOrphan, Asleep, CleanerType
  <2> QED BY <1>2, <2>1, <2>2, RestKeepsType DEF DeleteOrphan, TypeOK
<1>3. ASSUME ReadUsed PROVE TypeOK' /\ UNCHANGED handler
  <2>1. cleaner' \in CleanerType
    BY <1>3 DEF ReadUsed, CleanerType
  <2> QED BY <1>3, <2>1, RestKeepsType DEF ReadUsed, TypeOK, storeVars
<1>4. ASSUME ListKeys PROVE TypeOK' /\ UNCHANGED handler
  <2>1. cleaner' \in CleanerType
    BY <1>4 DEF ListKeys, Asleep, CleanerType
  <2> QED BY <1>4, <2>1, RestKeepsType DEF ListKeys, TypeOK, storeVars
<1> QED BY <1>1, <1>2, <1>3, <1>4 DEF CleanerNext

LEMMA TypingKept ==
    ASSUME TypeOK, HandlersOK, [Next]_vars
    PROVE  TypeOK' /\ HandlersOK'
<1>1. ASSUME NEW h \in Handlers, HandlerNext(h) PROVE TypeOK' /\ HandlersOK'
  <2>1. TypeOK' /\ OnlyMoves(h) /\ HandlerOK(h)'
    BY <1>1, HandlerStepType DEF HandlersOK
  <2>2. \A g \in Handlers \ {h} : HandlerOK(g)'
    BY <2>1 DEF HandlersOK, HandlerOK, OnlyMoves
  <2> QED BY <2>1, <2>2 DEF HandlersOK
<1>2. ASSUME TypeOK', UNCHANGED handler PROVE TypeOK' /\ HandlersOK'
  BY <1>2 DEF HandlersOK, HandlerOK
<1>3. ASSUME UNCHANGED vars PROVE TypeOK' /\ UNCHANGED handler
  BY <1>3, Typed, RestKeepsType DEF vars, TypeOK
<1> QED BY <1>1, <1>2, <1>3, PanelStepType, CleanerStepType DEF Next

\* The state has its type, and every handler the local variables of its kind.
THEOREM ImageTyping == Spec => [](TypeOK /\ HandlersOK)
<1>1. Init => TypeOK /\ HandlersOK
  BY InitType DEF Init, HandlersOK, HandlerOK, Idle
<1>2. (TypeOK /\ HandlersOK) /\ [Next]_vars => (TypeOK /\ HandlersOK)'
  BY TypingKept
<1> QED BY <1>1, <1>2, PTL DEF Spec

-----------------------------------------------------------------------------
\* The step that writes the row. It is the same for an update, an insert and
\* a deletion: the row's image becomes the handler's new one, unless the row has
\* none and stays so, and what a panel puts in place is condemned if it is lost.
LEMMA WritesRow ==
    ASSUME TypeOK, HandlersOK, RowsExist, NEW h \in Handlers, Write(h) \/ Insert(h) \/ DeleteRow(h)
    PROVE  /\ OnlyMoves(h) /\ FormsStay
           /\ UNCHANGED <<kv, upload, cleaner>>
           /\ handler[h].pc = "write"
           /\ handler'[h].pc \in {"idle", "delete"} /\ (handler'[h].pc = "idle" => handler'[h] = Idle)
           /\ handler'[h].new \in {None, handler[h].new}
           /\ \/ handler'[h].old = None
              \/ /\ handler'[h].old = handler[h].old /\ handler[h].old # handler[h].new
                 /\ handler'[h].slot = handler[h].slot
           /\ condemned \subseteq condemned'
           /\ \/ /\ handler[h].slot \in Slots
                 /\ image' = [image EXCEPT ![handler[h].slot] = handler[h].new]
                 /\ handler[h].new # None => /\ Condemn(h)
                                             /\ FromPanel(h) \/ Holding(h)
              \/ /\ image' = image
                 /\ \A s \in Slots : s = handler[h].slot => image[s] = None
           /\ RowsExist'
<1>1. Proceed(h) /\ handler[h].pc = "write"
  BY DEF Write, Insert, DeleteRow, At
<1>2. /\ OnlyMoves(h) /\ FormsStay
      /\ \/ handler'[h] = Idle
         \/ /\ handler'[h] = [pc |-> "delete", kind |-> handler[h].kind, slot |-> handler[h].slot,
                             new |-> handler[h].new, old |-> handler[h].old, panel |-> handler[h].panel]
            /\ handler[h].old # handler[h].new
  BY <1>1, ProceedMoves
<1>3. /\ handler'[h].pc \in {"idle", "delete"} /\ (handler'[h].pc = "idle" => handler'[h] = Idle)
      /\ handler'[h].new \in {None, handler[h].new}
      /\ \/ handler'[h].old = None
         \/ /\ handler'[h].old = handler[h].old /\ handler[h].old # handler[h].new
            /\ handler'[h].slot = handler[h].slot
  BY <1>2 DEF Idle
<1>4. HandlerOK(h)
  BY DEF HandlersOK
<1>5. UNCHANGED <<kv, upload, cleaner>> /\ condemned \subseteq condemned'
  BY CondemnTyped DEF Write, Insert, DeleteRow
<1>6. CASE Write(h)
  <2>1. handler[h].new # None => FromPanel(h) \/ Holding(h)
    BY <1>4, <1>6, <1>1 DEF Write, HandlerOK, FromPanel, Holding, At
  <2>2. CASE Present(handler[h].slot)
    <3>1. handler[h].slot \in Slots /\ Condemn(h) /\ image' = [image EXCEPT ![handler[h].slot] = handler[h].new] /\ exists' = exists
      BY <1>6, <2>2 DEF Write, Present, Slots, TypeOK
    <3>2. RowsExist'
      BY <2>2, <3>1 DEF RowsExist, Present, TypeOK
    <3> QED BY <1>1, <1>2, <1>3, <1>5, <2>1, <3>1, <3>2
  <2>3. CASE ~Present(handler[h].slot)
    <3>1. image' = image /\ exists' = exists
      BY <1>6, <2>3 DEF Write
    <3>2. RowsExist' /\ \A s \in Slots : s = handler[h].slot => image[s] = None
      BY <2>3, <3>1 DEF RowsExist, Present
    <3> QED BY <1>1, <1>2, <1>3, <1>5, <3>1, <3>2
  <2> QED BY <2>2, <2>3
<1>7. CASE Insert(h)
  <2>1. handler[h].new # None => FromPanel(h) \/ Holding(h)
    BY <1>4, <1>7, <1>1 DEF Insert, HandlerOK, FromPanel, Holding, At
  <2>2. /\ handler[h].slot \in Slots /\ Condemn(h) /\ image' = [image EXCEPT ![handler[h].slot] = handler[h].new]
        /\ exists' = exists \cup {handler[h].slot}
    BY <1>4, <1>7 DEF Insert, HandlerOK, Slots
  <2>3. RowsExist'
    BY <2>2 DEF RowsExist, Present, TypeOK
  <2> QED BY <1>1, <1>2, <1>3, <1>5, <2>1, <2>2, <2>3
<1>8. CASE DeleteRow(h)
  <2>1. handler[h].new = None /\ handler[h].slot \in Rows /\ handler[h].slot \in Slots
    BY <1>4, <1>8 DEF DeleteRow, HandlerOK, Slots
  <2>2. image' = [image EXCEPT ![handler[h].slot] = None] /\ exists' = exists \ {handler[h].slot}
    BY <1>8 DEF DeleteRow
  <2>3. RowsExist'
    BY <2>1, <2>2 DEF RowsExist, Present, TypeOK
  <2> QED BY <1>1, <1>2, <1>3, <1>5, <2>1, <2>2, <2>3
<1> QED BY <1>6, <1>7, <1>8

LEMMA WritesKeepKnown ==
    ASSUME IInv, NEW h \in Handlers, Write(h) \/ Insert(h) \/ DeleteRow(h)
    PROVE  KnownFiles'
<1>1. TypeOK /\ HandlersOK /\ RowsExist /\ KnownFiles
  BY DEF IInv
<1>2. /\ OnlyMoves(h) /\ FormsStay
      /\ UNCHANGED <<kv, upload, cleaner>>
      /\ handler'[h].new \in {None, handler[h].new}
      /\ handler'[h].old \in {None, handler[h].old}
      /\ \/ image' = [image EXCEPT ![handler[h].slot] = handler[h].new]
         \/ image' = image
  BY <1>1, WritesRow
<1>3. \A s \in Slots : image'[s] \in {image[s], handler[h].new}
  BY <1>1, <1>2 DEF TypeOK
<1>4. \A s \in Slots : image'[s] \in Files => kv[image'[s]] # "none"
  BY <1>1, <1>3 DEF KnownFiles
<1>5. \A g \in Handlers : /\ handler'[g].new \in Files => kv[handler'[g].new] # "none"
                          /\ handler'[g].old \in Files => kv[handler'[g].old] # "none"
  BY <1>1, <1>2, ImageAssumption DEF KnownFiles, OnlyMoves
<1>6. \A p \in Panels : form'[p].image \in Files => kv[form'[p].image] # "none"
  BY <1>1, <1>2, ImageAssumption DEF KnownFiles, FormsStay
<1> QED BY <1>1, <1>2, <1>4, <1>5, <1>6 DEF KnownFiles

\* A held file stays private: only its holder could write or note it.
LEMMA WritesKeepPrivate ==
    ASSUME IInv, NEW h \in Handlers, Write(h) \/ Insert(h) \/ DeleteRow(h)
    PROVE  HeldFilesPrivate'
<1>1. TypeOK /\ HandlersOK /\ RowsExist /\ HeldFilesPrivate
  BY DEF IInv
<1>2. /\ OnlyMoves(h) /\ FormsStay
      /\ UNCHANGED <<kv, upload, cleaner>>
      /\ handler'[h].pc \in {"idle", "delete"} /\ (handler'[h].pc = "idle" => handler'[h] = Idle)
      /\ handler'[h].new \in {None, handler[h].new}
      /\ handler'[h].old \in {None, handler[h].old}
      /\ \/ image' = [image EXCEPT ![handler[h].slot] = handler[h].new]
         \/ image' = image
  BY <1>1, WritesRow
<1>3. \A s \in Slots : image'[s] \in {image[s], handler[h].new}
  BY <1>1, <1>2 DEF TypeOK
<1> SUFFICES ASSUME NEW g \in Handlers, Holding(g)', handler'[g].new \in Timed
             PROVE  Private(g, handler[g].new)'
  BY DEF HeldFilesPrivate
<1>4. g # h
  BY <1>2 DEF Holding, At, Idle
<1>5. handler'[g] = handler[g] /\ Holding(g)
  BY <1>1, <1>2, <1>4 DEF OnlyMoves, Holding, At
<1>6. handler[g].new # None /\ Private(g, handler[g].new)
  BY <1>1, <1>5, ImageAssumption DEF HeldFilesPrivate, Timed
<1> DEFINE f == handler[g].new
<1>7. handler[h].new # f
  BY <1>4, <1>6 DEF Private
<1>8. \A s \in Slots : image'[s] # f
  BY <1>3, <1>6, <1>7 DEF Private
<1>9. \A j \in Handlers : handler'[j].old # f /\ (handler'[j].new = f => j = g)
  BY <1>2, <1>4, <1>6, <1>7 DEF Private, OnlyMoves
<1>10. \A p \in Panels : form'[p].image # f /\ upload'[p] # f
  BY <1>2, <1>6 DEF Private, FormsStay
<1>11. kv'[f] = "fresh" /\ f \notin cleaner'.doomed
  BY <1>2, <1>6 DEF Private
<1> QED BY <1>5, <1>8, <1>9, <1>10, <1>11 DEF Private

\* The heart of the matter. The image that is written is secure: a held file
\* is private, and a form's file is condemned unless it is not lost. So is the
\* file of a dialogue, if it is deleted: it turns up in its own row only and is
\* not due for the clean-up. The image that is written over is free to be deleted:
\* nobody refers to it any more.
LEMMA WritesKeepSecure ==
    ASSUME IInv, NEW h \in Handlers, Write(h) \/ Insert(h) \/ DeleteRow(h)
    PROVE  ImagesSecure'
<1>1. /\ TypeOK /\ HandlersOK /\ RowsExist /\ HeldFilesPrivate /\ ImagesSecure
      /\ OwnPlaces /\ PhotosNotDue
  BY DEF IInv
<1>2. /\ OnlyMoves(h)
      /\ UNCHANGED <<kv, upload, cleaner>>
      /\ handler[h].pc = "write"
      /\ \/ handler'[h].old = None
         \/ /\ handler'[h].old = handler[h].old /\ handler[h].old # handler[h].new
            /\ handler'[h].slot = handler[h].slot
      /\ condemned \subseteq condemned'
  BY <1>1, WritesRow
<1> SUFFICES ASSUME NEW s \in Slots, image'[s] \in Files \ condemned'
             PROVE  Secure(s, image[s])'
  BY DEF ImagesSecure
<1> DEFINE f == image'[s]
           S == handler[h].slot
           n == handler[h].new
<1>3. f # None /\ f \in Files /\ f \notin condemned'
  BY ImageAssumption
<1>4. SUFFICES /\ Stored(f)
               /\ \A t \in Slots : image'[t] = f => t = s
               /\ \A g \in Handlers \ {h} : handler[g].old = f => handler[g].pc # "delete" /\ handler[g].slot = s
               /\ handler'[h].old # f
               /\ f \notin cleaner.doomed
               /\ cleaner.pc = "reading" /\ kv[f] = "old" => f \in cleaner.used
  BY <1>2 DEF Secure, OnlyMoves, Stored
<1>5. CASE image' = image /\ \A t \in Slots : t = S => image[t] = None
  <2>1. Secure(s, f)
    BY <1>1, <1>2, <1>3, <1>5 DEF ImagesSecure
  <2>2. handler'[h].old # f
    BY <1>2, <1>3, <1>5, <2>1 DEF Secure
  <2> QED BY <1>5, <2>1, <2>2 DEF Secure
<1>6. CASE /\ S \in Slots
           /\ image' = [image EXCEPT ![S] = n]
           /\ n # None => Condemn(h) /\ (FromPanel(h) \/ Holding(h))
  <2>1. image'[S] = n /\ \A t \in Slots \ {S} : image'[t] = image[t]
    BY <1>1, <1>6 DEF TypeOK
  <2>2. CASE s = S
    <3>1. f = n
      BY <2>1, <2>2
    <3>2. CASE FromPanel(h)
      <4>1. ~Lost(h, n)
        BY <1>3, <1>6, <3>1, <3>2 DEF Condemn
      <4>2. /\ Stored(f)
            /\ Referring(f) \ {S} = {}
            /\ \A g \in Handlers \ {h} : handler[g].old = f => handler[g].pc # "delete" /\ handler[g].slot = S
            /\ f \notin cleaner.doomed
            /\ cleaner.pc = "reading" /\ kv[f] = "old" => f \in cleaner.used
        BY <1>3, <3>1, <4>1 DEF Lost, Deleted, At
      <4>3. \A t \in Slots : image'[t] = f => t = s
        BY <2>1, <2>2, <4>2 DEF Referring
      <4>4. handler'[h].old # f
        BY <1>2, <1>3, <3>1
      <4> QED BY <2>2, <4>2, <4>3, <4>4
    <3>3. CASE Holding(h) /\ f \notin Timed
      <4>1. PICK r \in Drafts : f \in OwnNames[r]
        BY <1>3, <3>3 DEF Timed
      <4>2. OwnPlace(r, f)
        BY <1>1, <4>1 DEF OwnPlaces
      <4>3. r = S
        BY <3>1, <4>2 DEF OwnPlace
      <4>4. ~Deleted(h, f)
        BY <1>3, <1>6, <3>1, <3>3 DEF Condemn
      <4>5. kv[f] # "old" /\ f \notin cleaner.doomed
        BY <1>1, <1>3, <3>1, <3>3 DEF PhotosNotDue, NotDue
      <4>6. \A t \in Slots : image'[t] = f => t = s
        BY <2>1, <2>2, <4>2, <4>3 DEF OwnPlace
      <4>7. \A g \in Handlers \ {h} : handler[g].old = f => handler[g].pc # "delete" /\ handler[g].slot = s
        BY <2>2, <4>2, <4>3, <4>4 DEF OwnPlace, Deleted, At
      <4>8. Stored(f) /\ handler'[h].old # f
        BY <1>2, <1>3, <3>1, <4>4 DEF Deleted
      <4> QED BY <4>5, <4>6, <4>7, <4>8
    <3>4. CASE Holding(h) /\ f \in Timed
      <4>1. Private(h, f)
        BY <1>1, <3>1, <3>4 DEF HeldFilesPrivate
      <4>2. \A t \in Slots : image'[t] = f => t = s
        BY <2>1, <2>2, <4>1 DEF Private
      <4>3. handler'[h].old # f
        BY <1>2, <1>3, <4>1 DEF Private
      <4> QED BY <4>1, <4>2, <4>3 DEF Private, Stored
    <3> QED BY <1>3, <1>6, <3>1, <3>2, <3>3, <3>4
  <2>3. CASE s # S
    <3>1. f = image[s]
      BY <2>1, <2>3
    <3>2. Secure(s, f)
      BY <1>1, <1>2, <1>3, <3>1 DEF ImagesSecure
    <3>3. n # f
      <4> SUFFICES ASSUME n = f PROVE FALSE
        OBVIOUS
      <4>1. CASE FromPanel(h)
        <5>1. s \in Referring(f) \ {S}
          BY <2>3, <3>1 DEF Referring
        <5>2. Lost(h, n)
          BY <1>3, <5>1 DEF Lost
        <5> QED BY <1>3, <1>6, <4>1, <5>2 DEF Condemn
      <4>2. CASE Holding(h) /\ f \in Timed
        BY <1>1, <3>1, <4>2 DEF HeldFilesPrivate, Private
      <4>3. CASE Holding(h) /\ f \notin Timed
        <5>1. PICK r \in Drafts : f \in OwnNames[r]
          BY <1>3, <4>3 DEF Timed
        <5>2. OwnPlace(r, f)
          BY <1>1, <5>1 DEF OwnPlaces
        <5>3. s = r /\ S = r
          BY <3>1, <5>2 DEF OwnPlace
        <5> QED BY <2>3, <5>3
      <4> QED BY <1>3, <1>6, <4>1, <4>2, <4>3
    <3>4. \A t \in Slots : image'[t] = f => t = s
      BY <2>1, <3>2, <3>3 DEF Secure
    <3>5. handler'[h].old # f
      BY <1>2, <1>3, <2>3, <3>2 DEF Secure
    <3> QED BY <3>2, <3>4, <3>5 DEF Secure
  <2> QED BY <2>2, <2>3
<1> QED BY <1>1, <1>5, <1>6, WritesRow

-----------------------------------------------------------------------------
\* The steps before the write: a file that was never stored is mentioned
\* nowhere, so that storing it disturbs nothing and whoever stores it has it for
\* itself.
LEMMA UnknownFile ==
    ASSUME TypeOK, KnownFiles, NEW f \in Files, kv[f] = "none"
    PROVE  /\ \A s \in Slots : image[s] # f
           /\ \A g \in Handlers : handler[g].old # f /\ handler[g].new # f
           /\ \A p \in Panels : form[p].image # f /\ upload[p] # f
           /\ f \notin cleaner.doomed
BY DEF KnownFiles

LEMMA StoresKeep ==
    ASSUME IInv, NEW h \in Handlers, NEW f \in Files, NEW r \in Slots,
           OnlyMoves(h), handler[h].pc = "idle",
           handler'[h].new = f, handler'[h].old = None, Stores(r, f),
           UNCHANGED <<exists, image, form, upload, cleaner, condemned>>,
           f \in Timed \/ r \in Drafts
    PROVE  RowsExist' /\ KnownFiles' /\ HeldFilesPrivate' /\ ImagesSecure'
<1>1. TypeOK /\ HandlersOK /\ RowsExist /\ KnownFiles /\ HeldFilesPrivate /\ ImagesSecure
  BY DEF IInv
<1>2. /\ OnlyMoves(h)
      /\ handler'[h].new = f /\ handler'[h].old = None
      /\ kv' = [kv EXCEPT ![f] = "fresh"]
      /\ UNCHANGED <<exists, image, form, upload, cleaner, condemned>>
      /\ f \in Timed => kv[f] = "none"
  BY <1>1 DEF Stores, Timed, TypeOK
<1>3. f \in Timed =>
          /\ \A t \in Slots : image[t] # f
          /\ \A g \in Handlers : handler[g].old # f /\ handler[g].new # f
          /\ \A p \in Panels : form[p].image # f /\ upload[p] # f
          /\ f \notin cleaner.doomed
  BY <1>1, <1>2, UnknownFile
<1>4. kv'[f] = "fresh" /\ \A e \in Files \ {f} : kv'[e] = kv[e]
  BY <1>1, <1>2 DEF TypeOK
<1>6. RowsExist'
  BY <1>1, <1>2 DEF RowsExist, Present
<1>7. KnownFiles'
  <2>1. cleaner.doomed \subseteq Files
    BY <1>1 DEF TypeOK
  <2>2. \A e \in Files : kv[e] # "none" => kv'[e] # "none"
    BY <1>4
  <2>3. \A g \in Handlers : /\ handler'[g].new \in Files => kv'[handler'[g].new] # "none"
                            /\ handler'[g].old \in Files => kv'[handler'[g].old] # "none"
    BY <1>1, <1>2, <1>4, <2>2, ImageAssumption DEF KnownFiles, OnlyMoves
  <2> QED BY <1>1, <1>2, <2>1, <2>2, <2>3 DEF KnownFiles
<1>8. HeldFilesPrivate'
  <2> SUFFICES ASSUME NEW g \in Handlers, Holding(g)', handler'[g].new \in Timed
               PROVE  Private(g, handler[g].new)'
    BY DEF HeldFilesPrivate
  <2>1. CASE g = h
    <3>1. f \in Timed /\ handler'[g].new = f
      BY <1>2, <2>1
    <3>2. \A j \in Handlers : handler'[j].old # f /\ (handler'[j].new = f => j = g)
      BY <1>2, <1>3, <2>1, <3>1, ImageAssumption DEF OnlyMoves
    <3>3. /\ \A t \in Slots : image'[t] # f
          /\ \A p \in Panels : form'[p].image # f /\ upload'[p] # f
          /\ f \notin cleaner'.doomed
      BY <1>2, <1>3, <3>1
    <3>4. Private(g, f)'
      BY <1>4, <3>2, <3>3 DEF Private
    <3> QED BY <3>1, <3>4
  <2>2. CASE g # h
    <3>1. handler'[g] = handler[g] /\ Private(g, handler[g].new)
      BY <1>1, <1>2, <2>2 DEF OnlyMoves, HeldFilesPrivate, Holding, At
    <3>2. handler[g].new \in Files \ {f}
      BY <1>3, <3>1 DEF Timed
    <3> QED BY <1>2, <1>4, <2>2, <3>1, <3>2, ImageAssumption DEF Private, OnlyMoves
  <2> QED BY <2>1, <2>2
<1>9. ImagesSecure'
  <2> SUFFICES ASSUME NEW t \in Slots, image[t] \in Files \ condemned PROVE Secure(t, image[t])'
    BY <1>2 DEF ImagesSecure
  <2>1. Secure(t, image[t])
    BY <1>1 DEF ImagesSecure
  <2>2. kv'[image[t]] \in {kv[image[t]], "fresh"}
    BY <1>4, <2>1
  <2> QED BY <1>2, <2>1, <2>2, ImageAssumption DEF Secure, OnlyMoves, Stored
<1> QED BY <1>6, <1>7, <1>8, <1>9

\* A handler takes note of the image of its row, or of the one in a form. The
\* row's image was secure, so it is the row's own handler that will delete it.
LEMMA NotesKeep ==
    ASSUME IInv, NEW h \in Handlers, OnlyMoves(h), handler'[h].pc # "delete",
           Holding(h)' /\ handler'[h].new \in Timed => Holding(h) /\ handler'[h].new = handler[h].new,
           \/ handler'[h].old = None
           \/ /\ handler'[h].slot \in Slots /\ handler'[h].old = Current(handler'[h].slot),
           \/ handler'[h].new \in {None, handler[h].new}
           \/ \E p \in Panels : handler'[h].new = form[p].image,
           UNCHANGED <<kv, exists, image, upload, cleaner, condemned>>,
           FormsStay
    PROVE  RowsExist' /\ KnownFiles' /\ HeldFilesPrivate' /\ ImagesSecure'
<1>1. TypeOK /\ HandlersOK /\ RowsExist /\ KnownFiles /\ HeldFilesPrivate /\ ImagesSecure
  BY DEF IInv
<1>2. RowsExist'
  BY <1>1 DEF RowsExist, Present
<1>3. KnownFiles'
  <2>1. handler'[h].old \in Files => kv[handler'[h].old] # "none"
    BY <1>1, ImageAssumption DEF KnownFiles, Current
  <2>2. handler'[h].new \in Files => kv[handler'[h].new] # "none"
    BY <1>1, ImageAssumption DEF KnownFiles
  <2>3. \A g \in Handlers : /\ handler'[g].new \in Files => kv[handler'[g].new] # "none"
                            /\ handler'[g].old \in Files => kv[handler'[g].old] # "none"
    BY <1>1, <2>1, <2>2 DEF KnownFiles, OnlyMoves
  <2>4. \A p \in Panels : form'[p].image \in Files => kv[form'[p].image] # "none"
    BY <1>1, ImageAssumption DEF KnownFiles, FormsStay
  <2> QED BY <1>1, <2>3, <2>4 DEF KnownFiles
<1>4. HeldFilesPrivate'
  <2> SUFFICES ASSUME NEW g \in Handlers, Holding(g)', handler'[g].new \in Timed
               PROVE  Private(g, handler[g].new)'
    BY DEF HeldFilesPrivate
  <2>1. Holding(g) /\ handler'[g].new = handler[g].new
    BY DEF OnlyMoves, Holding, At
  <2>2. Private(g, handler[g].new) /\ handler[g].new # None
    BY <1>1, <2>1, ImageAssumption DEF HeldFilesPrivate, Timed
  <2>3. handler'[h].old # handler[g].new
    BY <2>2 DEF Private, Current
  <2>4. handler'[h].new = handler[g].new => h = g
    BY <2>2 DEF Private
  <2>5. \A j \in Handlers : handler'[j].old # handler[g].new /\ (handler'[j].new = handler[g].new => j = g)
    BY <2>2, <2>3, <2>4 DEF Private, OnlyMoves
  <2>6. \A p \in Panels : form'[p].image # handler[g].new
    BY <2>2 DEF Private, FormsStay
  <2> QED BY <2>1, <2>2, <2>5, <2>6 DEF Private
<1>5. ImagesSecure'
  <2> SUFFICES ASSUME NEW t \in Slots, image[t] \in Files \ condemned PROVE Secure(t, image[t])'
    BY DEF ImagesSecure
  <2>1. Secure(t, image[t]) /\ image[t] # None
    BY <1>1, ImageAssumption DEF ImagesSecure
  <2>2. handler'[h].old = image[t] => handler'[h].slot = t
    BY <2>1 DEF Secure, Current
  <2> QED BY <2>1, <2>2 DEF Secure, OnlyMoves, Stored
<1> QED BY <1>2, <1>3, <1>4, <1>5

-----------------------------------------------------------------------------
\* A handler deletes the old file, or fails. No row refers to a file whose
\* handler is about to delete it.
LEMMA EndsKeep ==
    ASSUME IInv, NEW h \in Handlers, DeleteOld(h) \/ Fail(h) \/ InsertRefused(h)
    PROVE  RowsExist' /\ KnownFiles' /\ HeldFilesPrivate' /\ ImagesSecure'
<1>1. TypeOK /\ HandlersOK /\ RowsExist /\ KnownFiles /\ HeldFilesPrivate /\ ImagesSecure
  BY DEF IInv
<1> DEFINE e == handler[h].old
<1>2. /\ OnlyMoves(h) /\ handler'[h] = Idle /\ FormsStay
      /\ UNCHANGED <<exists, image, upload, cleaner, condemned>>
  BY <1>1, Ends DEF DeleteOld, Fail, InsertRefused, storeVars
<1>3. \/ kv' = kv
      \/ e \in Files /\ handler[h].pc = "delete" /\ kv' = [kv EXCEPT ![e] = "gone"]
  BY <1>1 DEF DeleteOld, Fail, InsertRefused, storeVars, TypeOK, At
<1>4. \A f \in Files : kv'[f] = kv[f] \/ (kv'[f] = "gone" /\ f = e /\ handler[h].pc = "delete")
  BY <1>1, <1>3 DEF TypeOK
<1>5. handler'[h].old = None /\ handler'[h].new = None /\ ~Holding(h)'
  BY <1>2 DEF Idle, Holding, At
<1>6. RowsExist'
  BY <1>1, <1>2 DEF RowsExist, Present
<1>7. KnownFiles'
  <2>1. cleaner.doomed \subseteq Files
    BY <1>1 DEF TypeOK
  <2>2. \A f \in Files : kv[f] # "none" => kv'[f] # "none"
    BY <1>4
  <2>3. \A g \in Handlers : /\ handler'[g].new \in Files => kv'[handler'[g].new] # "none"
                            /\ handler'[g].old \in Files => kv'[handler'[g].old] # "none"
    BY <1>1, <1>2, <1>5, <2>2, ImageAssumption DEF KnownFiles, OnlyMoves
  <2>4. \A p \in Panels : form'[p].image \in Files => kv'[form'[p].image] # "none"
    BY <1>1, <1>2, <2>2, ImageAssumption DEF KnownFiles, FormsStay
  <2> QED BY <1>1, <1>2, <2>1, <2>2, <2>3, <2>4 DEF KnownFiles
<1>8. HeldFilesPrivate'
  <2> SUFFICES ASSUME NEW g \in Handlers, Holding(g)', handler'[g].new \in Timed
               PROVE  Private(g, handler[g].new)'
    BY DEF HeldFilesPrivate
  <2>1. g # h /\ handler'[g] = handler[g] /\ Holding(g)
    BY <1>2, <1>5 DEF OnlyMoves, Holding, At
  <2>2. /\ Private(g, handler[g].new) /\ handler[g].new # None
        /\ handler[g].new \in Files
    BY <1>1, <2>1, ImageAssumption DEF HeldFilesPrivate, Timed
  <2>3. kv'[handler[g].new] = "fresh"
    BY <1>4, <2>2 DEF Private
  <2>4. \A j \in Handlers : handler'[j].old # handler[g].new /\ (handler'[j].new = handler[g].new => j = g)
    BY <1>2, <1>5, <2>2 DEF Private, OnlyMoves
  <2>5. \A p \in Panels : form'[p].image # handler[g].new
    BY <1>2, <2>2 DEF Private, FormsStay
  <2> QED BY <1>2, <2>1, <2>2, <2>3, <2>4, <2>5 DEF Private
<1>9. ImagesSecure'
  <2> SUFFICES ASSUME NEW t \in Slots, image[t] \in Files \ condemned PROVE Secure(t, image[t])'
    BY <1>2 DEF ImagesSecure
  <2>1. Secure(t, image[t]) /\ image[t] # None
    BY <1>1, ImageAssumption DEF ImagesSecure
  <2>2. kv'[image[t]] = kv[image[t]]
    BY <1>4, <2>1 DEF Secure
  <2> QED BY <1>2, <1>5, <2>1, <2>2 DEF Secure, OnlyMoves, Stored
<1> QED BY <1>6, <1>7, <1>8, <1>9

-----------------------------------------------------------------------------
\* The panel. A form takes images from rows and from its own uploads only.
LEMMA FormsKeep ==
    ASSUME IInv, UNCHANGED <<kv, exists, image, handler, cleaner, condemned>>,
           \A q \in Panels : \/ form'[q].image \in {None, form[q].image, upload[q]}
                             \/ \E s \in Slots : form'[q].image = image[s],
           \A q \in Panels : upload'[q] \in {None, upload[q]}
    PROVE  RowsExist' /\ KnownFiles' /\ HeldFilesPrivate' /\ ImagesSecure'
<1>1. TypeOK /\ HandlersOK /\ RowsExist /\ KnownFiles /\ HeldFilesPrivate /\ ImagesSecure
  BY DEF IInv
<1>2. RowsExist'
  BY <1>1 DEF RowsExist, Present
<1>3. KnownFiles'
  <2>1. \A p \in Panels : /\ form'[p].image \in Files => kv[form'[p].image] # "none"
                          /\ upload'[p] \in Files => kv[upload'[p]] # "none"
    BY <1>1, ImageAssumption DEF KnownFiles
  <2> QED BY <1>1, <2>1 DEF KnownFiles
<1>4. HeldFilesPrivate'
  <2> SUFFICES ASSUME NEW g \in Handlers, Holding(g)', handler'[g].new \in Timed
               PROVE  Private(g, handler[g].new)'
    BY DEF HeldFilesPrivate
  <2>1. Private(g, handler[g].new) /\ handler[g].new # None
    BY <1>1, ImageAssumption DEF HeldFilesPrivate, Holding, At, Timed
  <2>2. \A p \in Panels : form'[p].image # handler[g].new /\ upload'[p] # handler[g].new
    BY <2>1 DEF Private
  <2> QED BY <2>1, <2>2 DEF Private
<1>5. ImagesSecure'
  BY <1>1 DEF ImagesSecure, Secure, Stored
<1> QED BY <1>2, <1>3, <1>4, <1>5

LEMMA UploadKeeps ==
    ASSUME IInv, NEW p \in Panels, NEW f \in Files, Upload(p, f)
    PROVE  RowsExist' /\ KnownFiles' /\ HeldFilesPrivate' /\ ImagesSecure'
<1>1. TypeOK /\ HandlersOK /\ RowsExist /\ KnownFiles /\ HeldFilesPrivate /\ ImagesSecure
  BY DEF IInv
<1>2. /\ kv[f] = "none" /\ kv' = [kv EXCEPT ![f] = "fresh"]
      /\ upload' = [upload EXCEPT ![p] = f]
      /\ UNCHANGED <<exists, image, handler, form, cleaner, condemned>>
  BY DEF Upload, PutTimed, Put
<1>3. /\ \A t \in Slots : image[t] # f
      /\ \A g \in Handlers : handler[g].old # f /\ handler[g].new # f
  BY <1>1, <1>2, UnknownFile
<1>4. kv'[f] = "fresh" /\ \A e \in Files \ {f} : kv'[e] = kv[e]
  BY <1>1, <1>2 DEF TypeOK
<1>5. \A q \in Panels : upload'[q] \in {f, upload[q]}
  BY <1>1, <1>2 DEF TypeOK
<1>6. RowsExist'
  BY <1>1, <1>2 DEF RowsExist, Present
<1>7. KnownFiles'
  <2>1. cleaner.doomed \subseteq Files
    BY <1>1 DEF TypeOK
  <2>2. \A e \in Files : kv[e] # "none" => kv'[e] # "none"
    BY <1>4
  <2>3. \A q \in Panels : upload'[q] \in Files => kv'[upload'[q]] # "none"
    BY <1>1, <1>4, <1>5, <2>2 DEF KnownFiles
  <2> QED BY <1>1, <1>2, <2>1, <2>2, <2>3 DEF KnownFiles
<1>8. HeldFilesPrivate'
  <2> SUFFICES ASSUME NEW g \in Handlers, Holding(g)', handler'[g].new \in Timed
               PROVE  Private(g, handler[g].new)'
    BY DEF HeldFilesPrivate
  <2>1. Private(g, handler[g].new) /\ handler[g].new \in Files \ {f}
    BY <1>1, <1>2, <1>3 DEF HeldFilesPrivate, Holding, At, Timed
  <2> QED BY <1>2, <1>4, <1>5, <2>1 DEF Private
<1>9. ImagesSecure'
  <2> SUFFICES ASSUME NEW t \in Slots, image[t] \in Files \ condemned PROVE Secure(t, image[t])'
    BY <1>2 DEF ImagesSecure
  <2>1. Secure(t, image[t]) /\ kv'[image[t]] = kv[image[t]]
    BY <1>1, <1>3, <1>4 DEF ImagesSecure
  <2> QED BY <1>2, <2>1 DEF Secure, Stored
<1> QED BY <1>6, <1>7, <1>8, <1>9

LEMMA PanelKeeps ==
    ASSUME IInv, NEW p \in Panels, PanelNext(p)
    PROVE  RowsExist' /\ KnownFiles' /\ HeldFilesPrivate' /\ ImagesSecure'
<1>1. TypeOK
  BY DEF IInv
<1>2. ASSUME NEW s \in Rows \cup {NewRow}, OpenForm(p, s)
      PROVE RowsExist' /\ KnownFiles' /\ HeldFilesPrivate' /\ ImagesSecure'
  <2>1. \A q \in Panels : \/ form'[q].image \in {None, form[q].image, upload[q]}
                          \/ \E t \in Slots : form'[q].image = image[t]
    BY <1>1, <1>2 DEF OpenForm, TypeOK, Slots
  <2> QED BY <1>2, <2>1, FormsKeep DEF OpenForm, storeVars
<1>3. ASSUME NEW f \in Files, Upload(p, f)
      PROVE RowsExist' /\ KnownFiles' /\ HeldFilesPrivate' /\ ImagesSecure'
  BY <1>3, UploadKeeps
<1>4. ASSUME CloseForm(p) \/ ClearImage(p)
      PROVE RowsExist' /\ KnownFiles' /\ HeldFilesPrivate' /\ ImagesSecure'
  <2>1. \A q \in Panels : form'[q].image \in {None, form[q].image, upload[q]}
    BY <1>1, <1>4 DEF CloseForm, ClearImage, TypeOK, Closed
  <2> QED BY <1>4, <2>1, FormsKeep DEF CloseForm, ClearImage, storeVars
<1>5. ASSUME UploadAnswered(p)
      PROVE RowsExist' /\ KnownFiles' /\ HeldFilesPrivate' /\ ImagesSecure'
  <2>1. \A q \in Panels : form'[q].image \in {None, form[q].image, upload[q]}
    BY <1>1, <1>5 DEF UploadAnswered, TypeOK
  <2>2. \A q \in Panels : upload'[q] \in {None, upload[q]}
    BY <1>1, <1>5 DEF UploadAnswered, TypeOK
  <2> QED BY <1>5, <2>1, <2>2, FormsKeep DEF UploadAnswered, storeVars
<1> QED BY <1>2, <1>3, <1>4, <1>5 DEF PanelNext

-----------------------------------------------------------------------------
\* The clean-up. What it read as referred to stays on its list; what is put
\* into a row while it reads is young or condemned.
LEMMA CleanerKeeps ==
    ASSUME IInv, CleanerNext
    PROVE  RowsExist' /\ KnownFiles' /\ HeldFilesPrivate' /\ ImagesSecure'
<1> DEFINE Leaves ==
      /\ UNCHANGED <<exists, image, handler, form, upload, condemned>>
      /\ \A f \in Files : kv[f] # "none" => kv'[f] # "none"
      /\ \A f \in cleaner'.doomed : f \in Files /\ kv'[f] # "none"
      /\ \A h \in Handlers : Holding(h) /\ handler[h].new \in Timed =>
            kv'[handler[h].new] = "fresh" /\ handler[h].new \notin cleaner'.doomed
      /\ \A s \in Slots : image[s] \in Files \ condemned =>
            /\ kv'[image[s]] \in {"fresh", "old"}
            /\ image[s] \notin cleaner'.doomed
            /\ cleaner'.pc = "reading" /\ kv'[image[s]] = "old" => image[s] \in cleaner'.used
<1>1. TypeOK /\ HandlersOK /\ RowsExist /\ KnownFiles /\ HeldFilesPrivate /\ ImagesSecure
  BY DEF IInv
<1>2. Leaves
  <2>1. \A h \in Handlers : Holding(h) /\ handler[h].new \in Timed =>
            /\ handler[h].new \in Files
            /\ kv[handler[h].new] = "fresh"
            /\ handler[h].new \notin cleaner.doomed
    BY <1>1 DEF HeldFilesPrivate, Private, Timed
  <2>2. \A s \in Slots : image[s] \in Files \ condemned =>
            /\ kv[image[s]] \in {"fresh", "old"}
            /\ image[s] \notin cleaner.doomed
            /\ cleaner.pc = "reading" /\ kv[image[s]] = "old" => image[s] \in cleaner.used
    BY <1>1 DEF ImagesSecure, Secure, Stored
  <2>3. ASSUME NEW f \in Files, Age(f) PROVE Leaves
    <3>1. cleaner' = cleaner /\ cleaner.pc # "reading" /\ kv[f] = "fresh"
      BY <2>3 DEF Age
    <3>2. kv'[f] = "old" /\ \A e \in Files \ {f} : kv'[e] = kv[e]
      BY <1>1, <2>3 DEF Age, TypeOK
    <3>3. \A h \in Handlers : Holding(h) => handler[h].new # f
      BY <2>3 DEF Age
    <3>4. cleaner.doomed \subseteq Files
      BY <1>1 DEF TypeOK
    <3> QED BY <1>1, <2>1, <2>2, <2>3, <3>1, <3>2, <3>3, <3>4 DEF Age, KnownFiles
  <2>4. ASSUME NEW f \in Files, DeleteOrphan(f) PROVE Leaves
    <3>1. /\ f \in cleaner.doomed
          /\ cleaner'.doomed \subseteq cleaner.doomed
          /\ cleaner'.pc = "reading" => cleaner.pc = "reading" /\ cleaner'.used = cleaner.used
      BY <1>1, <2>4 DEF DeleteOrphan, Asleep, TypeOK
    <3>2. kv'[f] = "gone" /\ \A e \in Files \ {f} : kv'[e] = kv[e]
      BY <1>1, <2>4 DEF DeleteOrphan, TypeOK
    <3>3. cleaner.doomed \subseteq Files
      BY <1>1 DEF TypeOK
    <3> QED BY <1>1, <2>1, <2>2, <2>4, <3>1, <3>2, <3>3 DEF DeleteOrphan, KnownFiles
  <2>5. ASSUME ReadUsed PROVE Leaves
    <3>1. kv' = kv /\ cleaner'.doomed = {} /\ cleaner'.used = {f \in Files : Referring(f) # {}}
      BY <2>5 DEF ReadUsed, storeVars
    <3>2. \A s \in Slots : image[s] \in Files => image[s] \in cleaner'.used
      BY <3>1 DEF Referring
    <3> QED BY <2>1, <2>2, <2>5, <3>1, <3>2 DEF ReadUsed, storeVars
  <2>6. ASSUME ListKeys PROVE Leaves
    <3>1. kv' = kv /\ cleaner.pc = "reading" /\ cleaner'.pc # "reading"
      BY <2>6 DEF ListKeys, storeVars, Asleep
    <3>2. \A f \in cleaner'.doomed : f \in Files /\ kv[f] = "old" /\ f \notin cleaner.used
      BY <2>6 DEF ListKeys, Asleep
    <3> QED BY <2>1, <2>2, <2>6, <3>1, <3>2 DEF ListKeys, storeVars
  <2> QED BY <2>3, <2>4, <2>5, <2>6 DEF CleanerNext
<1>3. RowsExist'
  BY <1>1, <1>2 DEF RowsExist, Present
<1>4. KnownFiles'
  BY <1>1, <1>2 DEF KnownFiles
<1>5. HeldFilesPrivate'
  BY <1>1, <1>2 DEF HeldFilesPrivate, Private, Holding, At
<1>6. ImagesSecure'
  BY <1>1, <1>2 DEF ImagesSecure, Secure, Stored
<1> QED BY <1>3, <1>4, <1>5, <1>6

-----------------------------------------------------------------------------
\* The name of a dialogue stays with its row: handlers and forms carry a file and
\* the row it is for together.
LEMMA PlaceKept ==
    ASSUME NEW r \in Drafts, NEW f \in OwnNames[r], OwnPlace(r, f), f # None,
           NEW h \in Handlers, OnlyMoves(h), FormsStay, UNCHANGED upload,
           f \in {handler'[h].new, handler'[h].old} => handler'[h].slot = r,
           \A s \in Slots : image'[s] = f => s = r
    PROVE  OwnPlace(r, f)'
BY DEF OwnPlace, OnlyMoves, FormsStay

LEMMA HandlerKeepsPlaces ==
    ASSUME TypeOK, HandlersOK, OwnPlaces, NEW h \in Handlers, HandlerNext(h)
    PROVE  OwnPlaces'
<1> SUFFICES ASSUME NEW r \in Drafts, NEW f \in OwnNames[r] PROVE OwnPlace(r, f)'
  BY DEF OwnPlaces
<1>1. f \in Files /\ f # None /\ f \notin Timed /\ r \in Rows
  BY ImageAssumption DEF Timed
<1>2. OwnPlace(r, f)
  BY DEF OwnPlaces
<1>3. /\ \A s \in Slots : image[s] = f => s = r
      /\ handler[h].new = f => handler[h].slot = r
      /\ handler[h].old = f => handler[h].slot = r
      /\ \A p \in Panels : form[p].image = f => form[p].slot = r
  BY <1>2 DEF OwnPlace
<1>4. ASSUME UNCHANGED form PROVE FormsStay
  BY <1>4, Typed DEF FormsStay
<1>5. \A s \in Slots \cup {None} : Current(s) = f => s = r
  BY <1>1, <1>3, ImageAssumption DEF Current, Present, TypeOK, Slots
<1>6. ASSUME NEW s \in Slots, NEW e \in Files, Replace(h, s, e) PROVE OwnPlace(r, f)'
  <2>1. /\ OnlyMoves(h) /\ UNCHANGED <<image, form, upload>> /\ e \in Timed
        /\ handler'[h] = [pc |-> "read", kind |-> "replace", slot |-> s, new |-> e, old |-> None, panel |-> None]
    BY <1>6, ReplaceDoes
  <2>2. f \notin {handler'[h].new, handler'[h].old}
    BY <1>1, <2>1
  <2> QED BY <1>1, <1>2, <1>3, <1>4, <2>1, <2>2, PlaceKept
<1>7. ASSUME NEW q \in Drafts, NEW e \in Files \cup {None}, Add(h, q, e) PROVE OwnPlace(r, f)'
  <2>1. /\ OnlyMoves(h) /\ UNCHANGED <<image, form, upload>>
        /\ (e \in Files /\ Stores(q, e)) \/ e = None
        /\ handler'[h] = [pc |-> "write", kind |-> "add", slot |-> q, new |-> e, old |-> None, panel |-> None]
    BY <1>7, AddDoes
  <2>2. handler'[h].old = None /\ handler'[h].new = e /\ handler'[h].slot = q
    BY <2>1
  <2>3. e = f => q = r
    BY <1>1, <2>1, ImageAssumption DEF Stores
  <2>4. f \in {handler'[h].new, handler'[h].old} => handler'[h].slot = r
    BY <1>1, <2>2, <2>3
  <2> QED BY <1>1, <1>2, <1>3, <1>4, <2>1, <2>4, PlaceKept
<1>8. ASSUME NEW s \in Slots, Remove(h, s) PROVE OwnPlace(r, f)'
  <2>1. /\ OnlyMoves(h) /\ UNCHANGED <<image, form, upload>>
        /\ handler'[h] = [pc |-> "write", kind |-> "remove", slot |-> s, new |-> None, old |-> Current(s), panel |-> None]
    BY <1>8, RemoveDoes
  <2>2. f \in {handler'[h].new, handler'[h].old} => handler'[h].slot = r
    BY <1>1, <1>5, <2>1
  <2> QED BY <1>1, <1>2, <1>3, <1>4, <2>1, <2>2, PlaceKept
<1>9. ASSUME NEW q \in Rows, Drop(h, q) PROVE OwnPlace(r, f)'
  <2>1. /\ OnlyMoves(h) /\ UNCHANGED <<image, form, upload>>
        /\ handler'[h] = [pc |-> "write", kind |-> "drop", slot |-> q, new |-> None, old |-> Current(q), panel |-> None]
    BY <1>9, DropDoes
  <2>2. f \in {handler'[h].new, handler'[h].old} => handler'[h].slot = r
    BY <1>1, <1>5, <2>1 DEF Slots
  <2> QED BY <1>1, <1>2, <1>3, <1>4, <2>1, <2>2, PlaceKept
<1>10. ASSUME NEW p \in Panels, NEW q \in Rows, SaveForm(h, p, q) PROVE OwnPlace(r, f)'
  <2>1. /\ OnlyMoves(h) /\ form' = [form EXCEPT ![p].pc = "waiting"]
        /\ \/ handler'[h] = [pc |-> "write", kind |-> "create", slot |-> q, new |-> form[p].image, old |-> None, panel |-> p]
           \/ handler'[h] = [pc |-> "read", kind |-> "save", slot |-> q, new |-> form[p].image, old |-> None, panel |-> p]
    BY <1>10, SaveFormDoes
  <2>2. form[p].slot = NewRow \/ form[p].slot = q
    BY <1>10 DEF SaveForm
  <2>3. f \in {handler'[h].new, handler'[h].old} => handler'[h].slot = r
    BY <1>1, <1>3, <2>1, <2>2, ImageAssumption
  <2>4. FormsStay
    BY <2>1, Typed DEF FormsStay, FormType
  <2> QED BY <1>1, <1>2, <1>3, <1>10, <2>1, <2>3, <2>4, PlaceKept DEF SaveForm, storeVars
<1>11. ASSUME Read(h) PROVE OwnPlace(r, f)'
  <2>1. OnlyMoves(h) /\ UNCHANGED <<image, upload>>
    BY <1>11, ReadMoves DEF Read, storeVars
  <2>2. FormsStay
    BY <1>4, <1>11, ReadMoves
  <2>3. CASE handler'[h] = Idle
    <3>1. f \notin {handler'[h].new, handler'[h].old}
      BY <1>1, <2>3 DEF Idle
    <3> QED BY <1>1, <1>2, <1>3, <2>1, <2>2, <3>1, PlaceKept
  <2>4. CASE handler'[h] = [pc |-> "write", kind |-> handler[h].kind, slot |-> handler[h].slot,
                            new |-> handler[h].new, old |-> Current(handler[h].slot),
                            panel |-> handler[h].panel]
    <3>1. handler[h].slot \in Slots \cup {None}
      BY DEF TypeOK
    <3>2. f \in {handler'[h].new, handler'[h].old} => handler'[h].slot = r
      BY <1>3, <1>5, <2>4, <3>1
    <3> QED BY <1>1, <1>2, <1>3, <2>1, <2>2, <3>2, PlaceKept
  <2> QED BY <1>11, <2>3, <2>4, ReadMoves
<1>12. ASSUME Write(h) \/ Insert(h) \/ DeleteRow(h) PROVE OwnPlace(r, f)'
  <2>1. Proceed(h) /\ UNCHANGED upload
    BY <1>12 DEF Write, Insert, DeleteRow
  <2>2. OnlyMoves(h) /\ FormsStay
    BY <2>1, ProceedMoves
  <2>3. f \in {handler'[h].new, handler'[h].old} => handler'[h].slot = r
    <3>1. CASE handler'[h] = Idle
      BY <1>1, <3>1 DEF Idle
    <3>2. CASE handler'[h] = [pc |-> "delete", kind |-> handler[h].kind, slot |-> handler[h].slot,
                              new |-> handler[h].new, old |-> handler[h].old, panel |-> handler[h].panel]
      BY <1>3, <3>2
    <3> QED BY <2>1, <3>1, <3>2, ProceedMoves
  <2>4. \A s \in Slots : image'[s] = f => image[s] = f \/ (s = handler[h].slot /\ handler[h].new = f)
    BY <1>1, <1>12 DEF Write, Insert, DeleteRow, TypeOK
  <2> QED BY <1>1, <1>2, <1>3, <2>1, <2>2, <2>3, <2>4, PlaceKept
<1>13. ASSUME DeleteOld(h) \/ Fail(h) \/ InsertRefused(h) PROVE OwnPlace(r, f)'
  <2>1. OnlyMoves(h) /\ handler'[h] = Idle /\ FormsStay
    BY <1>13, Ends
  <2>2. f \notin {handler'[h].new, handler'[h].old}
    BY <1>1, <2>1 DEF Idle
  <2>3. UNCHANGED <<image, upload>>
    BY <1>13 DEF DeleteOld, Fail, InsertRefused, storeVars
  <2> QED BY <1>1, <1>2, <1>3, <2>1, <2>2, <2>3, PlaceKept
<1> QED BY <1>6, <1>7, <1>8, <1>9, <1>10, <1>11, <1>12, <1>13 DEF HandlerNext

LEMMA PanelKeepsPlaces ==
    ASSUME TypeOK, OwnPlaces, NEW p \in Panels, PanelNext(p)
    PROVE  OwnPlaces'
<1> SUFFICES ASSUME NEW r \in Drafts, NEW f \in OwnNames[r] PROVE OwnPlace(r, f)'
  BY DEF OwnPlaces
<1>1. f \in Files /\ f # None /\ f \notin Timed
  BY ImageAssumption DEF Timed
<1>2. OwnPlace(r, f)
  BY DEF OwnPlaces
<1>3. ASSUME NEW s \in Rows \cup {NewRow}, OpenForm(p, s) PROVE OwnPlace(r, f)'
  <2>1. /\ \A q \in Panels : form'[q].image = f => form'[q].slot = r
        /\ UNCHANGED <<image, handler, upload>>
    BY <1>1, <1>2, <1>3 DEF OpenForm, storeVars, OwnPlace, TypeOK, Slots
  <2> QED BY <1>2, <2>1 DEF OwnPlace
<1>4. ASSUME NEW e \in Files, Upload(p, e) PROVE OwnPlace(r, f)'
  <2>1. /\ \A q \in Panels : upload'[q] # f
        /\ UNCHANGED <<image, handler, form>>
    BY <1>1, <1>2, <1>4 DEF Upload, PutTimed, OwnPlace, TypeOK
  <2> QED BY <1>2, <2>1 DEF OwnPlace
<1>5. ASSUME CloseForm(p) \/ ClearImage(p) PROVE OwnPlace(r, f)'
  <2>1. /\ \A q \in Panels : form'[q].image = f => form'[q].slot = r
        /\ UNCHANGED <<image, handler, upload>>
    BY <1>1, <1>2, <1>5 DEF CloseForm, ClearImage, Closed, storeVars, OwnPlace, TypeOK
  <2> QED BY <1>2, <2>1 DEF OwnPlace
<1>6. ASSUME UploadAnswered(p) PROVE OwnPlace(r, f)'
  <2>1. /\ \A q \in Panels : form'[q].image = f => form'[q].slot = r
        /\ \A q \in Panels : upload'[q] # f
        /\ UNCHANGED <<image, handler>>
    BY <1>1, <1>2, <1>6 DEF UploadAnswered, storeVars, OwnPlace, TypeOK
  <2> QED BY <1>2, <2>1 DEF OwnPlace
<1> QED BY <1>3, <1>4, <1>5, <1>6 DEF PanelNext

LEMMA CleanerKeepsPlaces ==
    ASSUME OwnPlaces, CleanerNext
    PROVE  OwnPlaces'
<1>1. UNCHANGED <<image, handler, form, upload>>
  BY DEF CleanerNext, Age, ReadUsed, ListKeys, DeleteOrphan, storeVars
<1> QED BY <1>1 DEF OwnPlaces, OwnPlace

-----------------------------------------------------------------------------
\* What a handler holds, and what a dialogue may hold yet, is never old.
LEMMA DueKept ==
    ASSUME TypeOK, PhotosNotDue, drafts' \subseteq drafts,
           \A h \in Handlers : Holding(h)' /\ handler'[h].new \in Files =>
               \/ NotDue(handler[h].new)'
               \/ Holding(h) /\ handler'[h].new = handler[h].new,
           \A f \in Files : NotDue(f) => NotDue(f)'
    PROVE  PhotosNotDue'
<1>1. \A r \in drafts' : \A f \in OwnNames[r] : f \in Files /\ r \in drafts
  BY ImageAssumption DEF TypeOK
<1> QED BY <1>1 DEF PhotosNotDue

LEMMA HandlerKeepsDue ==
    ASSUME TypeOK, HandlersOK, RowsExist, KnownFiles, PhotosNotDue, NEW h \in Handlers, HandlerNext(h)
    PROVE  PhotosNotDue'
<1>1. OnlyMoves(h) /\ drafts' = drafts /\ cleaner' = cleaner
  <2>1. OnlyMoves(h)
    BY HandlerStepType DEF HandlersOK
  <2> QED BY <2>1 DEF HandlerNext, Replace, Add, Remove, Drop, SaveForm, Read, Write, Insert,
                      InsertRefused, DeleteRow, DeleteOld, Fail, storeVars
<1>2. ASSUME Holding(h)' /\ handler'[h].new \in Files =>
                 \/ NotDue(handler[h].new)'
                 \/ Holding(h) /\ handler'[h].new = handler[h].new,
             \A f \in Files : NotDue(f) => kv'[f] # "old"
      PROVE  PhotosNotDue'
  <2>1. \A f \in Files : NotDue(f) => NotDue(f)'
    BY <1>1, <1>2 DEF NotDue
  <2>2. \A g \in Handlers \ {h} : handler'[g] = handler[g] /\ (Holding(g)' => Holding(g))
    BY <1>1 DEF OnlyMoves, Holding, At
  <2> QED BY <1>1, <1>2, <2>1, <2>2, DueKept
<1>3. ASSUME NEW f \in Files, kv' = [kv EXCEPT ![f] = "fresh"] \/ kv' = [kv EXCEPT ![f] = "gone"]
      PROVE  \A e \in Files : NotDue(e) => kv'[e] # "old"
  BY <1>3 DEF NotDue, TypeOK
<1>4. ASSUME NEW s \in Slots, NEW f \in Files, Replace(h, s, f) PROVE PhotosNotDue'
  <2>1. /\ handler'[h] = [pc |-> "read", kind |-> "replace", slot |-> s, new |-> f, old |-> None, panel |-> None]
        /\ kv[f] = "none" /\ kv' = [kv EXCEPT ![f] = "fresh"]
    BY <1>4, ReplaceDoes
  <2>2. NotDue(f)' /\ handler'[h].new = f
    BY <1>1, <2>1 DEF NotDue, KnownFiles, TypeOK
  <2> QED BY <1>2, <1>3, <2>1, <2>2
<1>5. ASSUME NEW r \in Drafts, NEW f \in Files \cup {None}, Add(h, r, f) PROVE PhotosNotDue'
  <2>1. /\ handler'[h] = [pc |-> "write", kind |-> "add", slot |-> r, new |-> f, old |-> None, panel |-> None]
        /\ (f \in Files /\ Stores(r, f)) \/ (f = None /\ kv' = kv)
    BY <1>5, AddDoes
  <2>2. handler'[h].new = f
    BY <2>1
  <2>3. CASE f \in Files /\ Stores(r, f)
    <3>1. kv' = [kv EXCEPT ![f] = "fresh"]
      BY <2>3 DEF Stores
    <3>2. f \notin cleaner.doomed
      BY <2>3 DEF Stores, KnownFiles, PhotosNotDue, NotDue
    <3>3. NotDue(f)'
      BY <1>1, <2>3, <3>1, <3>2 DEF NotDue, TypeOK
    <3> QED BY <1>2, <1>3, <2>2, <2>3, <3>1, <3>3
  <2>4. CASE f = None /\ kv' = kv
    BY <1>2, <2>2, <2>4, ImageAssumption DEF NotDue
  <2> QED BY <2>1, <2>3, <2>4
<1>6. ASSUME \/ \E s \in Slots : Remove(h, s)
             \/ \E r \in Rows : Drop(h, r)
             \/ \E p \in Panels, r \in Rows : SaveForm(h, p, r)
      PROVE  PhotosNotDue'
  <2>1. handler'[h].kind \in {"remove", "drop", "create", "save"}
    <3>1. ASSUME NEW s \in Slots, Remove(h, s) PROVE handler'[h].kind = "remove"
      <4>1. handler'[h] = [pc |-> "write", kind |-> "remove", slot |-> s, new |-> None, old |-> Current(s), panel |-> None]
        BY <3>1, RemoveDoes
      <4> QED BY <4>1
    <3>2. ASSUME NEW r \in Rows, Drop(h, r) PROVE handler'[h].kind = "drop"
      <4>1. handler'[h] = [pc |-> "write", kind |-> "drop", slot |-> r, new |-> None, old |-> Current(r), panel |-> None]
        BY <3>2, DropDoes
      <4> QED BY <4>1
    <3>3. ASSUME NEW p \in Panels, NEW r \in Rows, SaveForm(h, p, r) PROVE handler'[h].kind \in {"create", "save"}
      <4>1. \/ handler'[h] = [pc |-> "write", kind |-> "create", slot |-> r, new |-> form[p].image, old |-> None, panel |-> p]
            \/ handler'[h] = [pc |-> "read", kind |-> "save", slot |-> r, new |-> form[p].image, old |-> None, panel |-> p]
        BY <3>3, SaveFormDoes
      <4> QED BY <4>1
    <3> QED BY <1>6, <3>1, <3>2, <3>3
  <2>2. kv' = kv
    BY <1>6 DEF Remove, Drop, SaveForm, storeVars
  <2>3. ~Holding(h)'
    BY <2>1 DEF Holding
  <2> QED BY <1>2, <2>2, <2>3 DEF NotDue
<1>7. ASSUME Read(h) PROVE PhotosNotDue'
  <2>1. kv' = kv /\ handler[h].pc = "read"
    BY <1>7 DEF Read, storeVars, At
  <2>2. CASE handler'[h] = Idle
    <3>1. ~Holding(h)'
      BY <2>2 DEF Holding, Idle
    <3> QED BY <1>2, <2>1, <3>1 DEF NotDue
  <2>3. CASE handler'[h] = [pc |-> "write", kind |-> handler[h].kind, slot |-> handler[h].slot,
                            new |-> handler[h].new, old |-> Current(handler[h].slot),
                            panel |-> handler[h].panel]
    <3>1. handler'[h].new = handler[h].new /\ (Holding(h)' => Holding(h))
      BY <2>1, <2>3 DEF Holding, At
    <3> QED BY <1>2, <2>1, <3>1 DEF NotDue
  <2> QED BY <1>7, <2>2, <2>3, ReadMoves
<1>8. ASSUME Write(h) \/ Insert(h) \/ DeleteRow(h) PROVE PhotosNotDue'
  <2>1. /\ kv' = kv
        /\ handler'[h].pc \in {"idle", "delete"} /\ (handler'[h].pc = "idle" => handler'[h] = Idle)
    BY <1>8, WritesRow
  <2>2. ~Holding(h)'
    BY <2>1 DEF Holding, At, Idle
  <2> QED BY <1>2, <2>1, <2>2 DEF NotDue
<1>9. ASSUME DeleteOld(h) \/ Fail(h) \/ InsertRefused(h) PROVE PhotosNotDue'
  <2>1. ~Holding(h)'
    BY <1>9, Ends DEF Holding, Idle
  <2>2. kv' = kv \/ kv' = [kv EXCEPT ![handler[h].old] = "gone"]
    BY <1>9 DEF DeleteOld, Fail, InsertRefused, storeVars
  <2>3. \A e \in Files : NotDue(e) => kv'[e] # "old"
    BY <2>2 DEF NotDue, TypeOK
  <2> QED BY <1>2, <2>1, <2>3
<1> QED BY <1>4, <1>5, <1>6, <1>7, <1>8, <1>9 DEF HandlerNext

LEMMA OthersKeepDue ==
    ASSUME TypeOK, PhotosNotDue, KnownFiles, CleanerNext \/ \E p \in Panels : PanelNext(p)
    PROVE  PhotosNotDue'
<1>1. handler' = handler
  BY CleanerStepType, PanelStepType
<1>2. \A h \in Handlers : handler'[h].new = handler[h].new /\ (Holding(h)' => Holding(h))
  BY <1>1 DEF Holding, At
<1>3. ASSUME NEW p \in Panels, PanelNext(p) PROVE PhotosNotDue'
  <2>1. drafts' = drafts /\ cleaner' = cleaner
    BY <1>3 DEF PanelNext, OpenForm, CloseForm, ClearImage, Upload, UploadAnswered, storeVars
  <2>2. \A f \in Files : NotDue(f) => kv'[f] # "old"
    <3>1. kv' = kv \/ \E f \in Files : kv' = [kv EXCEPT ![f] = "fresh"]
      BY <1>3 DEF PanelNext, OpenForm, CloseForm, ClearImage, Upload, UploadAnswered, PutTimed, Put, storeVars
    <3> QED BY <3>1 DEF NotDue, TypeOK
  <2> QED BY <1>2, <2>1, <2>2, DueKept DEF NotDue
<1>4. ASSUME NEW f \in Files, Age(f) PROVE PhotosNotDue'
  <2>1. /\ cleaner' = cleaner /\ drafts' = {r \in drafts : f \notin OwnNames[r]}
        /\ kv' = [kv EXCEPT ![f] = "old"]
        /\ \A h \in Handlers : Holding(h) => handler[h].new # f
    BY <1>4 DEF Age
  <2>2. \A e \in Files : e # f /\ NotDue(e) => NotDue(e)'
    BY <2>1 DEF NotDue, TypeOK
  <2>3. \A r \in drafts' : r \in drafts /\ \A e \in OwnNames[r] : e \in Files /\ e # f
    BY <2>1, ImageAssumption DEF TypeOK
  <2>4. \A h \in Handlers : Holding(h)' /\ handler'[h].new \in Files => NotDue(handler[h].new)'
    BY <1>1, <1>2, <2>1, <2>2 DEF PhotosNotDue
  <2>5. \A r \in drafts' : \A e \in OwnNames[r] : NotDue(e)'
    BY <2>2, <2>3 DEF PhotosNotDue
  <2> QED BY <2>4, <2>5 DEF PhotosNotDue
<1>5. ASSUME NEW f \in Files, DeleteOrphan(f) PROVE PhotosNotDue'
  <2>1. /\ drafts' = drafts /\ cleaner'.doomed \subseteq cleaner.doomed
        /\ kv' = [kv EXCEPT ![f] = "gone"]
    BY <1>5 DEF DeleteOrphan, Asleep, TypeOK
  <2>2. \A e \in Files : NotDue(e) => NotDue(e)'
    BY <2>1 DEF NotDue, TypeOK
  <2> QED BY <1>2, <2>1, <2>2, DueKept
<1>6. ASSUME ReadUsed \/ ListKeys PROVE PhotosNotDue'
  <2>1. drafts' = drafts /\ kv' = kv /\ \A f \in cleaner'.doomed : kv[f] = "old"
    BY <1>6 DEF ReadUsed, ListKeys, Asleep, storeVars
  <2>2. \A e \in Files : NotDue(e) => NotDue(e)'
    BY <2>1 DEF NotDue
  <2> QED BY <1>2, <2>1, <2>2, DueKept
<1> QED BY <1>3, <1>4, <1>5, <1>6 DEF CleanerNext

-----------------------------------------------------------------------------
\* All steps together.
LEMMA HandlerKeeps ==
    ASSUME IInv, NEW h \in Handlers, HandlerNext(h)
    PROVE  RowsExist' /\ KnownFiles' /\ HeldFilesPrivate' /\ ImagesSecure'
<1> DEFINE Goal == RowsExist' /\ KnownFiles' /\ HeldFilesPrivate' /\ ImagesSecure'
<1>0. TypeOK /\ HandlersOK /\ RowsExist
  BY DEF IInv
<1>1. ASSUME NEW s \in Slots, NEW f \in Files, Replace(h, s, f) PROVE Goal
  <2>1. /\ OnlyMoves(h)
        /\ handler'[h] = [pc |-> "read", kind |-> "replace", slot |-> s, new |-> f, old |-> None, panel |-> None]
        /\ handler[h].pc = "idle"
        /\ f \in Timed /\ kv[f] = "none" /\ kv' = [kv EXCEPT ![f] = "fresh"]
        /\ UNCHANGED <<exists, image, form, upload, cleaner, condemned>>
    BY <1>0, <1>1, ReplaceDoes
  <2>2. handler'[h].new = f /\ handler'[h].old = None /\ Stores(s, f)
    BY <2>1 DEF Stores
  <2> QED BY <2>1, <2>2, StoresKeep
<1>2. ASSUME NEW r \in Drafts, NEW f \in Files \cup {None}, Add(h, r, f) PROVE Goal
  <2>1. /\ OnlyMoves(h)
        /\ handler'[h] = [pc |-> "write", kind |-> "add", slot |-> r, new |-> f, old |-> None, panel |-> None]
        /\ handler[h].pc = "idle"
        /\ (f \in Files /\ Stores(r, f)) \/ (f = None /\ kv' = kv)
        /\ UNCHANGED <<exists, image, form, upload, cleaner, condemned>>
    BY <1>0, <1>2, AddDoes
  <2>2. handler'[h].new = f /\ handler'[h].old = None /\ handler'[h].pc = "write"
    BY <2>1
  <2>3. r \in Slots
    BY ImageAssumption DEF Slots
  <2>4. CASE f \in Files /\ Stores(r, f)
    BY <2>1, <2>2, <2>3, <2>4, StoresKeep
  <2>5. CASE f = None /\ kv' = kv
    <3>1. FormsStay
      BY <1>0, <2>1, Typed DEF FormsStay
    <3>2. None \notin Timed
      BY ImageAssumption DEF Timed
    <3> QED BY <2>1, <2>2, <2>5, <3>1, <3>2, NotesKeep
  <2> QED BY <2>1, <2>4, <2>5
<1>3. ASSUME NEW s \in Slots, Remove(h, s) PROVE Goal
  <2>1. /\ OnlyMoves(h)
        /\ handler'[h] = [pc |-> "write", kind |-> "remove", slot |-> s, new |-> None, old |-> Current(s), panel |-> None]
        /\ UNCHANGED <<kv, exists, image, form, upload, cleaner, condemned>>
    BY <1>0, <1>3, RemoveDoes
  <2>2. /\ handler'[h].pc # "delete" /\ ~Holding(h)'
        /\ handler'[h].new = None /\ handler'[h].slot = s /\ handler'[h].old = Current(s)
    BY <2>1 DEF Holding
  <2>3. FormsStay
    BY <1>0, <2>1, Typed DEF FormsStay
  <2> QED BY <2>1, <2>2, <2>3, NotesKeep
<1>4. ASSUME NEW r \in Rows, Drop(h, r) PROVE Goal
  <2>1. /\ OnlyMoves(h)
        /\ handler'[h] = [pc |-> "write", kind |-> "drop", slot |-> r, new |-> None, old |-> Current(r), panel |-> None]
        /\ UNCHANGED <<kv, exists, image, form, upload, cleaner, condemned>>
    BY <1>0, <1>4, DropDoes
  <2>2. /\ handler'[h].pc # "delete" /\ ~Holding(h)'
        /\ handler'[h].new = None /\ handler'[h].slot = r /\ handler'[h].old = Current(r)
    BY <2>1 DEF Holding
  <2>3. FormsStay
    BY <1>0, <2>1, Typed DEF FormsStay
  <2>4. r \in Slots
    BY DEF Slots
  <2> QED BY <2>1, <2>2, <2>3, <2>4, NotesKeep
<1>5. ASSUME NEW p \in Panels, NEW r \in Rows, SaveForm(h, p, r) PROVE Goal
  <2>1. /\ OnlyMoves(h)
        /\ \/ handler'[h] = [pc |-> "write", kind |-> "create", slot |-> r, new |-> form[p].image, old |-> None, panel |-> p]
           \/ handler'[h] = [pc |-> "read", kind |-> "save", slot |-> r, new |-> form[p].image, old |-> None, panel |-> p]
        /\ form' = [form EXCEPT ![p].pc = "waiting"]
        /\ UNCHANGED <<kv, exists, image, upload, cleaner, condemned>>
    BY <1>0, <1>5, SaveFormDoes
  <2>2. /\ handler'[h].pc # "delete" /\ ~Holding(h)'
        /\ handler'[h].new = form[p].image /\ handler'[h].old = None
    BY <2>1 DEF Holding
  <2>3. FormsStay
    BY <1>0, <2>1, Typed DEF FormsStay, FormType
  <2> QED BY <2>1, <2>2, <2>3, NotesKeep
<1>6. ASSUME Read(h) PROVE Goal
  <2>1. /\ OnlyMoves(h)
        /\ \/ handler'[h] = Idle /\ FormsStay
           \/ /\ handler'[h] = [pc |-> "write", kind |-> handler[h].kind, slot |-> handler[h].slot,
                                new |-> handler[h].new, old |-> Current(handler[h].slot),
                                panel |-> handler[h].panel]
              /\ UNCHANGED form
    BY <1>0, <1>6, ReadMoves
  <2>2. /\ UNCHANGED <<kv, exists, image, upload, cleaner, condemned>>
        /\ handler[h].pc = "read"
    BY <1>6 DEF Read, storeVars, At
  <2>3. FormsStay
    BY <1>0, <2>1, Typed DEF FormsStay
  <2>4. CASE handler'[h] = Idle
    <3>1. handler'[h].pc # "delete" /\ ~Holding(h)' /\ handler'[h].old = None /\ handler'[h].new = None
      BY <2>4 DEF Idle, Holding, At
    <3> QED BY <2>1, <2>2, <2>3, <3>1, NotesKeep
  <2>5. CASE handler'[h] = [pc |-> "write", kind |-> handler[h].kind, slot |-> handler[h].slot,
                            new |-> handler[h].new, old |-> Current(handler[h].slot),
                            panel |-> handler[h].panel]
    <3>1. /\ handler'[h].pc # "delete" /\ handler'[h].old = Current(handler'[h].slot)
          /\ handler'[h].new = handler[h].new
          /\ Holding(h)' => Holding(h)
      BY <2>2, <2>5 DEF Holding, At
    <3>2. handler'[h].slot \in Slots \/ handler'[h].old = None
      BY <1>0, <2>5, ImageAssumption DEF TypeOK, Current, Present, Slots
    <3> QED BY <2>1, <2>2, <2>3, <3>1, <3>2, NotesKeep
  <2> QED BY <2>1, <2>4, <2>5
<1>7. ASSUME Write(h) \/ Insert(h) \/ DeleteRow(h) PROVE Goal
  BY <1>0, <1>7, WritesRow, WritesKeepKnown, WritesKeepPrivate, WritesKeepSecure
<1>8. ASSUME DeleteOld(h) \/ Fail(h) \/ InsertRefused(h) PROVE Goal
  BY <1>8, EndsKeep
<1> QED BY <1>1, <1>2, <1>3, <1>4, <1>5, <1>6, <1>7, <1>8 DEF HandlerNext

LEMMA InitSafe == Init => IInv
<1> SUFFICES ASSUME Init PROVE IInv
  OBVIOUS
<1>1. TypeOK /\ HandlersOK
  BY InitType DEF Init, HandlersOK, HandlerOK, Idle
<1>2. /\ \A h \in Handlers : handler[h] = Idle
      /\ \A p \in Panels : form[p] = Closed /\ upload[p] = None
      /\ cleaner = Asleep
      /\ \A f \in Files : kv[f] = IF Referring(f) = {} THEN "none"
                              ELSE IF f \in Timed THEN "old" ELSE "fresh"
      /\ \A s \in Slots : image[s] # None => Present(s) /\ Referring(image[s]) = {s}
  BY DEF Init
<1>3. \A s \in Slots : image[s] \in Files => kv[image[s]] \in {"fresh", "old"}
  BY <1>2 DEF Referring
<1>4. RowsExist
  BY <1>2 DEF RowsExist
<1>5. KnownFiles
  BY <1>2, <1>3, ImageAssumption DEF KnownFiles, Idle, Closed, Asleep
<1>6. HeldFilesPrivate
  BY <1>2 DEF HeldFilesPrivate, Holding, Idle
<1>8. OwnPlaces
  <2> SUFFICES ASSUME NEW r \in Drafts, NEW f \in OwnNames[r] PROVE OwnPlace(r, f)
    BY DEF OwnPlaces
  <2>1. f # None /\ \A s \in Slots \ {r} : image[s] # f
    BY ImageAssumption DEF Init
  <2> QED BY <1>2, <2>1 DEF OwnPlace, Idle, Closed
<1>9. PhotosNotDue
  <2>1. \A h \in Handlers : ~Holding(h)
    BY <1>2 DEF Holding, Idle
  <2>2. ASSUME NEW r \in Drafts, NEW f \in OwnNames[r] PROVE NotDue(f)
    BY <1>2, ImageAssumption DEF NotDue, Asleep, Timed
  <2>3. drafts \subseteq Drafts
    BY DEF Init
  <2> QED BY <2>1, <2>2, <2>3 DEF PhotosNotDue
<1>7. ImagesSecure
  <2> SUFFICES ASSUME NEW s \in Slots, image[s] \in Files \ condemned PROVE Secure(s, image[s])
    BY DEF ImagesSecure
  <2>1. \A t \in Slots : image[t] = image[s] => t = s
    BY <1>2, ImageAssumption DEF Referring
  <2> QED BY <1>2, <1>3, <2>1, ImageAssumption DEF Secure, Stored, Idle, Asleep
<1> QED BY <1>1, <1>4, <1>5, <1>6, <1>7, <1>8, <1>9 DEF IInv

LEMMA StepSafe == IInv /\ [Next]_vars => IInv'
<1> SUFFICES ASSUME IInv, [Next]_vars PROVE IInv'
  OBVIOUS
<1>1. TypeOK' /\ HandlersOK'
  BY TypingKept DEF IInv
<1>2. CASE UNCHANGED vars
  <2>1. RowsExist' /\ KnownFiles' /\ HeldFilesPrivate' /\ ImagesSecure'
    BY <1>2, FormsKeep DEF vars
  <2>2. OwnPlaces' /\ PhotosNotDue'
    BY <1>2 DEF IInv, vars, OwnPlaces, OwnPlace, PhotosNotDue, NotDue, Holding, At
  <2> QED BY <1>1, <2>1, <2>2 DEF IInv
<1>3. CASE Next
  <2>1. RowsExist' /\ KnownFiles' /\ HeldFilesPrivate' /\ ImagesSecure'
    BY <1>3, HandlerKeeps, PanelKeeps, CleanerKeeps DEF Next
  <2>2. OwnPlaces'
    BY <1>3, HandlerKeepsPlaces, PanelKeepsPlaces, CleanerKeepsPlaces DEF IInv, Next
  <2>3. PhotosNotDue'
    BY <1>3, HandlerKeepsDue, OthersKeepDue DEF IInv, Next
  <2> QED BY <1>1, <2>1, <2>2, <2>3 DEF IInv
<1> QED BY <1>2, <1>3

-----------------------------------------------------------------------------
\* The inductive invariant holds of every behaviour. An upload under a timed name
\* is known to its handler alone until its row refers to it; the photos of one
\* dialogue share a name, which turns up with the dialogue's row only and which no
\* clean-up collects before the dialogue is over; and a file that a row refers to,
\* and that was not lost when it got there, is stored, referred to by that row
\* alone and going to be deleted by nobody but a handler that has yet to write
\* that row (handleImageStep, saveSiteImage, updateProduct, deleteOrphanImages).
THEOREM ImagesAreSecure == Spec => []IInv
BY InitSafe, StepSafe, PTL DEF Spec

\* No product, category, logo or cover refers to a deleted file, however the
\* uploads, forms, removals and clean-ups interleave and fail, unless a form put
\* a lost file there (updateProduct) or a photo of a dialogue one whose name had
\* been used, and deleted, before (handleImageStep).
THEOREM NoDeadImageAlways == Spec => []NoDeadImage
<1>1. IInv => NoDeadImage
  BY DEF IInv, ImagesSecure, Secure, NoDeadImage
<1> QED BY <1>1, ImagesAreSecure, PTL

\* A handler that replaces the image it has read goes on to delete that file
\* (PRODUCTS_KV.delete after setProductImage and its like).
THEOREM CollectsAlways == Spec => CollectsWhatItReplaces
<1> DEFINE Collects == \A s \in Slots, h \in Handlers :
          /\ image[s] \in Files /\ image'[s] # image[s]
          /\ At(h, "write") /\ handler[h].slot = s /\ handler'[h] # handler[h]
          /\ handler[h].old = image[s]
          => handler'[h].pc = "delete" /\ handler'[h].old = image[s]
<1>1. IInv /\ [Next]_vars => [Collects]_vars
  <2> SUFFICES ASSUME IInv, Next, NEW s \in Slots, NEW h \in Handlers,
                      image[s] \in Files, image'[s] # image[s],
                      At(h, "write"), handler[h].slot = s, handler'[h] # handler[h],
                      handler[h].old = image[s]
               PROVE  handler'[h].pc = "delete" /\ handler'[h].old = image[s]
    BY DEF Collects
  <2>1. TypeOK /\ HandlersOK /\ RowsExist
    BY DEF IInv
  <2>2. HandlerNext(h)
    <3>1. ASSUME NEW g \in Handlers, HandlerNext(g) PROVE g = h
      BY <2>1, <3>1, HandlerStepType DEF OnlyMoves, HandlersOK
    <3>2. ASSUME NEW p \in Panels, PanelNext(p) PROVE FALSE
      BY <2>1, <3>2, PanelStepType
    <3>3. ASSUME CleanerNext PROVE FALSE
      BY <2>1, <3>3, CleanerStepType
    <3> QED BY <3>1, <3>2, <3>3 DEF Next
  <2>3. Write(h) \/ Insert(h) \/ DeleteRow(h)
    BY <2>2 DEF HandlerNext, Replace, Add, Remove, Drop, SaveForm, Begin, Read,
                InsertRefused, DeleteOld, Fail, At, storeVars
  <2>4. Proceed(h) /\ image'[s] = handler[h].new
    <3>1. HandlerOK(h)
      BY <2>1 DEF HandlersOK
    <3>2. CASE Write(h)
      BY <2>1, <3>2 DEF Write, TypeOK
    <3>3. CASE Insert(h)
      BY <2>1, <3>3 DEF Insert, TypeOK
    <3>4. CASE DeleteRow(h)
      BY <2>1, <3>1, <3>4 DEF DeleteRow, HandlerOK, TypeOK
    <3> QED BY <2>3, <3>2, <3>3, <3>4
  <2>5. handler[h].old \notin {None, handler[h].new}
    BY <2>4, ImageAssumption
  <2>6. handler'[h] = [pc |-> "delete", kind |-> handler[h].kind, slot |-> handler[h].slot,
                       new |-> handler[h].new, old |-> handler[h].old, panel |-> handler[h].panel]
    BY <2>1, <2>4, <2>5, ProceedMoves
  <2> QED BY <2>6
<1> QED BY <1>1, ImagesAreSecure, PTL DEF Spec, CollectsWhatItReplaces
=============================================================================
