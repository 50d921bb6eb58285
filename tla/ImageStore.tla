----------------------------- MODULE ImageStore -----------------------------
(***************************************************************************)
(* The image files (KV keys image:<name>) and the rows that refer to them: *)
(* products and categories in D1, logo and cover in site_settings.         *)
(*                                                                         *)
(* Every operation that changes an image works in steps, each a call that  *)
(* others can interleave with and that can fail: put the new file, read    *)
(* the row for the old path, write the row, delete the old file. The panel *)
(* moreover edits an image in a form, which is uploaded to, held and       *)
(* submitted at the admin's pace, and cleanupyes (maintenance.js) deletes  *)
(* the files older than a day that no row refers to.                       *)
(*                                                                         *)
(* Most names carry the time of the upload, so that no two uploads take    *)
(* the same one. The photo of a new product does not: it is called after   *)
(* the id that the bot's dialogue holds, and every photo that answers the  *)
(* dialogue, those of an album too, is put under that name and adds that   *)
(* row. What a row says besides its image is left out.                     *)
(***************************************************************************)
EXTENDS Naturals, FiniteSets

CONSTANTS
    Rows,       \* ids of products and categories, taken or not yet
    Site,       \* kinds of site image: logo, cover
    Files,      \* names an upload can take
    Drafts,     \* ids of new rows that dialogues of the bot have drawn
    OwnNames,   \* OwnNames[r]: the names <id>.<ext> of draft r; a category's has none
    None,       \* no image
    NewRow,     \* what a form edits that is to create a row
    Handlers,   \* requests and updates that may be handled at the same time
    Panels,     \* open panels, each with one form
    MaxRequests,\* bound on the number of requests and updates handled
    MaxFaults   \* bound on the number of faults

ASSUME ImageAssumption ==
    /\ Rows \cap Site = {}
    /\ Drafts \subseteq Rows
    /\ OwnNames \in [Drafts -> SUBSET Files]
    /\ \A q, r \in Drafts : q # r => OwnNames[q] \cap OwnNames[r] = {}
    /\ NewRow \notin Rows \cup Site
    /\ None \notin Files \cup Rows \cup Site \cup Panels \cup {NewRow}
    /\ {MaxRequests, MaxFaults} \subseteq Nat

VARIABLES
    kv,         \* kv[f]: "none" | "fresh" (uploaded less than a day ago) | "old" | "gone"
    exists,     \* the rows of products and categories that exist
    image,      \* image[s]: the file that row or setting s refers to
    drafts,     \* the drafts that a photo, sent or still to be sent, may yet add
    handler,    \* handler[h]: the local variables of a running handler
    form,       \* form[p]: the product or category form of panel p
    upload,     \* upload[p]: the stored upload that panel p is to hear of
    cleaner,    \* the local variables of deleteOrphanImages
    requests,   \* number of requests and updates so far
    faults,     \* number of faults so far
    condemned   \* files that were lost already when a form, or a photo of a
                \* draft, put them into a row

storeVars == <<kv, exists, image, drafts>>
vars == <<kv, exists, image, drafts, handler, form, upload, cleaner, requests, faults,
          condemned>>

-----------------------------------------------------------------------------
Slots == Rows \cup Site

Stored(f) == kv[f] \in {"fresh", "old"}

Idle == [pc |-> "idle", kind |-> "none", slot |-> None, new |-> None, old |-> None, panel |-> None]

Closed == [pc |-> "closed", slot |-> None, image |-> None]

Asleep == [pc |-> "idle", used |-> {}, doomed |-> {}]

At(h, pc) == handler[h].pc = pc

Goto(h, pc) == handler' = [handler EXCEPT ![h].pc = pc]

End(h) == handler' = [handler EXCEPT ![h] = Idle]

Referring(f) == {s \in Slots : image[s] = f}

Begin(h, pc, kind, s, new, old, p) ==
    /\ At(h, "idle")
    /\ requests < MaxRequests
    /\ requests' = requests + 1
    /\ handler' = [handler EXCEPT ![h] = [pc |-> pc, kind |-> kind, slot |-> s,
                                          new |-> new, old |-> old, panel |-> p]]

\* Names that carry the time of their upload.
Timed == Files \ UNION {OwnNames[r] : r \in Drafts}

\* The id that a request of the panel draws for the row it adds (newProductId,
\* newCategoryId).
FreshId(r) ==
    /\ r \notin exists \cup Drafts
    /\ \A h \in Handlers : handler[h].slot # r
    /\ \A p \in Panels : form[p].slot # r

Present(s) == s \in exists \cup Site

Current(s) == IF Present(s) THEN image[s] ELSE None

\* PRODUCTS_KV.put: whatever is stored under the name is overwritten.
Put(f) == kv' = [kv EXCEPT ![f] = "fresh"]

PutTimed(f) == f \in Timed /\ kv[f] = "none" /\ Put(f)

\* A photo for a product, a category, the logo or the cover (handleImageStep,
\* saveSiteImage): first the file, then the row.
Replace(h, s, f) ==
    /\ PutTimed(f)
    /\ Begin(h, "read", "replace", s, f, None, None)
    /\ UNCHANGED <<exists, image, drafts, form, upload, cleaner, faults, condemned>>

\* A photo, or the words for none, answers the last question of a new product or
\* category (new_product_image, new_category_image). The id is the session's,
\* which other photos of the dialogue hold as well or have used already.
Add(h, r, f) ==
    /\ r \in drafts
    /\ \/ f \in OwnNames[r] /\ Put(f)
       \/ OwnNames[r] = {} /\ PutTimed(f)
       \/ f = None /\ UNCHANGED kv
    /\ Begin(h, "write", "add", r, f, None, None)
    /\ UNCHANGED <<exists, image, drafts, form, upload, cleaner, faults, condemned>>

\* rmimg, removeSiteImage: the row is read first.
Remove(h, s) ==
    /\ Begin(h, "write", "remove", s, None, Current(s), None)
    /\ UNCHANGED <<storeVars, form, upload, cleaner, faults, condemned>>

\* delprodyes, delcatyes, DELETE /products/<id>, DELETE /categories/<id>. The
\* panel's requests end here when there is no row.
Drop(h, r) ==
    /\ Begin(h, "write", "drop", r, None, Current(r), None)
    /\ UNCHANGED <<storeVars, form, upload, cleaner, faults, condemned>>

-----------------------------------------------------------------------------
(* The form of the panel. *)

\* openProductModal, openCategoryModal: the form shows the image of the list as
\* it was loaded. A form that is opened from a list loaded long ago is a form
\* that has been open since.
OpenForm(p, s) ==
    /\ form[p].pc = "closed"
    /\ s \in exists \cup {NewRow}
    /\ form' = [form EXCEPT ![p] = [pc |-> "editing", slot |-> s,
                                    image |-> IF s = NewRow THEN None ELSE image[s]]]
    /\ UNCHANGED <<storeVars, handler, upload, cleaner, faults, requests, condemned>>

CloseForm(p) ==
    /\ form[p].pc = "editing"
    /\ form' = [form EXCEPT ![p] = Closed]
    /\ UNCHANGED <<storeVars, handler, upload, cleaner, faults, requests, condemned>>

\* The button that empties the image field.
ClearImage(p) ==
    /\ form[p].pc = "editing"
    /\ form[p].image # None
    /\ form' = [form EXCEPT ![p].image = None]
    /\ UNCHANGED <<storeVars, handler, upload, cleaner, faults, requests, condemned>>

\* handleFilePicked, processAndUpload, POST /upload: the file is stored before
\* any row refers to it.
Upload(p, f) ==
    /\ form[p].pc = "editing"
    /\ upload[p] = None
    /\ PutTimed(f)
    /\ upload' = [upload EXCEPT ![p] = f]
    /\ UNCHANGED <<exists, image, drafts, handler, form, cleaner, faults, requests, condemned>>

\* The answer's path goes to the image field, of whichever form is open by then.
\* An answer that is lost is one that never comes.
UploadAnswered(p) ==
    /\ upload[p] # None
    /\ upload' = [upload EXCEPT ![p] = None]
    /\ form' = IF form[p].pc = "closed" THEN form
               ELSE [form EXCEPT ![p].image = upload[p]]
    /\ UNCHANGED <<storeVars, handler, cleaner, requests, faults, condemned>>

\* saveProduct, saveCategory: the image goes with the request, changed or not.
SaveForm(h, p, r) ==
    /\ form[p].pc = "editing"
    /\ IF form[p].slot = NewRow
       THEN /\ FreshId(r)
            /\ Begin(h, "write", "create", r, form[p].image, None, p)
       ELSE /\ r = form[p].slot
            /\ Begin(h, "read", "save", r, form[p].image, None, p)
    /\ form' = [form EXCEPT ![p].pc = "waiting"]
    /\ UNCHANGED <<storeVars, upload, cleaner, faults, condemned>>

-----------------------------------------------------------------------------
(* The steps of a handler. *)

\* An error leaves the panel's form open, to be saved again.
Reopen(h) ==
    form' = [p \in Panels |->
                IF handler[h].panel = p THEN [form[p] EXCEPT !.pc = "editing"] ELSE form[p]]

\* The answer closes the form. One that is lost is an error to the panel.
Answer(h) ==
    \/ /\ form' = [p \in Panels |-> IF handler[h].panel = p THEN Closed ELSE form[p]]
       /\ UNCHANGED faults
    \/ /\ handler[h].panel # None
       /\ faults < MaxFaults
       /\ faults' = faults + 1
       /\ Reopen(h)

\* findProduct, findCategory, getSiteConfig. The panel's PUT goes no further
\* without the row (404); the bot goes on, with nothing to write to.
FromPanel(h) == handler[h].panel # None

Read(h) ==
    LET s == handler[h].slot
    IN  /\ At(h, "read")
        /\ IF FromPanel(h) /\ ~Present(s)
           THEN End(h) /\ Reopen(h)
           ELSE /\ handler' = [handler EXCEPT ![h].pc = "write", ![h].old = Current(s)]
                /\ UNCHANGED form
        /\ UNCHANGED <<storeVars, upload, cleaner, requests, faults, condemned>>

\* Mutant for TypeOK: the old file goes even if the row keeps it.
ProceedAlways(h) ==
    IF handler[h].old = None
    THEN End(h) /\ Answer(h)
    ELSE Goto(h, "delete") /\ UNCHANGED <<form, faults>>

\* Mutant for CollectsWhatItReplaces: only an image taken away is deleted.
ProceedIfRemoved(h) ==
    IF handler[h].old = None \/ handler[h].new # None
    THEN End(h) /\ Answer(h)
    ELSE Goto(h, "delete") /\ UNCHANGED <<form, faults>>

\* The old file goes unless the row keeps it; otherwise h is done.
Proceed(h) ==
    IF handler[h].old \in {None, handler[h].new}
    THEN End(h) /\ Answer(h)
    ELSE Goto(h, "delete") /\ UNCHANGED <<form, faults>>

\* File f has been deleted, or another handler than h is about to.
Deleted(h, f) ==
    \/ ~Stored(f)
    \/ \E g \in Handlers \ {h} : handler[g].old = f /\ At(g, "delete")

\* File f is lost already, or about to be, if h puts it into its row.
Lost(h, f) ==
    \/ Deleted(h, f)
    \/ Referring(f) \ {handler[h].slot} # {}
    \/ \E g \in Handlers \ {h} : handler[g].old = f /\ handler[g].slot # handler[h].slot
    \/ f \in cleaner.doomed
    \/ cleaner.pc = "reading" /\ kv[f] = "old" /\ f \notin cleaner.used

Condemn(h) ==
    condemned' = condemned \cup
        {f \in {handler[h].new} \cap Files :
            (FromPanel(h) /\ Lost(h, f)) \/ (f \notin Timed /\ Deleted(h, f))}

\* setProductImage, setCategoryImage, setSiteSetting, updateProduct, updateCategory.
Write(h) ==
    LET s == handler[h].slot
    IN  /\ At(h, "write")
        /\ handler[h].kind \in {"replace", "remove", "save"}
        /\ Proceed(h)
        /\ IF Present(s)
           THEN Condemn(h) /\ image' = [image EXCEPT ![s] = handler[h].new]
           ELSE UNCHANGED <<image, condemned>>
        /\ UNCHANGED <<kv, exists, drafts, upload, cleaner, requests>>

\* addProduct, addCategory throw: the primary key is taken, by another photo of
\* the same dialogue.
InsertRefused(h) ==
    /\ At(h, "write")
    /\ handler[h].kind \in {"add", "create"}
    /\ handler[h].slot \in exists
    /\ End(h)
    /\ Reopen(h)
    /\ UNCHANGED <<storeVars, upload, cleaner, requests, faults, condemned>>

\* addProduct, addCategory.
Insert(h) ==
    LET r == handler[h].slot
    IN  /\ At(h, "write")
        /\ handler[h].kind \in {"add", "create"}
        /\ r \notin exists
        /\ Proceed(h)
        /\ exists' = exists \cup {r}
        /\ image' = [image EXCEPT ![r] = handler[h].new]
        /\ Condemn(h)
        /\ UNCHANGED <<kv, drafts, upload, cleaner, requests>>

\* deleteProduct, deleteCategory.
DeleteRow(h) ==
    LET r == handler[h].slot
    IN  /\ At(h, "write")
        /\ handler[h].kind = "drop"
        /\ Proceed(h)
        /\ exists' = exists \ {r}
        /\ image' = [image EXCEPT ![r] = None]
        /\ UNCHANGED <<kv, drafts, upload, cleaner, requests, condemned>>

\* PRODUCTS_KV.delete.
DeleteOld(h) ==
    /\ At(h, "delete")
    /\ kv' = [kv EXCEPT ![handler[h].old] = "gone"]
    /\ End(h)
    /\ Answer(h)
    /\ UNCHANGED <<exists, image, drafts, upload, cleaner, requests, condemned>>

\* A call throws (KV, D1, Telegram), or the invocation is cancelled. What the
\* handler would still have written or deleted stays behind.
Fail(h) ==
    /\ ~At(h, "idle")
    /\ faults < MaxFaults
    /\ faults' = faults + 1
    /\ Reopen(h)
    /\ End(h)
    /\ UNCHANGED <<storeVars, upload, cleaner, requests, condemned>>

-----------------------------------------------------------------------------
(* cleanupyes: deleteOrphanImages. *)

Holding(h) == handler[h].kind \in {"replace", "add"} /\ ~At(h, "delete")

\* A day passes for file f. No handler takes that long between its upload and
\* its write, and no clean-up to list the keys; a form may stay open for days.
\* The dialogue that f is called after is over by then: its session was cleared,
\* replaced or has expired (TTL_SECONDS). Until then it may be answered.
Age(f) ==
    /\ kv[f] = "fresh"
    /\ \A h \in Handlers : Holding(h) => handler[h].new # f
    /\ cleaner.pc # "reading"
    /\ kv' = [kv EXCEPT ![f] = "old"]
    /\ drafts' = {r \in drafts : f \notin OwnNames[r]}
    /\ UNCHANGED <<exists, image, handler, form, upload, cleaner, requests, faults, condemned>>

\* usedImageFilenames: getProducts and getSiteConfig.
ReadUsed ==
    /\ cleaner.pc = "idle"
    /\ cleaner' = [pc |-> "reading", doomed |-> {},
                   used |-> {f \in Files : Referring(f) # {}}]
    /\ UNCHANGED <<storeVars, handler, form, upload, requests, faults, condemned>>

\* Mutant for NoDeadImage: no grace period for files that are being saved.
ListAllKeys ==
    LET orphans == {f \in Files : Stored(f) /\ f \notin cleaner.used}
    IN  /\ cleaner.pc = "reading"
        /\ cleaner' = IF orphans = {} THEN Asleep
                      ELSE [pc |-> "deleting", used |-> {}, doomed |-> orphans]
        /\ UNCHANGED <<storeVars, handler, form, upload, requests, faults, condemned>>

\* findOrphanImageKeys.
ListKeys ==
    LET orphans == {f \in Files : kv[f] = "old" /\ f \notin cleaner.used}
    IN  /\ cleaner.pc = "reading"
        /\ cleaner' = IF orphans = {} THEN Asleep
                      ELSE [pc |-> "deleting", used |-> {}, doomed |-> orphans]
        /\ UNCHANGED <<storeVars, handler, form, upload, requests, faults, condemned>>

\* deleteOrphanImages: a clean-up that fails half-way is one that stops here.
DeleteOrphan(f) ==
    /\ f \in cleaner.doomed
    /\ kv' = [kv EXCEPT ![f] = "gone"]
    /\ cleaner' = IF cleaner.doomed = {f} THEN Asleep ELSE [cleaner EXCEPT !.doomed = @ \ {f}]
    /\ UNCHANGED <<exists, image, drafts, handler, form, upload, faults, requests, condemned>>

-----------------------------------------------------------------------------
\* A dialogue may have added its row already.
Init ==
    /\ exists \in SUBSET Rows
    /\ exists # Rows
    /\ image \in [Slots -> Files \cup {None}]
    /\ \A s \in Slots : image[s] # None => Present(s) /\ Referring(image[s]) = {s}
    /\ \A r \in Drafts : \A s \in Slots \ {r} : image[s] \notin OwnNames[r]
    /\ drafts = Drafts
    /\ kv = [f \in Files |-> IF Referring(f) = {} THEN "none"
                             ELSE IF f \in Timed THEN "old" ELSE "fresh"]
    /\ handler = [h \in Handlers |-> Idle]
    /\ form = [p \in Panels |-> Closed]
    /\ upload = [p \in Panels |-> None]
    /\ cleaner = Asleep
    /\ requests = 0
    /\ faults = 0
    /\ condemned = {}

HandlerNext(h) ==
    \/ \E s \in Slots, f \in Files : Replace(h, s, f)
    \/ \E r \in Drafts, f \in Files \cup {None} : Add(h, r, f)
    \/ \E s \in Slots : Remove(h, s)
    \/ \E r \in Rows : Drop(h, r)
    \/ \E p \in Panels, r \in Rows : SaveForm(h, p, r)
    \/ Read(h) \/ Write(h) \/ Insert(h) \/ InsertRefused(h)
    \/ DeleteRow(h) \/ DeleteOld(h) \/ Fail(h)

PanelNext(p) ==
    \/ \E s \in Rows \cup {NewRow} : OpenForm(p, s)
    \/ \E f \in Files : Upload(p, f)
    \/ CloseForm(p) \/ ClearImage(p) \/ UploadAnswered(p)

CleanerNext ==
    \/ \E f \in Files : Age(f) \/ DeleteOrphan(f)
    \/ ReadUsed \/ ListKeys

Next ==
    \/ \E h \in Handlers : HandlerNext(h)
    \/ \E p \in Panels : PanelNext(p)
    \/ CleanerNext

Spec == Init /\ [][Next]_vars

-----------------------------------------------------------------------------
\* Types, and what a handler that is about to delete must hold.
TypeOK ==
    /\ kv \in [Files -> {"none", "fresh", "old", "gone"}]
    /\ exists \subseteq Rows
    /\ image \in [Slots -> Files \cup {None}]
    /\ drafts \subseteq Drafts
    /\ handler \in [Handlers ->
          [pc : {"idle", "read", "write", "delete"},
           kind : {"none", "replace", "add", "remove", "drop", "save", "create"},
           slot : Slots \cup {None}, new : Files \cup {None}, old : Files \cup {None},
           panel : Panels \cup {None}]]
    /\ form \in [Panels -> [pc : {"closed", "editing", "waiting"},
                            slot : Rows \cup {None, NewRow}, image : Files \cup {None}]]
    /\ upload \in [Panels -> Files \cup {None}]
    /\ cleaner \in [pc : {"idle", "reading", "deleting"}, used : SUBSET Files, doomed : SUBSET Files]
    /\ requests \in 0..MaxRequests
    /\ faults \in 0..MaxFaults
    /\ condemned \subseteq Files
    /\ \A h \in Handlers : At(h, "delete") => handler[h].old \in Files \ {handler[h].new}

\* No product, category, logo or cover refers to a file that has been deleted,
\* whatever is replaced, removed, dropped, saved and cleaned up at the same time
\* and wherever an operation fails, unless the file was lost already when it was
\* put there. Two writes can do that. A form's: its file was replaced since the
\* form was opened, collected while the form was open, or given to another row by
\* a first attempt to save. And that of a new product's photo, when an earlier
\* photo of the dialogue added the product and somebody deleted its row and has
\* deleted, or is about to delete, the file of that name.
NoDeadImage ==
    \A s \in Slots : image[s] \in Files \ condemned => Stored(image[s])

\* Whoever takes a file out of use goes on to delete it. Only a handler that read
\* the row before another one wrote it overwrites an image that it does not know;
\* what is left over then waits for a clean-up.
CollectsWhatItReplaces ==
    [][\A s \in Slots, h \in Handlers :
          /\ image[s] \in Files /\ image'[s] # image[s]
          /\ At(h, "write") /\ handler[h].slot = s /\ handler'[h] # handler[h]
          /\ handler[h].old = image[s]
          => handler'[h].pc = "delete" /\ handler'[h].old = image[s]]_vars
=============================================================================
