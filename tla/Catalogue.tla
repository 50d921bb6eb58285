------------------------------ MODULE Catalogue ------------------------------
(***************************************************************************)
(* The products and categories in D1 (data/products.js), as the bot and    *)
(* the panel change them at the same time, and the menu that each isolate  *)
(* keeps of them (MenuCache).                                              *)
(*                                                                         *)
(* A change is made of steps that others can come between: what it was     *)
(* asked for (a list the panel loaded, a preview the bot sent), a read, a  *)
(* write, and the answer upon which the isolate forgets its menu. Amounts  *)
(* are thousands of tomans, to which roundPrice brings every one that is   *)
(* stored; names, notes, labels, images and availability are left out.     *)
(***************************************************************************)
EXTENDS MenuCache, FiniteSets

CONSTANTS
    Products, Categories,   \* ids, taken or not yet
    Handlers,   \* requests and updates that may be handled at the same time
    Panels,     \* open panels, each with one form
    Chats,      \* chats of admins with the bot
    NotYet, Gone, None,
    Typed,      \* amounts that are typed
    Discounts,  \* discounts of one product that are typed, in percent
    Percents,   \* changes of a whole category that are typed, in percent
    MaxPrice    \* MAX_PRICE

ASSUME CatalogueAssumption ==
    /\ MaxPrice \in Nat \ {0}
    /\ Typed \subseteq 1..MaxPrice
    /\ Discounts \subseteq 1..99
    /\ Percents \subseteq (-90)..300
    /\ None \notin Panels \cup Chats \cup Products \cup Categories
    /\ Panels \cap Chats = {}
    /\ NotYet # Gone
    /\ \A x \in {NotYet, Gone} :
          x \notin [cat : Categories, price : 1..MaxPrice, original : 0..MaxPrice]

VARIABLES
    category,   \* category[c]: NotYet | "there" | Gone
    product,    \* product[p]: NotYet | a row | Gone
    handler,    \* handler[h]: the local variables of a running handler
    form,       \* form[a]: the product form of panel a
    preview     \* preview[b]: what the session of chat b holds for bulk_confirm

vars == <<revision, cacheVars, events, category, product, handler, form, preview>>

-----------------------------------------------------------------------------
(* Prices. *)

MinPrice == 1

\* roundPrice of n hundredths: Math.round rounds a half up.
RoundPrice(n) ==
    IF n <= 0 THEN 0
    ELSE LET rounded == (n + 50) \div 100 IN IF rounded < MinPrice THEN MinPrice ELSE rounded

\* The columns price and original_price, which is 0 for NULL.
Pair(price, original) == [price |-> price, original |-> original]

\* p.originalPrice ?? p.price
Base(x) == IF x.original = 0 THEN x.price ELSE x.original

\* A price that is below the base is shown with it.
Reduced(base, price) == Pair(price, IF price >= base THEN 0 ELSE base)

\* setProductDiscount.
DiscountPair(x, percent) == Reduced(Base(x), RoundPrice(Base(x) * (100 - percent)))

\* resolvePrice.
ResolvePrice(base, percent) ==
    IF percent <= 0 \/ percent >= 100 THEN Pair(base, 0)
    ELSE LET price == RoundPrice(base * (100 - percent))
         IN  IF price >= base THEN Pair(base, 0) ELSE Pair(price, base)

\* Mutant for KeepsBase: a save without a discount ends the one there is.
SavedPairResolved(price, original, percent) == ResolvePrice(price, percent)

\* updateProduct: an original price that is sent stands if it is above the price.
SavedPair(price, original, percent) ==
    IF original # 0 THEN Pair(price, IF original > price THEN original ELSE 0)
    ELSE ResolvePrice(price, percent)

\* Mutant for CatalogueTypeOK: the base is kept whatever the new price.
BulkPairKept(x, percent, price) == IF percent < 0 THEN Pair(price, Base(x)) ELSE Pair(price, 0)

\* applyCategoryPercent, for one product: an increase ends its discount.
BulkPair(x, percent, price) == IF percent < 0 THEN Reduced(Base(x), price) ELSE Pair(price, 0)

-----------------------------------------------------------------------------
(* Rows. *)

Row(cat, pair) == [cat |-> cat, price |-> pair.price, original |-> pair.original]

HasProduct(p) == product[p] \notin {NotYet, Gone}

HasCategory(c) == category[c] = "there"

InCategory(c) == {p \in Products : HasProduct(p) /\ product[p].cat = c}

\* The price columns of a row.
Priced(x, pair) == [x EXCEPT !.price = pair.price, !.original = pair.original]

\* Mutant for NoOrphanProducts: the schema without the foreign key.
ForeignKeyOff(cats, rows) == cats = cats /\ rows = rows

\* FOREIGN KEY (category) REFERENCES categories(id): D1 applies no write that
\* would leave a product without its category.
ForeignKey(cats, rows) ==
    \A p \in Products : rows[p] \notin {NotYet, Gone} => cats[rows[p].cat] = "there"

-----------------------------------------------------------------------------
(* What is asked for. *)

NoRows == [p \in {} |-> None]

Idle == [pc |-> "idle", isolate |-> None, kind |-> "none", id |-> None, cat |-> None, by |-> None,
         price |-> 0, original |-> 0, percent |-> 0, plan |-> NoRows, seen |-> NoRows]

At(h, pc) == handler[h].pc = pc

\* What is left to do needs none of what the handler has read.
Goto(h, pc) ==
    handler' = [handler EXCEPT ![h] = [Idle EXCEPT !.pc = pc, !.isolate = handler[h].isolate,
                                                   !.kind = handler[h].kind, !.by = handler[h].by]]

\* The answer to the panel: the form closes, or stays open after an error.
Reopen(h) ==
    form' = [a \in Panels |->
                IF handler[h].by = a THEN [form[a] EXCEPT !.pc = "editing"] ELSE form[a]]

Closed == [pc |-> "closed", id |-> None, was |-> None]

Close(h) == form' = [a \in Panels |-> IF handler[h].by = a THEN Closed ELSE form[a]]

\* bulkconfirm catches what applyCategoryPercent throws, and ends its session.
Catch(h) ==
    /\ IF handler[h].kind = "bulk" THEN Goto(h, "clear") ELSE handler' = [handler EXCEPT ![h] = Idle]
    /\ Reopen(h)

Begin(h, x) ==
    /\ At(h, "idle")
    /\ Event
    /\ handler' = [handler EXCEPT ![h] = x]
    /\ UNCHANGED <<revision, cacheVars, category, product, preview>>

\* edit_price, discount, rmdiscount, toggleavail and delprodyes of the bot; the
\* panel's toggle and DELETE. The product was listed.
ChangeProduct(h, i, p) ==
    /\ product[p] # NotYet
    /\ \/ \E price \in Typed :
             Begin(h, [Idle EXCEPT !.pc = "write", !.isolate = i, !.kind = "price", !.id = p, !.price = price])
       \/ \E d \in Discounts :
             Begin(h, [Idle EXCEPT !.pc = "read", !.isolate = i, !.kind = "discount", !.id = p, !.percent = d])
       \/ Begin(h, [Idle EXCEPT !.pc = "read", !.isolate = i, !.kind = "rmdiscount", !.id = p])
       \/ Begin(h, [Idle EXCEPT !.pc = "write", !.isolate = i, !.kind = "toggle", !.id = p])
       \/ Begin(h, [Idle EXCEPT !.pc = "write", !.isolate = i, !.kind = "delete", !.id = p])
    /\ UNCHANGED form

\* newProductId: no two products get the same id.
FreshProduct(p) == product[p] = NotYet /\ \A h \in Handlers : handler[h].id # p

FreshCategory(c) == category[c] = NotYet /\ \A h \in Handlers : handler[h].cat # c

\* POST /products checks the category; the bot (new_product_image) does not, and
\* gives no discount.
AddProduct(h, i, p, c) ==
    /\ FreshProduct(p)
    /\ category[c] # NotYet
    /\ \E price \in Typed, d \in Discounts \cup {0} :
          \/ Begin(h, [Idle EXCEPT !.pc = "read", !.isolate = i, !.kind = "add", !.id = p,
                                   !.cat = c, !.price = price, !.percent = d])
          \/ /\ d = 0
             /\ Begin(h, [Idle EXCEPT !.pc = "write", !.isolate = i, !.kind = "add", !.id = p,
                                      !.cat = c, !.price = price])
    /\ UNCHANGED form

\* newcat, POST /categories; delcatyes without a check and DELETE /categories with
\* one; PUT /categories and the photo of a category.
ChangeCategory(h, i, c) ==
    /\ \/ /\ FreshCategory(c)
          /\ Begin(h, [Idle EXCEPT !.pc = "write", !.isolate = i, !.kind = "newcat", !.cat = c])
       \/ /\ category[c] # NotYet
          /\ \E kind \in {"delcat", "setcat"}, pc \in {"read", "write"} :
                Begin(h, [Idle EXCEPT !.pc = pc, !.isolate = i, !.kind = kind, !.cat = c])
    /\ UNCHANGED form

\* openProductModal, on a list loaded now or long ago.
OpenForm(a, p) ==
    /\ form[a].pc = "closed"
    /\ HasProduct(p)
    /\ Event
    /\ form' = [form EXCEPT ![a] = [pc |-> "editing", id |-> p, was |-> product[p]]]
    /\ UNCHANGED <<revision, cacheVars, category, product, handler, preview>>

\* saveProduct: a form whose price and discount are as it was opened sends the
\* price and original_price of the list, any other the price and discount typed.
SaveForm(h, i, a) ==
    LET was == form[a].was
        request == [Idle EXCEPT !.pc = "read", !.isolate = i, !.id = form[a].id, !.by = a]
    IN  /\ form[a].pc = "editing"
        /\ form' = [form EXCEPT ![a].pc = "waiting"]
        /\ \E c \in Categories :
              /\ category[c] # NotYet
              /\ \/ Begin(h, [request EXCEPT !.kind = "keep", !.cat = c, !.price = was.price,
                                             !.original = was.original])
                 \/ \E price \in Typed, d \in Discounts \cup {0} :
                       Begin(h, [request EXCEPT !.kind = "save", !.cat = c, !.price = price,
                                                !.percent = d])

\* The price that a product is previewed to get.
BulkPrice(x, percent) == RoundPrice(Base(x) * (100 + percent))

\* bulk_percent: previewCategoryPercent refuses a price out of range, and there is
\* nothing to confirm in an empty category.
Preview(b, c, percent) ==
    LET found == InCategory(c)
    IN  /\ percent # 0
        /\ found # {}
        /\ \A p \in found : BulkPrice(product[p], percent) \in MinPrice..MaxPrice
        /\ Event
        /\ preview' = [preview EXCEPT ![b] =
                          [cat |-> c, percent |-> percent,
                           items |-> [p \in found |-> [was |-> product[p],
                                                       price |-> BulkPrice(product[p], percent)]]]]
        /\ UNCHANGED <<revision, cacheVars, category, product, handler, form>>

\* bulkconfirm: the handler goes by the session as it read it.
Confirm(h, i, b) ==
    /\ preview[b] # None
    /\ Begin(h, [Idle EXCEPT !.pc = "read", !.isolate = i, !.kind = "bulk", !.by = b,
                             !.cat = preview[b].cat, !.percent = preview[b].percent,
                             !.plan = preview[b].items])
    /\ UNCHANGED form

-----------------------------------------------------------------------------
(* The steps of a handler. *)

\* Mutant for BulkAsPreviewed: the prices are not compared.
AsPreviewedUnchecked(h) ==
    \A p \in DOMAIN handler[h].plan : p \in InCategory(handler[h].cat)

\* The products of the preview are still in the category, at the prices shown.
AsPreviewed(h) ==
    \A p \in DOMAIN handler[h].plan :
        p \in InCategory(handler[h].cat) /\ product[p].price = handler[h].plan[p].was.price

\* What a handler must find to go on to its write.
Found(h) ==
    LET x == handler[h]
    IN  CASE x.kind = "discount" -> HasProduct(x.id)
          [] x.kind = "rmdiscount" -> HasProduct(x.id) /\ product[x.id].original # 0
          [] x.kind \in {"keep", "save"} -> HasProduct(x.id) /\ HasCategory(x.cat)
          [] x.kind \in {"add", "setcat"} -> HasCategory(x.cat)
          [] x.kind = "delcat" -> HasCategory(x.cat) /\ InCategory(x.cat) = {}
          [] x.kind = "bulk" -> AsPreviewed(h) /\ InCategory(x.cat) # {}

\* The rows whose prices a handler works with later.
Seen(h) ==
    LET x == handler[h]
    IN  [p \in CASE x.kind \in {"discount", "rmdiscount"} -> {x.id}
                 [] x.kind = "bulk" -> DOMAIN x.plan
                 [] OTHER -> {} |-> product[p]]

\* findProduct, findCategory, countProductsInCategory, productsInCategory.
Read(h) ==
    /\ At(h, "read")
    /\ IF Found(h)
       THEN /\ handler' = [handler EXCEPT ![h].pc = "write", ![h].seen = Seen(h)]
            /\ UNCHANGED form
       ELSE Catch(h)
    /\ UNCHANGED <<revision, cacheVars, events, category, product, preview>>

\* D1 applies a write, or throws.
Apply(h, cats, rows) ==
    /\ At(h, "write")
    /\ IF ForeignKey(cats, rows)
       THEN /\ category' = cats /\ product' = rows
            /\ revision' = revision + 1
            /\ Goto(h, "return")
            /\ UNCHANGED form
       ELSE Catch(h) /\ UNCHANGED <<category, product, revision>>
    /\ UNCHANGED <<cacheVars, events, preview>>

\* UPDATE products SET ... WHERE id = ?
Update(h, x) ==
    LET p == handler[h].id
    IN  Apply(h, category, IF HasProduct(p) THEN [product EXCEPT ![p] = x] ELSE product)

SetProductPrice(h) ==
    /\ handler[h].kind = "price"
    /\ Update(h, Priced(product[handler[h].id], Pair(handler[h].price, 0)))

SetProductDiscount(h) ==
    /\ handler[h].kind = "discount"
    /\ Update(h, LET p == handler[h].id
                 IN  Priced(product[p], DiscountPair(handler[h].seen[p], handler[h].percent)))

RemoveProductDiscount(h) ==
    /\ handler[h].kind = "rmdiscount"
    /\ Update(h, LET p == handler[h].id
                 IN  Priced(product[p], Pair(handler[h].seen[p].original, 0)))

ToggleProductAvailability(h) ==
    /\ handler[h].kind = "toggle"
    /\ Update(h, product[handler[h].id])

UpdateProduct(h) ==
    LET x == handler[h]
    IN  /\ x.kind \in {"keep", "save"}
        /\ Update(h, Row(x.cat, SavedPair(x.price, x.original, x.percent)))

InsertProduct(h) ==
    LET x == handler[h]
    IN  /\ x.kind = "add"
        /\ Apply(h, category, [product EXCEPT ![x.id] =
                    Row(x.cat, ResolvePrice(x.price, x.percent))])

DeleteProduct(h) ==
    /\ handler[h].kind = "delete"
    /\ Apply(h, category, [product EXCEPT ![handler[h].id] = Gone])

\* The batch of applyCategoryPercent: all of it or nothing.
ApplyCategoryPercent(h) ==
    LET x == handler[h]
    IN  /\ x.kind = "bulk"
        /\ Apply(h, category,
                 [p \in Products |->
                    IF p \in DOMAIN x.plan /\ HasProduct(p)
                    THEN Priced(product[p], BulkPair(x.seen[p], x.percent, x.plan[p].price))
                    ELSE product[p]])

InsertCategory(h) ==
    /\ handler[h].kind = "newcat"
    /\ Apply(h, [category EXCEPT ![handler[h].cat] = "there"], product)

UpdateCategory(h) ==
    /\ handler[h].kind = "setcat"
    /\ Apply(h, category, product)

DeleteCategory(h) ==
    /\ handler[h].kind = "delcat"
    /\ Apply(h, [category EXCEPT ![handler[h].cat] = Gone], product)

\* The write is known to be done: the isolate forgets its menu.
Return(h) ==
    /\ At(h, "return")
    /\ Invalidate(handler[h].isolate)
    /\ IF handler[h].kind = "bulk"
       THEN Goto(h, "clear") /\ UNCHANGED form
       ELSE handler' = [handler EXCEPT ![h] = Idle] /\ Close(h)
    /\ UNCHANGED <<revision, events, category, product, preview>>

\* clearSession after bulkconfirm, and after the message that comes before it.
ClearSession(h) ==
    /\ At(h, "clear")
    /\ preview' = [preview EXCEPT ![handler[h].by] = None]
    /\ handler' = [handler EXCEPT ![h] = Idle]
    /\ UNCHANGED <<revision, cacheVars, events, category, product, form>>

\* A call throws or its answer is lost, which after a write leaves the menu of the
\* isolate as it was; or the invocation is cancelled, and nothing is caught.
Fail(h) ==
    /\ ~At(h, "idle")
    /\ Event
    /\ \/ ~At(h, "clear") /\ Catch(h)
       \/ handler' = [handler EXCEPT ![h] = Idle] /\ Reopen(h)
    /\ UNCHANGED <<revision, cacheVars, category, product, preview>>

\* The admin closes the form (closeLayer).
CloseForm(a) ==
    /\ form[a].pc = "editing"
    /\ form' = [form EXCEPT ![a] = Closed]
    /\ UNCHANGED <<revision, cacheVars, events, category, product, handler, preview>>

\* bulkcancel, cancel, or another dialogue.
CancelPreview(b) ==
    /\ preview[b] # None
    /\ preview' = [preview EXCEPT ![b] = None]
    /\ UNCHANGED <<revision, cacheVars, events, category, product, handler, form>>

-----------------------------------------------------------------------------
Rows == {x \in [cat : Categories, price : MinPrice..MaxPrice, original : 0..MaxPrice] : x.original # 0 => x.price < x.original}

Init ==
    /\ CacheInit
    /\ category \in [Categories -> {NotYet, "there"}]
    /\ product \in [Products -> Rows \cup {NotYet}]
    /\ \A p \in Products : HasProduct(p) => HasCategory(product[p].cat)
    /\ handler = [h \in Handlers |-> Idle]
    /\ form = [a \in Panels |-> Closed]
    /\ preview = [b \in Chats |-> None]

HandlerNext(h) ==
    \/ \E i \in Isolates :
          \/ \E p \in Products : ChangeProduct(h, i, p)
          \/ \E p \in Products, c \in Categories : AddProduct(h, i, p, c)
          \/ \E c \in Categories : ChangeCategory(h, i, c)
          \/ \E a \in Panels : SaveForm(h, i, a)
          \/ \E b \in Chats : Confirm(h, i, b)
    \/ Read(h) \/ Return(h) \/ ClearSession(h) \/ Fail(h)
    \/ SetProductPrice(h) \/ SetProductDiscount(h) \/ RemoveProductDiscount(h)
    \/ ToggleProductAvailability(h) \/ UpdateProduct(h) \/ InsertProduct(h)
    \/ DeleteProduct(h) \/ ApplyCategoryPercent(h)
    \/ InsertCategory(h) \/ UpdateCategory(h) \/ DeleteCategory(h)

AdminNext ==
    \/ \E a \in Panels : CloseForm(a) \/ \E p \in Products : OpenForm(a, p)
    \/ \E b \in Chats : \/ CancelPreview(b)
                        \/ \E c \in Categories, percent \in Percents : Preview(b, c, percent)

Next ==
    \/ \E h \in Handlers : HandlerNext(h)
    \/ AdminNext
    \/ CacheNext /\ UNCHANGED <<category, product, handler, form, preview>>

Spec == Init /\ [][Next]_vars

-----------------------------------------------------------------------------
Kinds == {"none", "price", "discount", "rmdiscount", "toggle", "delete", "add", "newcat",
          "setcat", "delcat", "keep", "save", "bulk"}

Plans == UNION {[S -> [was : Rows, price : MinPrice..MaxPrice]] : S \in SUBSET Products}

\* Types; what is stored in particular: every price in its range, and an original
\* price above the price if there is one, whatever was computed from what.
CatalogueTypeOK ==
    /\ CacheTypeOK
    /\ category \in [Categories -> {NotYet, "there", Gone}]
    /\ product \in [Products -> Rows \cup {NotYet, Gone}]
    /\ \A h \in Handlers :
          /\ handler[h].pc \in {"idle", "read", "write", "return", "clear"}
          /\ handler[h].isolate \in Isolates \cup {None}
          /\ handler[h].kind \in Kinds
          /\ handler[h].id \in Products \cup {None}
          /\ handler[h].cat \in Categories \cup {None}
          /\ handler[h].by \in Panels \cup Chats \cup {None}
          /\ handler[h].plan \in Plans
    /\ form \in [Panels -> [pc : {"closed", "editing", "waiting"}, id : Products \cup {None},
                            was : Rows \cup {None}]]
    /\ \A b \in Chats : preview[b] # None => preview[b].items \in Plans

\* Every product has a category, whoever adds, moves and deletes between the
\* check that a category is empty and its deletion.
NoOrphanProducts == \A p \in Products : HasProduct(p) => HasCategory(product[p].cat)

Writes(h) == At(h, "write") /\ handler'[h].pc = "return"

\* A discount, its removal, a discount of a category and a save of a form whose
\* price was not touched leave the base price where it is, unless a price was
\* changed between what they go by and their write.
KeepsBase ==
    [][\A h \in Handlers : Writes(h) =>
          LET x == handler[h]
              kept(p, y) == product[p] # Gone /\ Pair(product[p].price, product[p].original)
                                                  = Pair(y.price, y.original)
                            => Base(product'[p]) = Base(y)
          IN  CASE x.kind \in {"discount", "rmdiscount"} -> kept(x.id, x.seen[x.id])
                [] x.kind = "keep" -> kept(x.id, x)
                [] x.kind = "bulk" /\ x.percent < 0 ->
                      \A p \in DOMAIN x.plan : x.seen[p] = x.plan[p].was => kept(p, x.seen[p])
                [] OTHER -> TRUE]_vars

\* Confirming a change of a category brings each product from the price that was
\* previewed to the one that was, however often it is confirmed and whatever has
\* changed since, unless a price changes after the check of the confirmation.
BulkAsPreviewed ==
    [][\A h \in Handlers : Writes(h) /\ handler[h].kind = "bulk" =>
          \A p \in DOMAIN handler[h].plan :
              product[p] = handler[h].seen[p] =>
                  /\ product[p].price = handler[h].plan[p].was.price
                  /\ product'[p].price = handler[h].plan[p].price]_vars
=============================================================================
