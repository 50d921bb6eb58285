----------------------------- MODULE Storefront -----------------------------
(***************************************************************************)
(* One customer's phone (public/js/script.js) in front of OrderIntake: the *)
(* cart and the table, kept in sessionStorage; the key of the checkout     *)
(* attempt, kept only in the page; and the requests and answers, which the *)
(* network may delay or lose. Keys are random, so two phones never share   *)
(* one: other customers only matter through the limits and the menu.       *)
(*                                                                         *)
(* The phone shows a menu and opening hours of its own, any age old, so    *)
(* what it reads from them may be any value.                               *)
(***************************************************************************)
EXTENDS OrderIntake

CONSTANTS
    PhoneIp,        \* the address of the phone
    MaxWishes,      \* bound on the changes the customer makes
    MaxTries        \* bound on the presses of the checkout button

ASSUME StorefrontAssumption ==
    /\ PhoneIp \in Ips \cup {NoIp}
    /\ MaxWishes \in Nat /\ MaxTries \in Nat

VARIABLES
    phone,      \* the page's variables and its sessionStorage
    tries,      \* the presses so far; each is one POST
    net,        \* the POSTs that have not reached the worker: <<try, request>>
    serving,    \* serving[w]: the try whose request w handles
    wish,       \* history: how often the customer changed the order
    renewed,    \* history: wishes whose key the page dropped by itself
    sent        \* history: sent[k]: the <<wish, table, lines>> sent under key k

storeVars == <<phone, tries, net, serving, wish, renewed, sent>>
vars == <<intakeVars, storeVars>>

-----------------------------------------------------------------------------
NoTry == 0

\* busyWith is the try that checkoutBusy stands for.
EmptyPhone ==
    [cart |-> {}, table |-> 0, signed |-> FALSE, key |-> NoKey, busyWith |-> NoTry,
     saved |-> [cart |-> {}, table |-> 0, signed |-> FALSE]]

\* Mutant of SaveCart: the key survives the change.
SaveCartKeepKey(p) ==
    [p EXCEPT !.saved = [cart |-> p.cart, table |-> p.table, signed |-> p.signed]]

\* saveCart: store cart and table, and forget the key.
SaveCart(p) ==
    [p EXCEPT !.key = NoKey,
              !.saved = [cart |-> p.cart, table |-> p.table, signed |-> p.signed]]

\* The first load, from the QR code of a table or without one.
StoreInit ==
    /\ Init
    /\ \E t \in 0..MaxTable : phone = SaveCart([EmptyPhone EXCEPT !.table = t])
    /\ tries = 0
    /\ net = {}
    /\ serving = [w \in Workers |-> NoTry]
    /\ wish = 0 /\ renewed = {}
    /\ sent = [k \in Keys |-> {}]

\* A change the customer makes; one the page makes by itself.
CustomerChanges(p) ==
    /\ wish < MaxWishes
    /\ wish' = wish + 1
    /\ phone' = SaveCart(p)
    /\ UNCHANGED renewed

PageChanges(p) ==
    /\ phone' = p
    /\ renewed' = IF p.key # phone.key THEN renewed \cup {wish} ELSE renewed
    /\ UNCHANGED wish

-----------------------------------------------------------------------------
(* The page.                                                               *)

\* addToCart, changeQty, removeFromCart and the clear button; a quantity is not
\* part of the model, so the set of products may stay the same.
EditCart ==
    /\ \E cart \in SUBSET Products :
          cart \cup phone.cart # {} /\ CustomerChanges([phone EXCEPT !.cart = cart])
    /\ UNCHANGED <<intakeVars, tries, net, serving, sent>>

\* A table picked by hand drops the signature of the QR code.
PickTable ==
    /\ \E t \in Tables : CustomerChanges([phone EXCEPT !.table = t, !.signed = FALSE])
    /\ UNCHANGED <<intakeVars, tries, net, serving, sent>>

\* restoreCart on a new load: products that are gone or sold out are dropped,
\* and sessionStorage is rewritten when one was sold out.
Restored(kept, rewrite) ==
    LET p == [EmptyPhone EXCEPT !.cart = phone.saved.cart \cap kept,
                                !.table = phone.saved.table,
                                !.signed = phone.saved.signed,
                                !.saved = phone.saved]
    IN IF rewrite THEN SaveCart(p) ELSE p

\* A reload; the request that is under way is forgotten, not withdrawn.
Reload ==
    /\ \E kept \in SUBSET Products, rewrite \in BOOLEAN :
          /\ rewrite => ~(phone.saved.cart \subseteq kept)
          /\ PageChanges(Restored(kept, rewrite))
    /\ UNCHANGED <<intakeVars, tries, net, serving, sent>>

\* The site settings reach the page: a table they no longer have is deselected,
\* and neither the key nor sessionStorage hears of it.
ApplySite ==
    /\ \E tableCount \in Tables :
          phone.table > tableCount /\ PageChanges([phone EXCEPT !.table = 0])
    /\ UNCHANGED <<intakeVars, tries, net, serving, sent>>

\* The page is opened from the QR code of a table.
ScanCode ==
    /\ \E kept \in SUBSET Products, t \in Tables, signed \in BOOLEAN :
          CustomerChanges([Restored(kept, FALSE) EXCEPT !.table = t, !.signed = signed])
    /\ UNCHANGED <<intakeVars, tries, net, serving, sent>>

\* refreshCartProducts when its fetch returns: something was dropped, or only
\* a price or a name has changed. The cart may have been sent meanwhile.
RefreshCart ==
    /\ phone.cart # {}
    /\ \E kept \in SUBSET phone.cart :
          PageChanges(SaveCart([phone EXCEPT !.cart = kept]))
    /\ UNCHANGED <<intakeVars, tries, net, serving, sent>>

\* Mutant of KeyToSend: a new key for every press.
KeyToSendFresh(k) == sent[k] = {}

\* The key of the attempt, or a new one.
KeyToSend(k) == IF phone.key = NoKey THEN sent[k] = {} ELSE k = phone.key

\* Mutant of MaySubmit: no table is asked for.
MaySubmitAnywhere == phone.busyWith = NoTry /\ phone.cart # {}

\* The button is disabled while a try is under way; table and cart are checked.
MaySubmit == phone.busyWith = NoTry /\ phone.table # 0 /\ phone.cart # {}

\* submitOrder up to its fetch.
Submit ==
    /\ MaySubmit
    /\ tries < MaxTries
    /\ \E k \in Keys :
          LET r == [key |-> k, ip |-> PhoneIp, table |-> phone.table,
                    lines |-> phone.cart, signed |-> phone.signed, honeypot |-> FALSE]
          IN
          /\ KeyToSend(k)
          /\ phone' = [phone EXCEPT !.key = k, !.busyWith = tries + 1]
          /\ net' = net \cup {<<tries + 1, r>>}
          /\ sent' = [sent EXCEPT ![k] = @ \cup {<<wish, phone.table, phone.cart>>}]
    /\ tries' = tries + 1
    /\ UNCHANGED <<intakeVars, serving, wish, renewed>>

\* The answer to the try under way: an order empties the cart, "unavailable"
\* removes the product it names (if it is still in the cart), and any other
\* answer leaves everything, the key included, for the next press.
Answer(w) ==
    LET kind == worker[w].reply
        released == [phone EXCEPT !.busyWith = NoTry]
        ordered == kind \in {"created", "duplicate"}
    IN
    /\ At(w, "replied") /\ serving[w] = phone.busyWith /\ serving[w] # NoTry
    /\ \/ /\ ordered
          /\ phone' = SaveCart([released EXCEPT !.cart = {}])
          /\ UNCHANGED <<wish, renewed>>
       \/ /\ kind = "unavailable"
          /\ \E x \in phone.cart : PageChanges(SaveCart([released EXCEPT !.cart = @ \ {x}]))
       \/ ~ordered /\ PageChanges(released)
    /\ Finish(w)
    /\ serving' = [serving EXCEPT ![w] = NoTry]
    /\ UNCHANGED <<tries, net, sent>>

\* The fetch rejects: the connection broke before or after the request arrived.
FetchFails ==
    /\ phone.busyWith # NoTry
    /\ PageChanges([phone EXCEPT !.busyWith = NoTry])
    /\ UNCHANGED <<intakeVars, tries, net, serving, sent>>

-----------------------------------------------------------------------------
(* The network.                                                            *)

Arrive(w) ==
    /\ \E m \in net :
          /\ Receive(w, m[2])
          /\ net' = net \ {m}
          /\ serving' = [serving EXCEPT ![w] = m[1]]
    /\ UNCHANGED <<phone, tries, wish, renewed, sent>>

LoseRequest ==
    /\ \E m \in net : net' = net \ {m}
    /\ UNCHANGED <<intakeVars, phone, tries, serving, wish, renewed, sent>>

\* The answer finds nobody: the page was reloaded or has given up, or will.
LoseAnswer(w) ==
    /\ Finish(w)
    /\ serving' = [serving EXCEPT ![w] = NoTry]
    /\ UNCHANGED <<phone, tries, net, wish, renewed, sent>>

-----------------------------------------------------------------------------
StoreNext ==
    \/ EditCart \/ PickTable \/ Reload \/ ApplySite \/ ScanCode \/ RefreshCart
    \/ Submit \/ FetchFails \/ LoseRequest
    \/ \E w \in Workers : Answer(w) \/ Arrive(w) \/ LoseAnswer(w)
    \/ (\E w \in Workers : HandlerStep(w)) /\ UNCHANGED storeVars
    \/ (\E i \in RowIds : Decide(i) \/ LeaveWindow(i)) /\ UNCHANGED storeVars

StoreSpec == StoreInit /\ [][StoreNext]_vars

-----------------------------------------------------------------------------
(* Properties.                                                             *)

SavedType == [cart : SUBSET Products, table : 0..MaxTable, signed : BOOLEAN]

\* The type of the phone, the network and the histories.
StoreTypeOK ==
    /\ phone \in [cart : SUBSET Products, table : 0..MaxTable, signed : BOOLEAN,
                  key : Keys \cup {NoKey}, busyWith : 0..MaxTries, saved : SavedType]
    /\ tries \in 0..MaxTries
    /\ net \subseteq (1..MaxTries) \X Requests
    /\ serving \in [Workers -> 0..MaxTries]
    /\ wish \in 0..MaxWishes
    /\ renewed \subseteq 0..MaxWishes
    /\ sent \in [Keys -> SUBSET ((0..MaxWishes) \X Tables \X SUBSET Products)]

WishesOf(i) == {m[1] : m \in sent[rows[i].key]}

\* What the comment on IDEMPOTENCY_KEY_RE promises: an order that the customer
\* has not changed is recorded once, however often it is sent.
RecordedOnce ==
    \A i, j \in RowIds : i # j => WishesOf(i) \cap WishesOf(j) = {}

\* The promise holds as long as the page itself did not drop the key: answers
\* and requests may be lost or late, retries may overtake each other or overlap
\* the handler of the first try, lookups may fail.
RecordedOnceUnlessKeyDropped ==
    \A i, j \in RowIds : i # j => WishesOf(i) \cap WishesOf(j) \subseteq renewed

\* A key stands for one cart at one table, so the row that answers a retry is
\* the order that the customer sent, also when the cart was edited meanwhile.
KeyMeansOneOrder ==
    /\ \A k \in Keys : Cardinality(sent[k]) <= 1
    /\ \A i \in RowIds : \A m \in sent[rows[i].key] :
          rows[i].table = m[2] /\ rows[i].lines = m[3]
=============================================================================
