------------------------------- MODULE Dialogs -------------------------------
(***************************************************************************)
(* The dialogs of the storefront (public/js/script.js) and the browser's   *)
(* history: the product modal, the sort sheet, the cart, the table popup   *)
(* over the cart, and the menu of a narrow screen.                         *)
(*                                                                         *)
(* A dialog pushes an entry when it opens, so that the phone's Back closes *)
(* it. Buttons that close one call history.back() as long as the current   *)
(* entry is the dialog's, and popstate closes it, later; otherwise they    *)
(* close it at once. Choosing a table closes the popup after 180 ms, and   *)
(* the modal is faded out for 220 ms.                                      *)
(*                                                                         *)
(* The links of the header push an entry too, which names no dialog; so    *)
(* entries of dialogs can have entries of links below them.                *)
(*                                                                         *)
(* Every entry is one step of the same page; what was shown before the     *)
(* page, or was left over by a reload, is below entry 0.                   *)
(***************************************************************************)
EXTENDS Integers

CONSTANT MaxHistory     \* bound on the entries, a natural number

VARIABLES
    open,       \* the elements with class open
    closing,    \* the modal has class closing: it is being faded out
    timer,      \* modalCloseTimer is set
    picked,     \* timers of tables that have been chosen
    locks,      \* scrollLockCount
    trail,      \* trail[n]: the dialog named by the state of entry n, or "none"
    at,         \* the current entry
    last,       \* the last entry
    pending,    \* calls of history.back() that the browser has not carried out
    left,       \* the page has been left
    forward,    \* history: Forward has been pressed to a dialog's entry, or from a dialog
    doubled     \* history: two traversals at once, or one for a closed dialog

historyVars == <<trail, at, last, pending, left, forward, doubled>>
dialogVars == <<open, closing, timer, picked, locks, historyVars>>

-----------------------------------------------------------------------------
Dialogs == {"modal", "sort", "cart", "table"}

\* Shown, and not on the way out.
Shown == open \cap (IF closing THEN Dialogs \ {"modal"} ELSE Dialogs)

\* topDialog
Top ==
    IF "table" \in Shown THEN "table"
    ELSE IF "cart" \in Shown THEN "cart"
    ELSE IF "sort" \in Shown THEN "sort"
    ELSE IF "modal" \in Shown THEN "modal" ELSE "none"

\* syncDialogInert: header, page, footer and the cart's bar take no events.
Inert == Top # "none"

\* lockScroll, unlockScroll
Locked == locks + 1
Unlocked == IF locks > 0 THEN locks - 1 ELSE 0

\* history.pushState: the entries that Forward led to are gone.
Push(d) ==
    /\ at < MaxHistory
    /\ trail' = [trail EXCEPT ![at + 1] = d]
    /\ at' = at + 1
    /\ last' = at + 1
    /\ UNCHANGED <<pending, left, forward, doubled>>

\* openModal; clearTimeout(modalCloseTimer).
OpenModal ==
    /\ ~Inert
    /\ open' = open \cup {"modal"}
    /\ closing' = FALSE /\ timer' = FALSE
    /\ Push("modal")
    /\ UNCHANGED <<picked, locks>>

\* openSortModal, openCart.
OpenSheet(d) ==
    /\ ~Inert /\ d \notin open
    /\ open' = open \cup {d}
    /\ locks' = Locked
    /\ Push(d)
    /\ UNCHANGED <<closing, timer, picked>>

\* openTableModal, from the cart.
OpenTable ==
    /\ Top = "cart"
    /\ open' = open \cup {"table"}
    /\ Push("table")
    /\ UNCHANGED <<closing, timer, picked, locks>>

\* navToggle; closeMobileNav by Escape.
ToggleNav ==
    /\ ~Inert
    /\ IF "nav" \in open THEN open' = open \ {"nav"} /\ locks' = Unlocked
       ELSE open' = open \cup {"nav"} /\ locks' = Locked
    /\ UNCHANGED <<closing, timer, picked, historyVars>>

\* A link of the header to a part of the page: the logo, or one of the menu, which
\* closes the menu if it is open. The browser pushes an entry with no state, or
\* replaces the one that has that fragment already; its popstate finds nothing to
\* close.
FollowLink ==
    /\ ~Inert
    /\ \/ UNCHANGED <<open, locks>>
       \/ "nav" \in open /\ open' = open \ {"nav"} /\ locks' = Unlocked
    /\ \/ Push("none")
       \/ /\ trail' = [trail EXCEPT ![at] = "none"]
          /\ UNCHANGED <<at, last, pending, left, forward, doubled>>
    /\ UNCHANGED <<closing, timer, picked>>

-----------------------------------------------------------------------------
\* closeModal, closeSortModal, closeCart, closeTableModal.
CloseNow(d) ==
    /\ open' = IF d = "modal" THEN open ELSE open \ {d}
    /\ IF d = "modal" /\ d \in Shown THEN closing' = TRUE /\ timer' = TRUE
       ELSE UNCHANGED <<closing, timer>>
    /\ locks' = IF d \in open \cap {"sort", "cart"} THEN Unlocked ELSE locks

\* handleClose, requestCloseSort, requestCloseCart, handleTableClose.
RequestClose(d) ==
    IF trail[at] = d
    THEN /\ pending' = pending + 1
         /\ doubled' = (doubled \/ pending > 0 \/ d \notin Shown)
         /\ UNCHANGED <<open, closing, timer, locks, trail, at, last, left, forward>>
    ELSE CloseNow(d) /\ UNCHANGED historyVars

\* The cross, the backdrop, a swipe down, a way of sorting.
PressClose ==
    /\ Inert
    /\ RequestClose(Top)
    /\ UNCHANGED picked

\* Escape: the modal counts while it fades out.
Escape ==
    /\ \/ Inert /\ RequestClose(Top)
       \/ ~Inert /\ "modal" \in open /\ RequestClose("modal")
    /\ UNCHANGED picked

\* A table is chosen; handleTableClose is called later, and maybe more than once.
ChooseTable ==
    /\ Top = "table"
    /\ picked' = picked + 1
    /\ UNCHANGED <<open, closing, timer, locks, historyVars>>

PickedTimer ==
    /\ picked > 0
    /\ picked' = picked - 1
    /\ RequestClose("table")

\* The timer of closeModal.
FadedOut ==
    /\ timer
    /\ open' = open \ {"modal"}
    /\ closing' = FALSE /\ timer' = FALSE
    /\ UNCHANGED <<picked, locks, historyVars>>

-----------------------------------------------------------------------------
\* popstate: the table popup alone, or all the rest.
PopState ==
    IF "table" \in open THEN CloseNow("table")
    ELSE /\ open' = open \ {"cart", "sort"}
         /\ IF "modal" \in Shown THEN closing' = TRUE /\ timer' = TRUE
            ELSE UNCHANGED <<closing, timer>>
         /\ locks' = IF {"cart", "sort"} \subseteq open THEN IF locks > 1 THEN locks - 2 ELSE 0
                     ELSE IF {"cart", "sort"} \cap open # {} THEN Unlocked ELSE locks

Back ==
    /\ UNCHANGED <<trail, last, forward>>
    /\ IF at > 0
       THEN PopState /\ at' = at - 1 /\ UNCHANGED left
       ELSE left' = TRUE /\ UNCHANGED <<open, closing, timer, locks, at>>

\* The browser carries out a history.back() of the page.
Traverse ==
    /\ pending > 0
    /\ pending' = pending - 1
    /\ Back
    /\ UNCHANGED <<picked, doubled>>

PressBack ==
    /\ Back
    /\ doubled' = (doubled \/ pending > 0)
    /\ UNCHANGED <<picked, pending>>

PressForward ==
    /\ at < last
    /\ at' = at + 1
    /\ forward' = (forward \/ Inert \/ trail[at + 1] # "none")
    /\ PopState
    /\ UNCHANGED <<picked, trail, last, pending, left, doubled>>

-----------------------------------------------------------------------------
\* A load of the page; a reload keeps the state of the entry.
DialogsInit ==
    /\ open = {} /\ closing = FALSE /\ timer = FALSE /\ picked = 0 /\ locks = 0
    /\ \E d \in Dialogs \cup {"none"} : trail = [n \in 0..MaxHistory |-> IF n = 0 THEN d ELSE "none"]
    /\ at = 0 /\ last = 0 /\ pending = 0
    /\ left = FALSE /\ forward = FALSE /\ doubled = FALSE

DialogsNext ==
    /\ ~left
    /\ \/ OpenModal \/ OpenTable \/ ToggleNav \/ FollowLink
       \/ \E d \in {"sort", "cart"} : OpenSheet(d)
       \/ PressClose \/ Escape \/ ChooseTable \/ PickedTimer \/ FadedOut
       \/ Traverse \/ PressBack \/ PressForward

DialogsSpec == DialogsInit /\ [][DialogsNext]_dialogVars

-----------------------------------------------------------------------------
DialogsTypeOK ==
    /\ open \subseteq Dialogs \cup {"nav"}
    /\ closing \in BOOLEAN /\ timer \in BOOLEAN
    /\ left \in BOOLEAN /\ forward \in BOOLEAN /\ doubled \in BOOLEAN
    /\ picked \in Nat /\ locks \in Nat /\ pending \in Nat
    /\ trail \in [0..MaxHistory -> Dialogs \cup {"none"}]
    /\ at \in 0..MaxHistory /\ last \in 0..MaxHistory /\ at <= last

\* The page is locked while the menu, the sort sheet or the cart is open, and no
\* longer: no order of opening and closing leaves it locked (lockScroll).
LocksMatch ==
    locks = (IF "nav" \in open THEN 1 ELSE 0) + (IF "sort" \in open THEN 1 ELSE 0)
            + (IF "cart" \in open THEN 1 ELSE 0)

\* The dialogs that are shown: the popup lies over the cart, the others alone.
Depth == IF Top = "none" THEN 0 ELSE IF Top = "table" THEN 2 ELSE 1

\* Back closes what is on top and nothing else, and moves through the page or leaves
\* it only when nothing is open: the entries that name a dialog are the last ones,
\* and they name the dialogs that are shown, in their order, unless Forward has been
\* pressed to a dialog's entry (the comment on handleTableClose).
EntriesMatch ==
    ~forward =>
        /\ at >= Depth
        /\ \A n \in 1..at : trail[n] = IF n <= at - Depth THEN "none"
                                      ELSE IF n = at THEN Top ELSE "cart"

\* "Each Escape one layer", and popstate one too: no step closes two dialogs.
OneLayer == [][\A d, e \in Shown : d \notin Shown' /\ e \notin Shown' => d = e]_dialogVars

\* A modal that is opened while the last one fades out stays: what the timer
\* takes away was closed (openModal, closeModal).
FadesOnlyClosed == [][\A d \in Shown : FadedOut => d \in Shown']_dialogVars

\* The page is left by its visitor's Back only, never by its own history.back(),
\* unless two traversals were under way at once.
NotByItself == [][Traverse /\ ~forward /\ ~doubled => ~left']_dialogVars
=============================================================================
