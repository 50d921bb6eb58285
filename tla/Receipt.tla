------------------------------- MODULE Receipt -------------------------------
(***************************************************************************)
(* The receipt that replaces the cart when an order is recorded, and the   *)
(* polling of the order's status that draws on it                          *)
(* (startOrderStatusPolling in public/js/script.js), on top of Storefront. *)
(*                                                                         *)
(* A polling of one order is a chain of timers and requests. The page has  *)
(* one variable for the timer of whichever chain set one last, and a chain *)
(* draws on whichever receipt is there. Intervals, and the words for       *)
(* confirmed and rejected, are left out.                                   *)
(***************************************************************************)
EXTENDS Storefront

NoReceipt == 0

VARIABLES
    receipt,    \* [row, decided]: the order it is for and what it says of it
    chain,      \* chain[i]: where the polling of order i is
    handle,     \* orderStatusPollTimer: the order whose chain set it last
    crowded     \* history: another chain was alive when the receipt was drawn

receiptVars == <<receipt, chain, handle, crowded>>

Blank == [row |-> NoReceipt, decided |-> FALSE]

\* Mutant for ReceiptTells: the timer of the receipt before is left running.
ClearedNot == chain

\* clearTimeout(orderStatusPollTimer): a chain that awaits its answer, or whose
\* timer another chain has replaced, goes on.
Cleared ==
    [j \in DOMAIN chain |-> IF j = handle /\ chain[j] = "timer" THEN "none" ELSE chain[j]]

ReceiptInit ==
    /\ StoreInit
    /\ receipt = Blank
    /\ chain = [i \in 1..MaxRows |-> "none"]
    /\ handle = NoReceipt
    /\ crowded = FALSE

-----------------------------------------------------------------------------
\* submitOrder on success: the receipt of order i, and its polling.
Draw(i) ==
    /\ receipt' = [row |-> i, decided |-> FALSE]
    /\ chain' = [Cleared EXCEPT ![i] = "timer"]
    /\ handle' = i
    /\ crowded' = \E j \in DOMAIN chain \ {i} :
                    chain[j] \notin {"none", "timer"} \/ (chain[j] = "timer" /\ j # handle)

\* renderCart puts the cart in the place of the receipt; the chains are not told.
Hide == receipt' = Blank /\ UNCHANGED <<chain, handle, crowded>>

\* A load of the page.
Restart ==
    /\ receipt' = Blank
    /\ chain' = [i \in 1..MaxRows |-> "none"]
    /\ handle' = NoReceipt
    /\ UNCHANGED crowded

\* The timer of a chain: it ends without a receipt or after 15 minutes, waits
\* again if the page is hidden, and asks otherwise.
Fire(i) ==
    /\ chain[i] = "timer"
    /\ \/ chain' = [chain EXCEPT ![i] = "none"] /\ UNCHANGED handle
       \/ receipt.row # NoReceipt /\ UNCHANGED chain /\ handle' = i
       \/ /\ receipt.row # NoReceipt
          /\ chain' = [chain EXCEPT ![i] = "asked"]
          /\ UNCHANGED handle
    /\ UNCHANGED <<receipt, crowded>>

\* GET /api/orders/<publicId>/status.
ServeStatus(i) ==
    /\ chain[i] = "asked"
    /\ chain' = [chain EXCEPT ![i] = IF rows[i].pending THEN "waits" ELSE "decided"]
    /\ UNCHANGED <<receipt, handle, crowded>>

\* The answer, or its failure (429, 404, no connection), after which the chain
\* asks again. A decision is written on the receipt there is by now.
Told(i) ==
    /\ chain[i] \in {"asked", "waits", "decided"}
    /\ \/ chain' = [chain EXCEPT ![i] = "timer"] /\ handle' = i /\ UNCHANGED receipt
       \/ /\ chain[i] = "decided"
          /\ chain' = [chain EXCEPT ![i] = "none"]
          /\ receipt' = IF receipt.row = NoReceipt THEN receipt ELSE [receipt EXCEPT !.decided = TRUE]
          /\ UNCHANGED handle
    /\ UNCHANGED crowded

-----------------------------------------------------------------------------
ReceiptNext ==
    \/ (EditCart \/ RefreshCart) /\ Hide
    \/ (Reload \/ ScanCode) /\ Restart
    \/ (PickTable \/ ApplySite \/ Submit \/ FetchFails \/ LoseRequest) /\ UNCHANGED receiptVars
    \/ \E w \in Workers :
        /\ Answer(w)
        /\ IF worker[w].reply \in {"created", "duplicate"} THEN Draw(worker[w].row)
           ELSE UNCHANGED receiptVars
    \/ \E w \in Workers : (Arrive(w) \/ LoseAnswer(w)) /\ UNCHANGED receiptVars
    \/ (\E w \in Workers : HandlerStep(w)) /\ UNCHANGED <<storeVars, receiptVars>>
    \/ (\E i \in RowIds : Decide(i) \/ LeaveWindow(i)) /\ UNCHANGED <<storeVars, receiptVars>>
    \/ (\E i \in RowIds : Fire(i) \/ ServeStatus(i) \/ Told(i)) /\ UNCHANGED vars

ReceiptSpec == ReceiptInit /\ [][ReceiptNext]_<<vars, receiptVars>>

-----------------------------------------------------------------------------
\* A receipt that says that its order has been decided is right: it is not told
\* of an order that the same phone sent before, unless the page was still asking
\* for that one when the receipt was drawn (startOrderStatusPolling).
ReceiptTells ==
    receipt.row # NoReceipt /\ receipt.decided /\ ~crowded => ~rows[receipt.row].pending
=============================================================================
