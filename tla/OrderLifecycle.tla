--------------------------- MODULE OrderLifecycle ---------------------------
(***************************************************************************)
(* What the orders table promises to everybody who uses it, whatever the   *)
(* number of admins and of places (Telegram buttons, web panel) they work  *)
(* from: an order is placed once, is decided at most once, keeps the       *)
(* verdict it was given, and at most one caller is told that its own       *)
(* verdict is the one that counted.                                        *)
(***************************************************************************)
CONSTANTS
    Orders,     \* identities of the rows a run may insert
    Calls       \* invocations of resolveOrder

VARIABLES
    status,     \* status[o]: "none" until the row exists, then the column
    told        \* told[o]: the pairs <<call, verdict>> told "you decided o"

Verdicts == {"confirmed", "rejected"}

lifecycleVars == <<status, told>>

Init ==
    /\ status = [o \in Orders |-> "none"]
    /\ told = [o \in Orders |-> {}]

Place(o) ==
    /\ status[o] = "none"
    /\ status' = [status EXCEPT ![o] = "pending"]
    /\ UNCHANGED told

\* The deciding call learns that it decided.
Decide(o, c, v) ==
    /\ status[o] = "pending"
    /\ status' = [status EXCEPT ![o] = v]
    /\ told' = [told EXCEPT ![o] = {<<c, v>>}]

\* The decision is stored but its caller never hears of it.
DecideUnheard(o, v) ==
    /\ status[o] = "pending"
    /\ status' = [status EXCEPT ![o] = v]
    /\ UNCHANGED told

Next ==
    \E o \in Orders :
        \/ Place(o)
        \/ \E v \in Verdicts :
              \/ DecideUnheard(o, v)
              \/ \E c \in Calls : Decide(o, c, v)

Spec == Init /\ [][Next]_lifecycleVars
=============================================================================
