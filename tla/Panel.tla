-------------------------------- MODULE Panel --------------------------------
(***************************************************************************)
(* A page of the admin panel (public/admin/admin.js) and the routes that   *)
(* it calls: the session, the poll of the orders' summary, and the lists   *)
(* that a changed summary refreshes.                                       *)
(*                                                                         *)
(* Requests are handled and answered in any order, and any of them may get *)
(* lost, before or after the server handled it. Orders are their ids; of   *)
(* those that are pending only the number is kept, which is what the       *)
(* summary tells. The lists are shown without a filter.                    *)
(***************************************************************************)
EXTENDS AdminAuth, Sequences, FiniteSets

CONSTANTS
    Slots,      \* requests of the page that may be under way at a time
    None,
    PageLimit,  \* orders asked for at a time: 50
    HeadLimit,  \* orders asked for by a refresh: 100
    Openings,   \* what db may be when the page is opened
    MaxOrders,  \* bound on the ids
    MaxEvents   \* bound on what people and the clock do, and on answers that get lost

Kinds == {"me", "login", "logout", "summary", "pending", "load", "more", "head", "resolve"}

ASSUME PanelAssumption ==
    /\ {PageLimit, HeadLimit} \subseteq Nat \ {0}
    /\ {MaxOrders, MaxEvents} \subseteq Nat
    /\ Openings \subseteq {d \in [latest : 0..MaxOrders, pending : 0..MaxOrders] :
                              d.pending <= d.latest}
    /\ IsFiniteSet(Slots)
    /\ None \notin Slots \cup Kinds \cup {"ok", "unread", "refused"}

VARIABLES
    db,         \* [latest, pending]: the ids given, and how many orders wait
    cookie,     \* admin_token in the browser
    page,       \* [screen, loggedIn, tab]
    poll,       \* the object poll, with its timer as a flag
    list,       \* [orders, hasMore, drawn]: the tab of orders, and two marks
    net,        \* net[s]: a request under way
    note,       \* history: see Noted
    events

panelVars == <<db, cookie, page, poll, list, net, note>>
vars == <<authVars, panelVars, events>>

Tabs == {"dashboard", "orders", "other"}

\* Orders are added, and pending ones decided: a number for each such state.
Version == 2 * db.latest - db.pending

-----------------------------------------------------------------------------
(* Requests. *)

\* Those that ask for the list that a tab shows, from its newest order on.
ListsOf(tab) ==
    CASE tab = "dashboard" -> {"pending"}
      [] tab = "orders" -> {"load", "head"}
      [] OTHER -> {}

Lists == UNION {ListsOf(tab) : tab \in Tabs}

NoSummary == [pending |-> 0, latest |-> 0, at |-> 0, torn |-> FALSE]

\* The call, and what the server has made of it: status and then, by the kind,
\* the rows of a list and the version they are of, a summary or the token of a login.
NoRequest == [pc |-> "free", kind |-> None, token |-> NoToken, before |-> 0,
              status |-> None, rows |-> <<>>, at |-> 0, summary |-> NoSummary, issued |-> NoToken]

Request(kind, token) == [NoRequest EXCEPT !.pc = "sent", !.kind = kind, !.token = token]

Calls(kinds, token) == {Request(k, token) : k \in kinds}

Under(kind) == {s \in Slots : net[s].kind = kind}

\* Requests calls are sent when those of gone are over.
Post(gone, calls) ==
    \E to \in [calls -> {s \in Slots : net[s].pc = "free"} \cup gone] :
        /\ \A c, d \in calls : c # d => to[c] # to[d]
        /\ net' = [s \in Slots |->
                     IF \E c \in calls : to[c] = s THEN CHOOSE c \in calls : to[c] = s
                     ELSE IF s \in gone THEN NoRequest
                     ELSE net[s]]

\* The history that the properties refer to:
\*   asked   the version when a list was last asked for
\*   shown   the version of the list that the tab shows, 0 if it shows none yet
\*   lost    since a list was last asked for, a request for it failed, or an
\*           answer of an older version took the place of a newer one
\*   doubt   a summary that came since then could not be compared: see Comparable
\*   strays  the summaries under way when the poll was last stopped
\* What is noted of calls of some kinds:
Noted(kinds, doubt) ==
    IF kinds \cap Lists # {} THEN [note EXCEPT !.asked = Version, !.doubt = FALSE, !.lost = FALSE]
    ELSE [note EXCEPT !.doubt = doubt]

\* ... of a tab that is drawn anew, whose list is to come:
NotedOpening(kinds) == [Noted(kinds, note.doubt) EXCEPT !.shown = 0]

\* ... of a list that takes the place of the one shown, and of one that failed to come.
NotedShown(at) == [note EXCEPT !.shown = at, !.lost = @ \/ at < note.shown]

NotedLost == [note EXCEPT !.lost = TRUE]

-----------------------------------------------------------------------------
(* The poll. Each operator gives the new poll and the requests it makes.   *)

\* Mutant for OneAtATime: pollTick sends whether or not a summary is under way.
TickAnyway(p, loggedIn) ==
    IF ~(p.active /\ loggedIn) THEN [poll |-> p, calls |-> {}]
    ELSE [poll |-> [p EXCEPT !.busy = TRUE], calls |-> {"summary"}]

\* pollTick, up to its request.
Tick(p, loggedIn) ==
    IF ~(p.active /\ loggedIn) THEN [poll |-> p, calls |-> {}]
    ELSE IF p.busy THEN [poll |-> [p EXCEPT !.queued = TRUE], calls |-> {}]
    ELSE [poll |-> [p EXCEPT !.busy = TRUE], calls |-> {"summary"}]

\* pollNow.
PollNow(p, loggedIn) ==
    IF p.active /\ loggedIn THEN Tick([p EXCEPT !.timer = FALSE], loggedIn)
    ELSE [poll |-> p, calls |-> {}]

\* Mutant for PollingGoesOn: a queued request is dropped with the flag.
AfterwardsForgetful(p, loggedIn) ==
    LET q == [p EXCEPT !.busy = FALSE, !.queued = FALSE] IN
    [poll |-> IF ~p.queued /\ p.active /\ loggedIn THEN [q EXCEPT !.timer = TRUE] ELSE q,
     calls |-> {}]

\* The finally of pollTick.
Afterwards(p, loggedIn) ==
    LET q == [p EXCEPT !.busy = FALSE, !.queued = FALSE] IN
    IF p.queued THEN Tick(q, loggedIn)
    ELSE [poll |-> IF p.active /\ loggedIn THEN [q EXCEPT !.timer = TRUE] ELSE q, calls |-> {}]

\* startPolling.
Started(p) == IF p.active THEN p ELSE [p EXCEPT !.active = TRUE, !.timer = TRUE]

\* stopPolling; base stays.
Stopped(p) == [p EXCEPT !.active = FALSE, !.timer = FALSE, !.busy = FALSE, !.queued = FALSE]

-----------------------------------------------------------------------------
(* The lists. *)

\* switchTab(tab): renderOrders loads whoever looks, refreshDashboardLive asks.
Opened(tab, loggedIn) ==
    CASE tab = "orders" -> {"load"}
      [] tab = "dashboard" /\ loggedIn -> {"pending"}
      [] OTHER -> {}

\* refreshDashboardLive, refreshOrdersHead.
Refreshed ==
    CASE page.loggedIn /\ page.tab = "dashboard" -> {"pending"}
      [] page.loggedIn /\ page.tab = "orders" -> {"head"}
      [] OTHER -> {}

\* renderOrders draws the skeleton of a list.
Drawn(tab) == IF tab = "orders" THEN [list EXCEPT !.drawn = FALSE] ELSE list

Smaller(m, n) == IF m < n THEN m ELSE n

\* Mutant for OrdersListed: before_id is listed again.
RowsFromBefore(before, limit) ==
    LET top == IF before > 0 THEN before ELSE db.latest
    IN  [i \in 1..Smaller(top, limit) |-> top + 1 - i]

\* listOrders: at most limit ids below before, or below none, in descending order.
Rows(before, limit) ==
    LET top == IF before > 0 THEN before - 1 ELSE db.latest
    IN  [i \in 1..Smaller(top, limit) |-> top + 1 - i]

\* loadOrders(false).
Replaced(rows) ==
    [orders |-> rows, hasMore |-> Len(rows) = PageLimit, drawn |-> TRUE,
     mixed |-> FALSE, gap |-> FALSE]

\* loadOrders(true). mixed: the rows were asked for below another order than the
\* last one that is listed now.
Appended(rows, before) ==
    [list EXCEPT !.orders = @ \o rows, !.hasMore = Len(rows) = PageLimit, !.drawn = TRUE,
                 !.mixed = @ \/ list.orders = <<>> \/ list.orders[Len(list.orders)] # before]

\* The filter of refreshOrdersHead: the orders older than one.
OlderThan(minId, orders) ==
    LET kept[n \in 0..Len(orders)] ==
          IF n = 0 THEN <<>>
          ELSE IF orders[n] < minId THEN Append(kept[n - 1], orders[n])
          ELSE kept[n - 1]
    IN  kept[Len(orders)]

\* refreshOrdersHead. gap: more new orders than a refresh brings.
Headed(fresh) ==
    IF Len(fresh) < HeadLimit THEN [Replaced(fresh) EXCEPT !.hasMore = FALSE]
    ELSE LET minId == fresh[Len(fresh)]
         IN  [list EXCEPT !.orders = fresh \o OlderThan(minId, @), !.hasMore = TRUE, !.drawn = TRUE,
                          !.gap = @ \/ (list.orders # <<>> /\ list.orders[1] < minId - 1)]

-----------------------------------------------------------------------------
(* The session of the page. *)

\* showApp: the tab is that of the address.
ShowApp(s, token) ==
    \E tab \in Tabs :
        /\ page' = [screen |-> "app", loggedIn |-> TRUE, tab |-> tab]
        /\ poll' = Started(poll)
        /\ list' = Drawn(tab)
        /\ Post({s}, Calls(Opened(tab, TRUE), token))
        /\ note' = NotedOpening(Opened(tab, TRUE))

\* handleSessionExpired, on the answer s.
SessionExpired(s) ==
    IF page.loggedIn
    THEN /\ page' = [page EXCEPT !.screen = "login", !.loggedIn = FALSE]
         /\ poll' = Stopped(poll)
         /\ note' = [note EXCEPT !.strays = Cardinality(Under("summary") \ {s})]
    ELSE UNCHANGED <<page, poll, note>>

Over(s) == net' = [net EXCEPT ![s] = NoRequest]

Event == events < MaxEvents /\ events' = events + 1

Quiet == UNCHANGED <<authVars, db>>

-----------------------------------------------------------------------------
(* What people do. *)

\* handleLoginSubmit: the button is disabled while a login is under way.
LogIn ==
    /\ page.screen = "login"
    /\ Under("login") = {}
    /\ Event
    /\ Post({}, Calls({"login"}, cookie))
    /\ UNCHANGED <<cookie, page, poll, list, note>>
    /\ Quiet

\* doLogout: the panel is still shown while the request is under way.
LogOut ==
    /\ page.screen = "app"
    /\ Event
    /\ page' = [page EXCEPT !.loggedIn = FALSE]
    /\ poll' = Stopped(poll)
    /\ note' = [note EXCEPT !.strays = Cardinality(Under("summary"))]
    /\ Post({}, Calls({"logout"}, cookie))
    /\ UNCHANGED <<cookie, list>>
    /\ Quiet

\* switchTab, by the navigation or the address.
OpenTab(tab) ==
    /\ page.screen = "app" \/ page.loggedIn
    /\ Event
    /\ page' = [page EXCEPT !.tab = tab]
    /\ list' = Drawn(tab)
    /\ Post({}, Calls(Opened(tab, page.loggedIn), cookie))
    /\ note' = NotedOpening(Opened(tab, page.loggedIn))
    /\ UNCHANGED <<cookie, poll>>
    /\ Quiet

\* The button below the list: loadOrders(true).
LoadMore ==
    /\ page.screen = "app" /\ page.tab = "orders"
    /\ list.drawn /\ list.hasMore /\ list.orders # <<>>
    /\ Event
    /\ Post({}, {[Request("more", cookie) EXCEPT !.before = list.orders[Len(list.orders)]]})
    /\ UNCHANGED <<cookie, page, poll, list, note>>
    /\ Quiet

\* The button refresh-orders, which polls as well, and refresh-dashboard.
RefreshList ==
    /\ page.screen = "app" /\ page.tab \in {"dashboard", "orders"}
    /\ Event
    /\ LET poke == IF page.tab = "orders" THEN PollNow(poll, page.loggedIn)
                   ELSE [poll |-> poll, calls |-> {}]
       IN  /\ poll' = poke.poll
           /\ Post({}, Calls(Refreshed \cup poke.calls, cookie))
           /\ note' = Noted(Refreshed, note.doubt)
    /\ UNCHANGED <<cookie, page, list>>
    /\ Quiet

\* The buttons of an order: resolveOrder.
ResolveOrder ==
    /\ page.screen = "app" /\ page.tab \in {"dashboard", "orders"}
    /\ db.latest > 0
    /\ Event
    /\ Post({}, Calls({"resolve"}, cookie))
    /\ UNCHANGED <<cookie, page, poll, list, note>>
    /\ Quiet

\* focus and visibilitychange.
Focus ==
    /\ poll.active /\ page.loggedIn
    /\ Event
    /\ LET poke == PollNow(poll, page.loggedIn)
       IN  /\ poll' = poke.poll
           /\ Post({}, Calls(poke.calls, cookie))
    /\ UNCHANGED <<cookie, page, list, note>>
    /\ Quiet

\* Customers order.
OrdersArrive ==
    /\ Event
    /\ \E n \in 1..MaxOrders :
        /\ db.latest + n <= MaxOrders
        /\ db' = [latest |-> db.latest + n, pending |-> db.pending + n]
    /\ UNCHANGED <<authVars, cookie, page, poll, list, net, note>>

\* Mutant for PanelTypeOK: an order is decided whatever has been decided.
WaitsOrNot == db.latest > 0

\* setOrderStatus finds an order that is pending.
Waits == db.pending > 0

\* The bot or another panel decides an order.
OrderResolved ==
    /\ Event
    /\ Waits
    /\ db' = [db EXCEPT !.pending = @ - 1]
    /\ UNCHANGED <<authVars, cookie, page, poll, list, net, note>>

Clock ==
    /\ Event
    /\ TimePasses
    /\ UNCHANGED panelVars

-----------------------------------------------------------------------------
(* The server. *)

\* requireAdmin: a token that is revoked passes when that cannot be read.
Statuses(t) ==
    (IF Admitted(t, TRUE) THEN {"ok"} ELSE {"refused"})
        \cup (IF Admitted(t, FALSE) /\ Revoked(t) THEN {"unread"} ELSE {})

Passed == {"ok", "unread"}

Served(s, status) == [net[s] EXCEPT !.pc = "served", !.status = status]

ServerOnly == UNCHANGED <<cookie, page, poll, list, note, events>>

\* POST /login with the right password; any other is an answer that tells nothing.
ServeLogin(s, t) ==
    /\ net[s].pc = "sent" /\ net[s].kind = "login"
    /\ Issue(t)
    /\ net' = [net EXCEPT ![s] = [Served(s, "ok") EXCEPT !.issued = t]]
    /\ UNCHANGED db
    /\ ServerOnly

\* POST /logout: ok in any case, and the row is written if the token passes and
\* the database lets it.
ServeLogout(s) ==
    /\ net[s].pc = "sent" /\ net[s].kind = "logout"
    /\ \/ Statuses(net[s].token) \cap Passed # {} /\ Revoke(net[s].token)
       \/ UNCHANGED authVars
    /\ net' = [net EXCEPT ![s] = Served(s, "ok")]
    /\ UNCHANGED db
    /\ ServerOnly

\* The routes behind requireAdmin, the summary's apart.
ServeRoute(s) ==
    /\ net[s].pc = "sent" /\ net[s].kind \in {"me", "pending", "load", "more", "head", "resolve"}
    /\ \E status \in Statuses(net[s].token) :
        /\ net' = [net EXCEPT ![s] =
                      [Served(s, status) EXCEPT
                         !.at = IF net[s].kind \in Lists THEN Version ELSE 0,
                         !.rows =
                         CASE status \notin Passed -> <<>>
                           [] status \in Passed /\ net[s].kind \in {"load", "more"} ->
                                Rows(net[s].before, PageLimit)
                           [] status \in Passed /\ net[s].kind = "head" -> Rows(0, HeadLimit)
                           [] OTHER -> <<>>]]
        \* PATCH /orders/<id> of an order that waits, or of one that does not.
        /\ \/ /\ status \in Passed /\ net[s].kind = "resolve" /\ Waits
              /\ db' = [db EXCEPT !.pending = @ - 1]
           \/ UNCHANGED db
    /\ UNCHANGED authVars
    /\ ServerOnly

\* getOrdersSummary counts the pending orders, and then reads the last id.
CountPending(s) ==
    /\ net[s].pc = "sent" /\ net[s].kind = "summary"
    /\ \E status \in Statuses(net[s].token) :
        net' = [net EXCEPT ![s] =
                  IF status \in Passed
                  THEN [@ EXCEPT !.pc = "counted", !.status = status,
                                 !.summary = [NoSummary EXCEPT !.pending = db.pending, !.at = Version]]
                  ELSE Served(s, status)]
    /\ Quiet
    /\ ServerOnly

\* at, torn: the version of the last id, and whether it is that of the count.
ReadLatest(s) ==
    /\ net[s].pc = "counted"
    /\ net' = [net EXCEPT ![s] =
                  [@ EXCEPT !.pc = "served",
                            !.summary = [pending |-> net[s].summary.pending, latest |-> db.latest,
                                         at |-> Version, torn |-> net[s].summary.at # Version]]]
    /\ Quiet
    /\ ServerOnly

-----------------------------------------------------------------------------
(* The answers, or their failure. *)

Answered(s, kinds, status) ==
    /\ net[s].kind \in kinds
    /\ \/ net[s].pc = "served" /\ net[s].status = status /\ UNCHANGED events
       \/ net[s].pc # "free" /\ status = "failed" /\ Event

BootAnswered(s) ==
    /\ \/ \E status \in Passed : Answered(s, {"me"}, status) /\ ShowApp(s, cookie)
       \/ /\ \E status \in {"refused", "failed"} : Answered(s, {"me"}, status)
          /\ page' = [page EXCEPT !.screen = "login"]
          /\ Over(s)
          /\ UNCHANGED <<poll, list, note>>
    /\ UNCHANGED cookie
    /\ Quiet

LoginAnswered(s) ==
    /\ \/ /\ Answered(s, {"login"}, "ok")
          /\ cookie' = net[s].issued
          /\ ShowApp(s, net[s].issued)
       \/ /\ Answered(s, {"login"}, "failed")
          /\ Over(s)
          /\ UNCHANGED <<cookie, page, poll, list, note>>
    /\ Quiet

\* The end of doLogout: the login is shown, whoever has logged in by then.
LogoutAnswered(s) ==
    /\ \/ Answered(s, {"logout"}, "ok") /\ cookie' = NoToken
       \/ Answered(s, {"logout"}, "failed") /\ UNCHANGED cookie
    /\ page' = [page EXCEPT !.screen = "login"]
    /\ Over(s)
    /\ UNCHANGED <<poll, list, note>>
    /\ Quiet

\* refreshDashboardLive: the pending orders, of which the model keeps the version;
\* a failure shows that there are none. An answer for another tab is dropped.
PendingAnswered(s) ==
    /\ \/ /\ \E status \in Passed : Answered(s, {"pending"}, status)
          /\ note' = IF page.tab = "dashboard" THEN NotedShown(net[s].at) ELSE note
       \/ /\ Answered(s, {"pending"}, "failed")
          /\ note' = IF page.tab = "dashboard" THEN NotedLost ELSE note
    /\ Over(s)
    /\ UNCHANGED <<cookie, page, poll, list>>
    /\ Quiet

\* loadOrders, refreshOrdersHead: an answer for another tab is dropped.
OrdersAnswered(s) ==
    /\ \E status \in Passed : Answered(s, {"load", "more", "head"}, status)
    /\ list' = IF page.tab # "orders" THEN list
               ELSE CASE net[s].kind = "load" -> Replaced(net[s].rows)
                      [] net[s].kind = "more" -> Appended(net[s].rows, net[s].before)
                      [] net[s].kind = "head" -> Headed(net[s].rows)
    /\ note' = IF page.tab = "orders" /\ net[s].kind # "more" THEN NotedShown(net[s].at) ELSE note
    /\ Over(s)
    /\ UNCHANGED <<cookie, page, poll>>
    /\ Quiet

\* loadOrders shows its failure in place of the list; refreshOrdersHead does not.
OrdersFailed(s) ==
    /\ Answered(s, {"load", "more", "head"}, "failed")
    /\ list' = IF page.tab = "orders" /\ net[s].kind # "head" THEN [list EXCEPT !.drawn = FALSE]
               ELSE list
    /\ note' = IF page.tab = "orders" THEN NotedLost ELSE note
    /\ Over(s)
    /\ UNCHANGED <<cookie, page, poll>>
    /\ Quiet

\* resolveOrder polls and refreshes, whether the order was decided or had been.
\* The refresh of the dashboard waits 240 ms for an animation, which is left out.
ResolveAnswered(s) ==
    /\ \E status \in Passed \cup {"failed"} : Answered(s, {"resolve"}, status)
    /\ LET poke == PollNow(poll, page.loggedIn)
       IN  /\ poll' = poke.poll
           /\ Post({s}, Calls(Refreshed \cup poke.calls, cookie))
           /\ note' = Noted(Refreshed, note.doubt)
    /\ UNCHANGED <<cookie, page, list>>
    /\ Quiet

\* api on 401.
Refused(s) ==
    /\ Answered(s, {"pending", "load", "more", "head", "resolve"}, "refused")
    /\ SessionExpired(s)
    /\ Over(s)
    /\ UNCHANGED <<cookie, list>>
    /\ Quiet

\* Mutant for ListCatchesUp: the lists are refreshed for new orders only.
ChangedIfNew(base, answer) == base # None /\ base.latest < answer.latest

Changed(base, answer) ==
    base # None /\ (base.pending # answer.pending \/ base.latest # answer.latest)

\* The first summary has none to be compared with, and one that was put together
\* from two versions may equal that of another version.
Comparable(base, answer) == base # None /\ ~base.torn /\ ~answer.torn

\* pollTick on its answer.
SummaryAnswered(s) ==
    /\ \E status \in Passed : Answered(s, {"summary"}, status)
    /\ LET answer == net[s].summary
           lists == IF Changed(poll.base, answer) THEN Refreshed ELSE {}
           after == Afterwards([poll EXCEPT !.base = answer], page.loggedIn)
       IN  /\ poll' = after.poll
           /\ Post({s}, Calls(lists \cup after.calls, cookie))
           /\ note' = Noted(lists, note.doubt \/ ~Comparable(poll.base, answer))
    /\ UNCHANGED <<cookie, page, list>>
    /\ Quiet

SummaryFailed(s) ==
    /\ Answered(s, {"summary"}, "failed")
    /\ LET after == Afterwards(poll, page.loggedIn)
       IN  /\ poll' = after.poll
           /\ Post({s}, Calls(after.calls, cookie))
    /\ UNCHANGED <<cookie, page, list, note>>
    /\ Quiet

\* After handleSessionExpired the finally has nothing left to do.
SummaryRefused(s) ==
    /\ Answered(s, {"summary"}, "refused")
    /\ IF page.loggedIn THEN SessionExpired(s)
       ELSE poll' = Afterwards(poll, FALSE).poll /\ UNCHANGED <<page, note>>
    /\ Over(s)
    /\ UNCHANGED <<cookie, list>>
    /\ Quiet

\* The timeout of schedulePoll.
TimerFires ==
    /\ poll.timer
    /\ LET tick == Tick([poll EXCEPT !.timer = FALSE], page.loggedIn)
       IN  /\ poll' = tick.poll
           /\ Post({}, Calls(tick.calls, cookie))
    /\ UNCHANGED <<cookie, page, list, note, events>>
    /\ Quiet

-----------------------------------------------------------------------------
Init ==
    /\ cookie \in Tokens \cup {NoToken}
    /\ AuthInit(cookie)
    /\ db \in Openings
    /\ page = [screen |-> "boot", loggedIn |-> FALSE, tab |-> "dashboard"]
    /\ poll = [active |-> FALSE, timer |-> FALSE, busy |-> FALSE, queued |-> FALSE, base |-> None]
    /\ list = [orders |-> <<>>, hasMore |-> FALSE, drawn |-> FALSE, mixed |-> FALSE, gap |-> FALSE]
    /\ \E s \in Slots : net = [t \in Slots |-> IF t = s THEN Request("me", cookie) ELSE NoRequest]
    /\ note = [asked |-> 0, shown |-> 0, lost |-> FALSE, doubt |-> FALSE, strays |-> 0]
    /\ events = 0

People ==
    \/ LogIn \/ LogOut \/ LoadMore \/ RefreshList \/ ResolveOrder \/ Focus
    \/ \E tab \in Tabs : OpenTab(tab)
    \/ OrdersArrive \/ OrderResolved \/ Clock

Server ==
    \E s \in Slots :
        \/ \E t \in Tokens : ServeLogin(s, t)
        \/ ServeLogout(s) \/ ServeRoute(s) \/ CountPending(s) \/ ReadLatest(s)

Page ==
    \/ \E s \in Slots :
        \/ BootAnswered(s) \/ LoginAnswered(s) \/ LogoutAnswered(s)
        \/ PendingAnswered(s) \/ OrdersAnswered(s) \/ OrdersFailed(s)
        \/ ResolveAnswered(s) \/ Refused(s)
        \/ SummaryAnswered(s) \/ SummaryFailed(s) \/ SummaryRefused(s)
    \/ TimerFires

Next == People \/ Server \/ Page

Spec == Init /\ [][Next]_vars

-----------------------------------------------------------------------------
(* Properties. *)

Summary == [pending : 0..MaxOrders, latest : 0..MaxOrders, at : 0..(2 * MaxOrders), torn : BOOLEAN]

Requests == [pc : {"free", "sent", "counted", "served"}, kind : Kinds \cup {None},
             token : Tokens \cup {NoToken}, before : 0..MaxOrders,
             status : Passed \cup {"refused", None}, rows : Seq(1..MaxOrders),
             at : 0..(2 * MaxOrders), summary : Summary, issued : Tokens \cup {NoToken}]

\* Every variable has its type: the page, the poll, the lists, the database and
\* the requests under way.
PanelTypeOK ==
    /\ AuthTypeOK
    /\ db \in [latest : 0..MaxOrders, pending : 0..MaxOrders] /\ db.pending <= db.latest
    /\ cookie \in Tokens \cup {NoToken}
    /\ page \in [screen : {"boot", "login", "app"}, loggedIn : BOOLEAN, tab : Tabs]
    /\ poll \in [active : BOOLEAN, timer : BOOLEAN, busy : BOOLEAN, queued : BOOLEAN,
                 base : Summary \cup {None}]
    /\ list \in [orders : Seq(1..MaxOrders), hasMore : BOOLEAN, drawn : BOOLEAN,
                 mixed : BOOLEAN, gap : BOOLEAN]
    /\ net \in [Slots -> Requests]
    /\ note \in [asked : 0..(2 * MaxOrders), shown : 0..(2 * MaxOrders), lost : BOOLEAN,
                 doubt : BOOLEAN, strays : 0..Cardinality(Slots)]
    /\ events \in 0..MaxEvents

\* As long as somebody is logged in, the next poll is under way or has its timer:
\* no answer, refusal, failure, tab or button ends the polling (pollTick,
\* pollNow, stopPolling).
PollingGoesOn == page.loggedIn => poll.active /\ (poll.timer \/ Under("summary") # {})

\* "Only one request at a time" (pollTick), but for the requests that were under
\* way when the polling was last stopped: stopPolling resets busy, so that each
\* of them may leave one more behind, and never two.
OneAtATime == Cardinality(Under("summary")) <= 1 + note.strays

\* A list that the tab waits for: of that version at least, unless it turns out
\* that nobody is logged in.
Brings(s, version) ==
    /\ net[s].kind \in ListsOf(page.tab)
    /\ \/ net[s].pc = "sent"
       \/ net[s].pc = "served" /\ (net[s].status = "refused" \/ net[s].at >= version)

\* The list on the screen holds all that the last summary counts, or a request
\* that brings it is under way: base is replaced before the list is refreshed,
\* and the refresh is sent once (pollTick). Exempt are, until a list is asked for
\* again, a list whose request failed, which nobody repeats, or that was replaced
\* by an answer of an older version (refreshOrdersHead, refreshDashboardLive), and
\* summaries that cannot be compared: the page's first, and one that was put
\* together from two versions or follows one that was (getOrdersSummary).
ListCatchesUp ==
    page.loggedIn /\ page.tab # "other" /\ poll.base # None /\ ~note.doubt /\ ~note.lost
        => poll.base.at <= note.shown \/ \E s \in Slots : Brings(s, poll.base.at)

\* The orders listed are one after the other with none left out or twice, and the
\* button for older ones is missing only when the first of all is there: unless an
\* answer to that button came for a list that had changed, or more orders came
\* than a refresh brings (loadOrders, refreshOrdersHead, listOrders).
OrdersListed ==
    list.mixed \/ list.gap
    \/ LET n == Len(list.orders) IN
       /\ \A i \in 1..n : list.orders[i] = list.orders[1] + 1 - i
       /\ n > 0 /\ ~list.hasMore => list.orders[n] = 1

\* A token that has been logged out never passes again, except in the second it
\* expires in and when the revocations cannot be read (requireAdmin, the row's
\* expiry in POST /logout).
LoggedOutStaysOut ==
    [][\A s \in Slots :
         net[s].pc = "sent" /\ net'[s].pc # "sent" /\ net[s].kind \notin {"login", "logout"}
             /\ net'[s].status = "ok" /\ net[s].token \in loggedOut
         => NowSec >= expiry[net[s].token]]_vars
=============================================================================
