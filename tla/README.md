# Verification of cafe-worker

cafe-worker is the digital menu and ordering system of a cafe: one Cloudflare
Worker (`src/`), a D1 database, a KV store for images, a Telegram bot for the
staff, a web panel for the staff (`public/admin/`) and the customers'
storefront (`public/js/script.js`). This directory holds TLA+ modules for the
parts of it whose correctness depends on interleavings, failures and retries,
TLC configurations that check them on small instances, and TLAPS proofs of what
matters most for every instance. Source paths below are relative to the
repository.

## 1. Inventory

### Components

| Component | State | Operations | Talks to |
|---|---|---|---|
| Order intake (`src/handlers/orders.js` `handleOrdersAPI`, `src/data/orders.js` `createOrder`) | table `orders` | POST `/api/orders`: honeypot, table and signature, lookup of the idempotency key, hours, three limits, items, INSERT; GET `/api/orders/status` | D1, site settings, clock, `notifyAdmins` through `waitUntil` |
| Order desk (`notifyAdmins`, `scheduled` of `src/index.js`, `resolveOrder`, the callers in `src/telegram/callbacks.js` and `src/handlers/admin.js`) | `orders.status`, `tg_messages`, `tg_notified`; messages in Telegram chats | notify every admin, retry from cron, confirm or reject, rewrite messages | D1, Telegram, each other through the row |
| Storefront checkout (`public/js/script.js`) | `cart`, table, `orderAttemptKey`, `checkoutBusy`, sessionStorage | edit, pick table, submit, reload, refresh menu | order intake over the network |
| Receipt polling (`startOrderStatusPolling`) | one timer variable, interval, back-off, 15-minute cap | poll status, write the verdict on the receipt | order intake |
| Storefront dialogs (`public/js/script.js`: `openModal`, `openCart`, `openSortModal`, `openTableModal`, `popstate`) | classes `open` and `closing`, `scrollLockCount`, timers; the browser's history | open, request to close, close when the browser has gone back | the browser |
| Catalogue (`src/data/products.js`, handlers of `admin.js`) | tables `products`, `categories` | add, edit, price, discount, bulk percent, toggle, delete; categories | D1, panel, bot |
| Images (`src/lib/images.js`, `src/data/maintenance.js`, `src/data/site.js`, `src/telegram/images.js`) | KV `image:*`, references in rows and settings | upload, replace, delete, orphan cleanup | KV, D1 |
| Bot sessions (`src/telegram.js`, `steps.js`, `callbacks.js`, `images.js`, `src/data/session.js`) | one `bot_state` row per chat, TTL 600 s | step machine of the bot's dialogues | D1, Telegram, catalogue |
| Isolate cache (`src/data/cache.js`) | `memoStore` per isolate | memoised reads, invalidation | catalogue, settings, intake |
| Admin authentication (`src/middleware/adminAuth.js`, login of `admin.js`, `src/data/botState.js`) | tokens, revocations and login counters in `bot_state` | login, verify, logout, cleanup | D1 |
| Site settings (`src/data/site.js`) | table `site_settings`, legacy KV value | read with fallback, seed, set | D1, KV, isolate cache |
| Pure functions (`src/lib/hours.js`, `validate.js`, `time.js`; calendar of `src/data/orders.js`) | none | opening hours, next opening, day and month boundaries, validation | callers |
| Panel (`public/admin/admin.js`) | timers, lists, session | polling, optimistic decisions, paging | all handlers |
| Delivery of pages and images (`src/index.js`), rendering, security headers | edge cache, resize back-off | – | – |

### What is hard here

* Every `await` on D1, KV or Telegram lets another request of the same isolate,
  or of another one, run. Nothing locks: single SQL statements are the only
  atomic steps.
* A query or a Telegram call can fail, or take effect and be reported as failed.
* An invocation, and the work it left to `waitUntil`, can be cancelled.
* Requests and answers between a phone on mobile data and the Worker are lost
  and delayed, and customers press again.
* Two user interfaces (bot and panel) write the same rows.

### What makes each component correct

* Intake: a repeated request is not recorded twice, and gets its own order
  whatever has happened since; the limits bound what one address and one table
  may have pending, as exactly as check-then-insert allows.
* Desk: one decision per order, told to one caller; no admin is left without a
  message when an order is marked notified; messages never contradict the row;
  retries settle.
* Storefront: one wish of the customer is one order; a key names one cart; a receipt
  tells of its own order.
* Catalogue: a bulk change applies to the rows that were previewed, no product
  without a category, prices within their bounds.
* Images: no row refers to a deleted file, unless it was lost when it was put there,
  and cleanup deletes only orphans.
* Bot sessions: a dialogue that has ended does not come back; however often it is
  answered, it adds one product.
* Cache: an isolate that has written reads its write; staleness is bounded by the TTL.
* Dialogs: Back closes what is on top, and moves through the page or leaves it only when
  nothing is open; the page is locked exactly while something holds a lock.
* Authentication: a revoked or expired token is refused for ever, the second of its
  expiry excepted.
* Panel: polling never ends while somebody is logged in, and never multiplies; the list
  on the screen catches up with what a summary reports; it has no holes and shows no
  order twice.
* Settings: the copy of the old configuration neither undoes nor loses a setting.
* Hours: the phone and the server agree at every minute, as far as the phone knows the
  time in Tehran; the announced opening is the next one.

`PROJECT.json` lists the components with their status and, under "hazards",
the places in the code where these could go wrong.

## 2. Modules

    OrderLifecycle  <--refines--  OrderDesk  <--EXTENDS--  OrderDeskProofs
                                      ^------- MCOrderDesk

    BotSession  <--EXTENDS--  BotSessionProofs,  MCBotSession

    OrderIntake  <--EXTENDS--  Storefront  <--EXTENDS--  Receipt  <-- MCReceipt
        ^---- OrderIntakeProofs    ^---- MCStorefront        ^
        |            ^-----------------EXTENDS----------- StorefrontProofs
        ^---- MCOrderIntake                                  v
                                                          Dialogs

    MenuCache  <--EXTENDS--  Catalogue  <--EXTENDS--  CatalogueProofs,  MCCatalogue

    ImageStore  <--EXTENDS--  ImageStoreProofs,  MCImageStore

    AdminAuth  <--EXTENDS--  Panel  <--EXTENDS--  PanelProofs,  MCPanel

    SiteSettings, TehranTime  <--EXTENDS--  SiteProofs

| Module | Models |
|---|---|
| `OrderLifecycle` | what the `orders` table promises to everybody: placed once, decided at most once, for good, at most one caller told so |
| `OrderDesk` | `notifyAdmins`, the cron retry, `resolveOrder` and its two callers, step by step |
| `OrderIntake` | `handleOrdersAPI` for POST, step by step, any number of concurrent handlers |
| `Storefront` | one phone and its network in front of `OrderIntake` |
| `Receipt` | the receipt that takes the cart's place, and the polling that draws on it, over `Storefront` |
| `BotSession` | the bot's dialogues over the session row of a chat, updates handled concurrently |
| `ImageStore` | image files in KV, the rows and settings that refer to them, the panel's form and upload, the clean-up |
| `MenuCache` | the memo of each isolate: reads under way, expiry, invalidation |
| `Catalogue` | products and categories with their prices, changed by bot and panel, over `MenuCache` |
| `AdminAuth` | a token's expiry and revocation against the clock |
| `Panel` | one page of the panel and the routes it calls, over `AdminAuth` |
| `SiteSettings` | `setSiteSetting` and the copy of the old KV configuration |
| `TehranTime` | opening hours on the server and on the phone, days and weeks of the statistics |
| `Dialogs` | the storefront's dialogs, their timers and the entries of the browser's history |
| `…Proofs` | theorems of the modules they extend |
| `MC…` | model values and symmetry for TLC |

### OrderDesk

State: `status`, `tg` (the columns `tg_messages` and `tg_notified`), `age` (where
the order's age lies relative to the retry window of the cron query), `chat[a]`
(what Telegram delivered to admin `a`, and what each message shows now), `job`
(locals of running `notifyAdmins`, of a request or of a cron invocation), `queue`
(the rows a cron invocation has selected), `call` (locals of `resolveOrder`).

| Action | Code |
|---|---|
| `Place` | INSERT and `waitUntil(notifyAdmins)` |
| `CronSelect`, `CronNext` | `scheduled`: the query, then one order after another |
| `ReadPrev`, `Send`, `Save` | `notifyAdmins`: read stored ids, parallel `sendMessage` to those without one, merge and UPDATE |
| `PressButton`, `PatchOrder` | the bot's callback, PATCH `/orders/:id` |
| `UpdateStatus`, `ReadRow`, `Edit`, `Return` | `resolveOrder` |
| `KillSender`, `KillCall` | the platform cancels an invocation |
| `BecomeDue`, `Expire` | time passes the edges of the retry window |

`disturbed` and `spent` are history: `spent` counts faults (bounded by
`MaxFailures`), `disturbed` collects the orders that a fault hit, that had two
senders at once, or that were decided while being announced.
`ADMIN_IDS` is a constant, as in a deployment.

### OrderIntake

State: `rows` (the table; per row its key, address, table, products, whether it
is pending and whether it is younger than ten minutes), `worker[w]` (a handler's
program counter and locals), `spent`. Between any two queries the site settings,
the clock and the menu may have changed, so each step that reads one of them
finds any value; that covers the isolate cache, whatever its age.

| Action | Code (`src/handlers/orders.js`) |
|---|---|
| `Receive` | honeypot, table, signature, and for a request without key the hours |
| `Lookup` | SELECT by `request_id`, then the hours; a failed lookup is logged and passed |
| `CountIp`, `CountTable`, `CountIpAtTable` | the three limits; a failed count lets the request pass |
| `LoadProducts` | the checks on items, `loadProducts`, availability and price |
| `Insert`, `Reselect` | `createOrder` under the unique index, and the fallback when the key is taken |
| `Finish` | the answer leaves |
| `Decide`, `LeaveWindow` | the desk decides a row; ten minutes pass |

### Storefront

Adds `phone` (page variables and sessionStorage), `net` (requests under way),
`serving[w]` (the press that a handler's request belongs to), and histories: the
customer's wishes, the wishes whose key the page dropped by itself, and what was
sent under each key. Its actions are the storefront's functions
(`addToCart`/`changeQty` = `EditCart`, the table grid = `PickTable`, page load =
`Reload`, `ScanCode`, `ApplySite`, `refreshCartProducts` = `RefreshCart`,
`submitOrder` = `Submit`, `Answer`, `FetchFails`) and the network
(`Arrive`, `LoseRequest`, `LoseAnswer`). Keys are 128-bit random, so a fresh key
is any key not used before, and phones never share one.

### BotSession

State: `session[c]` (the unexpired row `session:<chat>`: step, number of the
dialogue, id of the row to be added), `handler[h]` (a running `handleUpdate` and
the session it read), `made` (rows added). A dialogue's number stands for all
that its answers say. `ended`, `after` and `overlapped` are history: how a
dialogue first lost its session, whether it wrote something after that, whether
two handlers dealt with it at once (ending it while another handler has its
session counts).

| Action | Code |
|---|---|
| `Receive` | the webhook: `OK`, then `handleUpdate` in `waitUntil`; `deleteMessageSafe` |
| `Leave` | the keys of the main keyboard, the words and buttons that cancel: `clearSession` |
| `Open` | buttons of the menus, and "number of tables": `setSession` with a first step |
| `Read` | `getSession` and the checks of `handleTextStep`, of a photo, of `bulkconfirm` (`Reactions`) |
| `Download` | `downloadTelegramFile` and the KV put |
| `Store` | `setSession` with the next step; ids are generated here |
| `Apply`, `Refuse` | the write to the menu or the settings, or its refusal |
| `Clear` | `clearSession` at the end |
| `Crash`, `Expire` | a query throws or the invocation is cancelled; ten minutes pass |

### Receipt

Adds `receipt` (the order that is shown and what is said of it), `chain[i]` (where
the polling of order `i` is: a timer, a request, an answer under way) and `handle`
(`orderStatusPollTimer`, one variable for whichever chain set a timer last).
`crowded` is history: another chain was alive when the receipt was drawn.
`Draw` is the success branch of `submitOrder`, `Hide` `renderCart`, `Fire` the
timer with its reasons to stop or wait, `ServeStatus` GET `/api/orders/…/status`,
`Told` the answer or its failure. The actions of `Storefront` and `OrderIntake`
are taken along unchanged.

### ImageStore

State: `kv[f]` (a file's age in the store), `exists`, `image[s]` (what a row or a
setting refers to), `drafts` (ids that dialogues of the bot hold for a row to be added),
`handler[h]`, `form[p]` and `upload[p]` (a panel's form, and the upload whose answer it
waits for), `cleaner`. `condemned` is history: files that were lost already when a form,
or a photo of a dialogue, put them into a row.

Names of files carry the time of their upload (`Timed`, `PutTimed`), except those of a new
product's photo (`images.js:124`), which is `<id>.<ext>` for every photo that answers the
dialogue: `OwnNames` are the names of a draft, `Add` puts them again, and a second
`Insert` of the id is refused by the primary key (`InsertRefused`).

| Action | Code |
|---|---|
| `Replace`, `Add`, `Remove`, `Drop` | the bot's photo steps and buttons, the panel's routes: `putImage` first, then the row |
| `OpenForm`, `ClearImage`, `Upload`, `UploadAnswered`, `SaveForm`, `CloseForm` | the panel's forms (`uploadImage`, `saveProduct`, `saveCategory`) |
| `Read`, `Write`, `Insert`, `InsertRefused`, `DeleteRow`, `DeleteOld` | the read of the old path, the write, `deleteImageByPath` of the old file |
| `Fail` | a query or a KV call throws, the invocation is cancelled |
| `Age`, `ReadUsed`, `ListKeys`, `DeleteOrphan` | a day passes, and with it the dialogue that a file is called after; `deleteOrphanImages` |

### MenuCache and Catalogue

A cached menu is named by the `revision` of the catalogue it shows, the number of
writes D1 had applied. `entry[i]` is the entry of isolate `i` with the ticks left
of its ten seconds, `fetch[f]` a read under way or held, `marks[k]` and
`settled[i]` are history: the revision `k` ticks ago and the one that isolate `i`
has last acknowledged a write of.
`Fetch`, `Query`, `Arrive`, `FailFetch`, `Invalidate`, `Tick` are `memo` and
`invalidateCache` with the clock. A read that was replaced and fails deletes the
entry of its successor, as in the code.

`Catalogue` adds `category`, `product` (each row's category, price and original
price), `handler[h]`, `form[a]` (the panel's product form with the row it was
opened from) and `preview[b]` (the session of a bulk change in a chat).

| Action | Code |
|---|---|
| `ChangeProduct`, `AddProduct`, `ChangeCategory` | the bot's buttons and steps, the panel's routes |
| `OpenForm`, `SaveForm`, `CloseForm` | the product form of the panel |
| `Preview`, `Confirm`, `CancelPreview`, `ClearSession` | bulk percentage: the typed percent, `bulkconfirm`, `bulkcancel` |
| `Read` | the SELECT of an operation that computes from what it reads, and the checks of routes |
| `SetProductPrice` … `DeleteCategory` | one action per function of `products.js`, with the foreign key as the database enforces it |
| `Return` | `invalidate`, then the answer |
| `Fail` | an error, before or after D1 applied the write |

Amounts are in thousands of tomans, to which `roundPrice` brings everything that is
stored, so the rounding of percentages is that of integer division.

### AdminAuth and Panel

`AdminAuth` keeps `now` in half seconds, so that a second of a token and a moment
of a row can differ, `expiry` and `revoked` per token, and `loggedOut` as history.
`Panel` adds `db` (the last order's id, the number that are pending), `cookie`,
`page` (screen, tab), `poll` (`active`, timer, `busy`, `queued` and the base
summary), `list` (the orders listed), `net` (requests under way), and `note`, the
history that properties refer to: the version at which a list was last asked for, the
version of the list that is shown, and whether a request for it was lost or an older
answer took its place. Its actions are people's (`LogIn`, `LogOut`,
`OpenTab`, `LoadMore`, `RefreshList`, `ResolveOrder`, `Focus`, `OrdersArrive`,
`OrderResolved`, `Clock`), the server's (one per kind of route; `CountPending` and
`ReadLatest` are the two queries of a summary) and the page's
(`…Answered`, `…Failed`, `Refused`, `TimerFires`). Requests are served and
answered in any order and may be lost before or after they are served.

### SiteSettings and TehranTime

`SiteSettings`: `table`, `legacy` (`site:config` in KV), `handler[h]` in
`setSiteSetting`: `Count`, `Seed` or `SeedFails`, `Write`; `Fail` anywhere.
`promised`, `written` and `unseeded` are history.

`TehranTime` has no state: `IsOpen`/`NextOpening` are `lib/hours.js`,
`OpenOnPhone`/`NextOnPhone` the storefront's own versions, `StartOfDay` and
`StartOfWeek` the boundaries of the sales statistics, all over minutes of UTC. The server
adds 210 minutes; the phone asks its `Intl` for `Asia/Tehran`, which on a device that has
not learnt that daylight saving was abolished is 270 in summer, and falls back to the
device's own zone, so its functions take the offset `z` as a parameter.

### Dialogs

State: `open`, `closing` (the elements' classes), `timer` and `picked` (the modal's
220 ms, the popup's 180 ms), `locks`, and the browser: `trail` and `at` (which
dialog each entry of the history names, if any), `pending` (calls of `history.back()` that
it has not carried out), `left`. `forward` and `doubled` are history.

| Action | Code |
|---|---|
| `OpenModal`, `OpenSheet`, `OpenTable`, `ToggleNav` | `openModal`, `openSortModal` and `openCart`, `openTableModal`, the menu's button |
| `FollowLink` | the links of the header, which push an entry without a state, or replace the entry that has their fragment, and close the menu |
| `PressClose`, `Escape`, `PickedTimer` | crosses, overlays and swipes, the key, the table that was chosen: `RequestClose` goes back if the current entry is the dialog's, and closes it otherwise |
| `Traverse`, `PressBack`, `PressForward` | the browser moves in its history; `popstate` |
| `FadedOut` | the modal's timer |

What is behind a dialog takes no events (`syncDialogInert`), so only what is on top
is pressed.

## 3. Runs

| Run | Instance | Shows |
|---|---|---|
| `desk` | 1 order, 2 admins, 1 cron invocation, 2 decisions, 1 fault | types; a notified order has a delivered message at every admin; messages tell the verdict; Telegram is in sync for undisturbed orders; the desk implements `OrderLifecycle` |
| `desk_retry` | 1 order, 2 admins, 2 overlapping cron invocations, 1 fault, fairness | `RetriesSettle` |
| `desk_sync` (violation) | 1 order, 1 admin, no fault | the comment on `resolveOrder` claims more than the code does |
| `intake` | 2 handlers, 1 key, 1 address, 1 table, limits 1/1/1, 3 rows, no fault | types; how far limits are exceeded; what a retry is answered; one row per key |
| `intake_readme` (violation) | 1 handler, the configured limits 10/10/3, 2 addresses | a fourth pending order at a table, which the README excludes |
| `storefront` | 1 phone, 2 handlers, 2 keys, 2 presses, 2 changes, 2 tables, 1 fault | a wish is recorded once unless the page dropped its key; a key is one cart at one table; a receipt tells of its own order |
| `storefront_once` (violation) | the same without faults | after a lost answer and a reload the same order is recorded twice |
| `bot` | 1 chat, 2 handlers, 2 dialogues of 6 kinds, 2 ids, 1 fault | types; one row per dialogue; what has ended is over; dialogues move forward |
| `bot_cancel` (violation) | 1 chat, 2 handlers, 1 dialogue, no fault | a dialogue comes back after it was cancelled |
| `images` | 2 rows, one of them a dialogue's draft, and a logo; 3 files, 1 of them called after the draft; 2 handlers, 1 panel, 2 requests, 1 fault | types; no row refers to a deleted file unless it was lost when put there; who takes a file out of use goes on to delete it |
| `catalogue` | 1 product, 2 categories, 2 handlers, 2 isolates, 2 reads of the menu, 1 panel, 1 chat, prices up to 3, changes of ±50 %, 3 events, a time to live of 1 tick | types and price bounds; no product without category; freshness of every isolate; base prices; bulk changes as previewed |
| `panel` | 2 requests under way, 2 tokens, up to 4 orders, pages of 1, refreshes of 2, 3 events | polling goes on, one at a time; the list on the screen catches up with summaries; it has no holes; logged-out tokens stay out |

### What the properties exempt

Several properties hold only up to a named exception, which is then a behaviour of
the code and recorded by a history variable:

* `NoDeadImage` exempts `condemned` files. The panel's form writes back the image
  path that it was opened with, even after the bot has replaced that image and
  deleted the file, or the clean-up has collected an upload that waited in the form
  for more than a day, or after a first attempt to save, whose answer was lost, gave the
  file to another row. And the photos of a new product's dialogue share a name: if the
  first adds the product and somebody deletes it, a second photo puts the file again and
  adds the product again, and the deletion, if it is still to delete the file, or does so
  between the two steps, leaves the new product without its image.
* `ReceiptTells` exempts receipts drawn while an older chain was `crowded` in: the
  page stops the timer it knows of, never a request under way, and the answer to
  that request is written on the receipt that is there by then.
* `ListCatchesUp` says that the list on the screen holds what the last summary counts, or
  that a request that brings it is under way. The base is replaced before the list is
  refreshed and the refresh is sent once, so three things leave the list behind until it is
  asked for again: a request for it that fails (`lost`; on the dashboard a failure even
  shows an empty list), an older answer that replaces a newer one (`lost`), and a summary
  that cannot be compared with the one before (`doubt`): the page's first, which becomes
  the base without a refresh, or one put together from two versions by the two queries of
  `getOrdersSummary`.
* `OrdersListed` exempts lists to which an answer for older orders was appended after
  the list had changed (`mixed`), and refreshes that bring fewer orders than came
  (`gap`).
* `LoggedOutStaysOut` exempts the second a token expires in, in which its revocation
  may have expired first, and a revocation that cannot be read (`requireAdmin` lets
  the request pass).
* `KeepsBase` and `BulkAsPreviewed` exempt prices that change between the read of an
  operation and its write: no statement of `products.js` compares them again.
* `EntriesMatch` exempts pages on which somebody has pressed Forward to a dialog's entry,
  or from a dialog: `popstate` then closes what is open, while the entry it has moved to
  names a dialog. Entry 0 may name a dialog that was open before a reload. `NotByItself`
  exempts two traversals under way at once: a second press, the phone's Back or the
  popup's timer before the browser has carried out the first `history.back()`.
* `OthersStay` exempts tables into which a setting was written after a failed copy.

### Bounds

Every instance is finished within seconds, so that the project can be checked again
after each change; what a larger one could still show is left to the proofs, which
remove all of these bounds from every safety property.

`desk`: a cron invocation works through its orders one at a time and
orders share no state but an admin's chat, so one order meets all the races;
two admins distinguish "some" from "all" notified; two decisions race each other
and the sender; one fault loses a message or kills the sender.
`desk_retry` needs the second invocation, since a minute's cron may
overlap the previous one, and the fault that makes a retry necessary.

`intake`: two handlers are enough for both to count before either inserts. With limits
of one that makes two rows where one is allowed, and the third row is the one that
must not be. Failing queries are left to `storefront`, which runs the same handlers.

`storefront`: two presses and two handlers let a retry overtake its first attempt;
two rows are two receipts, hence two chains over one `handle`; the failing query is
the lookup of the key, the count of the table's orders, the reading of the products or
the INSERT.

`bot`: two dialogues let a late handler of one meet the session of the
other, and one fault separates an INSERT from its `clearSession`; chats share
nothing; two ids are enough for both dialogues and for a price answered twice.
`Pressed` names five buttons, one for each way a dialogue can go: answers that lead to a
confirmation, to a new product or to a new category, a single answer, and a single
photo; the number of tables is asked for by a key of the keyboard.

`images`: three files are a row's image, its replacement and a rival replacement; two
handlers and the cleaner are three actors over one row; the other row is the draft of a
dialogue, which an earlier photo may have added: one request deletes it and another photo
adds it again. Two requests are the one that takes a file out of use and the one that
brings it back. A form that
gives one file to two rows needs a third row; that is left to the proof.

`catalogue`: two handlers are a read and the write that comes between it and
its own; two isolates distinguish the writer's from a stale one; two reads are
a replaced one and its successor; three events are a read, a write and the
tick or the fault between them. With prices up to 3 and halves, a
discount rounds, a raise exceeds the largest price, and the base price of a
rounded discount differs from what a recalculation would give.

`panel`: two slots hold a stray poll and its successor, or a list's request and the
poll that refreshes the list; pages of 1 and refreshes of 2 make both `hasMore` and a
gap occur within four orders, of which three may come at once; tokens
last two seconds and clocks leap over or onto a boundary.

`MaxRows` blocks `Insert` at the bound, and behaviours of the other models end when
presses, requests or events are used up, hence `CHECK_DEADLOCK FALSE`: the system
itself has no terminal state to look for.

### Fairness

Only in `desk_retry`: weak fairness of each started invocation's steps,
since a started invocation runs on, and of the cron invocations, since the
trigger fires every minute. None for buttons, for faults, or for the passing of
time. Faults are finite (`MaxFailures`). That the panel's polling never ends is
stated as an invariant instead (`PollingGoesOn`): the timer or the request that the
next poll depends on exists in every state.

### Disagreements between text and code

1. `desk_sync`: an order decided from the panel while `notifyAdmins` is between
   `sendMessage` and its UPDATE keeps its buttons in Telegram, and nothing edits
   them later. The comment on `resolveOrder` (`src/data/orders.js:163-166`) says
   the two never get out of sync. `InSyncUnlessDisturbed` is what does hold.
2. `intake_readme`: `README.md:120` promises three pending orders per table; the
   code allows ten, and three per address at a table.
3. `storefront_once`: the comment on `IDEMPOTENCY_KEY_RE`
   (`src/handlers/orders.js:45-46`) promises that pressing again after a lost
   answer does not record the order again. The key is not stored with the cart,
   so a reload, or a menu refresh that changes the cart's prices, loses it.
   `RecordedOnceUnlessKeyDropped` is what does hold.
4. `bot_cancel`: the comment in `handleUpdate` (`src/telegram.js:52-54`) says that
   an admin can cancel at any stage and that the session is deleted. A step that is
   being handled stores it again, or adds its product afterwards. `EndedStaysEnded`
   is what does hold.

## 4. Proofs

For all values of the constants, from the named assumptions of the modules
(finite sets of admins, handlers and slots, limits and times that are positive
numbers, amounts and percentages within the ranges that the code accepts, special
values that are none of the others).

`OrderDeskProofs`
* `DeskTypeCorrect`: `[]TypeOK`.
* `DeskInvariant`: `[]DeskInv`. The property "notified means every admin has a
  message" is not inductive: it rests on every id held anywhere (row, sender,
  resolver) naming a delivered message about the same order (`IdsIn…`), on the
  flag implying a full list, and on nobody working on a row that does not exist.
* `NotifiedOrdersReachEveryAdmin`, `RewrittenMessagesAreTrue`: the two invariants.
* `InSyncUnlessDisturbedAlways`: from `SyncInv`. An undisturbed order is either being
  announced by its only sender, which holds the ids of everything it has sent, or its
  row names every message there is (`Settled`); hence it can only be decided in the
  second case, and until no button is left a call is about to rewrite just the messages
  that still show them (`Rewritten`).
* `DeskImplementsLifecycle`: each step of the desk is a step of `OrderLifecycle`
  or leaves `status` and what callers were told unchanged.

`OrderIntakeProofs`
* `IntakeTypeCorrect`: `[]TypeOK`.
* `KeyInvariant`, `RetrySafe`, `KeysIdentify`: by an invariant over each handler's
  record (`KeySound`): a handler whose key was recorded before it began still has
  that row, since rows keep their keys (`KeysPersist`), so it can neither insert
  nor get past the lookup unless the lookup failed.
* `LimitInvariant`, `LimitsBounded`: a handler that has been let past a limit is
  counted as if it had inserted. Then the count never exceeds the limit by more
  than the other handlers and the failed counts: when a handler is let past,
  fewer than the limit were counted and at most all handlers are past it
  (`Counting`, the four ways in which a step changes the two sets).
* `LimitsExactInSequence`: one handler at a time and no failed query leave no slack:
  only races and failed counts exceed a limit.

`BotSessionProofs`
* `BotTypeCorrect`: `[](TypeOK /\ BotInv)`. The three properties are not inductive
  by themselves: they rest on each dialogue living in one chat (`OneChat`), on
  the sole handler of a dialogue holding what the session still says (`Current`),
  and on ids being in a session exactly in the steps that add a row (`Formed`).
* `OneRow`, `EndedIsOver`, `MovesForward`: the three properties. The proofs reduce
  every step to a few views of what it does to the sessions held (`Views`).

`CatalogueProofs`
* `CatalogueTypeCorrect`, `NoOrphanProductsAlways`, `FreshWithinTTLAlways`,
  `ServesOwnWritesAlways`, `BulkAsPreviewedAlways`, `KeepsBaseAlways`: all properties
  of `Catalogue`, from one invariant, `CatalogueInv`.
* Its half for the cache (`CacheInv`) says of an entry that has been answered, and of a
  read under way that would become one, that its data is as recent as the marks and the
  isolate's own writes require (`AnswersRecent`, `EntriesKept`), and that nothing is
  ahead of D1 (`NothingAhead`).
* Its half for the catalogue says that what a handler was asked for and has read is
  sound by itself (`HandlersFit`: `Asked` and `Known`), since rows may have changed by
  the time it writes: a product that was listed once never becomes an id that is not
  taken yet (`Listed`, `Grows`), previews and forms hold sound rows (`PreviewsSound`,
  `FormsTyped`), and a form waits for one handler at most (`FormsHeld`).
* Arithmetic: a percentage below 100 rounds down to less than its base
  (`RoundedDown`), and `DiscountPair`, `BulkPair`, `ResolvePrice` and `SavedPair`
  return sound pairs that keep the base (`DiscountTyped`, `BulkTyped`,
  `ResolveTyped` and others).

`PanelProofs`
* `PollingGoesOnAlways`, `OneAtATimeAlways`, `LoggedOutStaysOutAlways`, from `PanelInv`:
  somebody logged in has an active poll with a timer or a request, `busy` stands for one
  of the summaries under way and the others are strays (`Polled`); a summary that two
  queries have not torn determines the version it was read at, and none is newer than
  the database (`Told`); a revocation lasts at least until the second its token expires
  in (`AuthInv`).
* `ListCatchesUpAlways`, in two halves. What the last summary counts was there when a list
  was last asked for (`AsksAgain`, part of `PanelInv`: a summary of another version
  differs in its numbers, unless it was torn). What was asked for is shown or on its way
  (`Coming`): a step asks anew, or it leaves that request where it is, serves it with the
  version of the moment, or shows its answer.
* `PanelTypeCorrect`, `OrdersListedAlways`, for pages and refreshes of any length and
  any number of orders. The list alone is not inductive: rows may be late, so
  `RowsTold` says of the rows under way that they are a run of ids from some top down,
  as long as was asked for or down to the first order, and that the rows for more
  start right below the order they were asked below. An answer then replaces the list
  by a run (`ReplacedListed`), lengthens it at the last order (`AppendedListed`) or
  puts a run on top of the older part of it (`HeadedListed`). The filter that finds
  this part is the one recursive function, `OlderThan`. That it is defined, and what it
  leaves of consecutive orders (`OlderOfConsecutive`), is proved by induction; as no
  prover instantiates the library's induction theorems, the induction rests on the
  least element of a set of numbers (`LeastNumber`, `AllUpTo`).

`StorefrontProofs`, over `OrderIntakeProofs`
* `StoreTypeCorrect`, `StoreImplementsIntake`: the storefront's types, and that each of
  its steps is one of the intake or none (`IntakeStep`): requests under way are ones
  that the intake may receive. So every theorem of `OrderIntakeProofs` holds of the
  handlers behind the phone, and the proofs below use them there.
* `StoreInvariant`, `KeysMeanOrders`, `WishesRecordedOnce`: neither property is
  inductive, for rows are written by handlers that got their request from the network,
  which got it from the page. `CartInv` follows a key all the way: it was sent with one
  order only (`SentOnce`), the page still shows that order as long as it holds the key
  (`PhoneKey`: `saveCart` forgets the key with every change of the cart, and a table
  that was deselected cannot be sent), and requests, handlers and rows carry the
  order that their key stands for (`NetKeys`, `WorkerKeys`, `RowKeys`). `WishInv` says
  when there may be a second key for one wish: a page without a key has either not sent
  the order as it is, or dropped the key by itself, or has nothing in its cart nor in
  sessionStorage (`NothingToSend`). Two rows of one wish then have two keys, because a
  key has one row (`KeysIdentify`), and the page dropped the first (`KeysApart`).
* `ReceiptInvariant`, `ReceiptTellsAlways`, `ReceiptImplementsStore`: a receipt and a
  polling are of an order that exists, since a success names a row (`KeysIdentify`); an
  answer that reports a decision stays right, since rows are not decided back
  (`RowsOnlyGrow`); and unless the receipt was `crowded`, every polling but its own
  has ended (`ChainsApart`; `DrawApart`: `clearTimeout` is enough then).
* `DialogsTypeCorrect`, `LocksMatchAlways`, `EntriesMatchAlways`, `OneLayerAlways`,
  `FadesOnlyClosedAlways`, `NotByItselfAlways`, for histories of any length
  (`MaxHistory`), from `DialogsInv`: only the popup lies over another dialog, the
  cart (`Layers`), so a new entry goes on top of one that is the cart's or of none that
  names a dialog (`EntryAdded`), and one traversal at most is under way and has an entry
  to go back to (`OneTraversal`).

`ImageStoreProofs`
* `ImageTyping`: types, and which local variables each kind of request has set
  (`HandlersOK`), which the rest relies on.
* `ImagesAreSecure`, `NoDeadImageAlways`, `CollectsAlways`. That a row's file exists is
  not inductive: somebody may be about to delete it. `ImagesSecure` says that nobody is
  who should not be. A file in use that was not lost when a form wrote it is stored,
  one row alone refers to it, a handler that has read it as the old file of a row is of
  that row and has not written yet, and the cleaner neither has it on its list nor can
  put it there: it is in the references read, or too young. An upload under a timed name
  that is to come into use is known to one handler only (`HeldFilesPrivate`), and a new
  one to nobody, since whatever is named was stored once (`KnownFiles`). The name that the
  photos of a dialogue share can be held by many; it turns up with the dialogue's row only
  (`OwnPlaces`), and as long as the dialogue can be answered no clean-up has it
  (`PhotosNotDue`).

`SiteProofs`
* `SettingsTypeCorrect`, `SetValuesStayAlways`, `OthersStayAlways`, from
  `SettingsInv`: what was set is in the table (`SetInTable`), what is read agrees with
  what was promised as long as no copy failed, and a copy that is still to be made into
  a table with rows adds none (`CopiesAgree`), and only something is copied
  (`SeedersInherit`).
* `ConfiguredHours`: the hours in `config.js` satisfy what its comment asks of a
  schedule.
* `SameAnswerOnThePhone`: for every schedule, minute and offset `z` the phone gives the
  answer that the server gives `z - 210` minutes later, so both agree if the phone knows
  the zone. The weekday, hour and minute that it formats and puts together again are the
  day and minute of that moment (`ClockTime`). The schedule need not cover the week: on a
  day without a slot the phone announces nothing, where the server looks at tomorrow.
* `NextOpeningIsFirst`, `SalesBoundaries`: for every schedule that covers the week and
  every minute since 1970. With every day in a slot, the next opening is today's or
  tomorrow's, so the proof needs one wrap of the week, the case of Saturday.

Every safety property of a passing run is the conclusion of a theorem. Only
model-checked is `RetriesSettle`, liveness, which TLAPS does not prove.

Only proved: `SiteSettings`, `TehranTime` and `Dialogs` have no run; their theorems hold
for every number of writers, every setting, every minute and every history.

## 5. Not modelled

Not modelled, because nothing but its own text says what it should do:
* validation of strings (`lib/validate.js`) and the month boundary, which asks `Intl`
  for the Jalali calendar;
* whether a product is available: its toggle is a write of `Catalogue`
  (`ToggleProductAvailability`) that leaves the modelled columns alone. A button that
  means "available" toggles too (`makeAvailable`, `public/admin/admin.js:972`), so
  what it reports is wrong when the list is stale;
* the panel's own dialogs (`openLayer`, `closeLayer`), a stack that the browser's
  history does not touch;
* filters of the panel's lists, formatting of messages, rendering, animation, the DOM;
* HTML injection of the first paint, security headers, thumbnails and the edge cache
  (immutable names, no state of the program's own);
* the migrations' rewriting of tables;
* the counter of failed logins (`botState.js:22`), one SQL statement with a fallback
  for databases without it;
* `botmsg:<chat>`, the id of the bot's last message, which only decides what is
  deleted from the screen.
