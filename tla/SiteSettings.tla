---------------------------- MODULE SiteSettings ----------------------------
(***************************************************************************)
(* The settings of the site (data/site.js): logo, cover, number of tables, *)
(* whether the codes of the tables must be signed. They are the rows of a  *)
(* table in D1. An earlier version kept them in one KV value, site:config, *)
(* which nobody writes any more: it is read as long as the table has no    *)
(* row, and whoever writes into an empty table first copies it there.      *)
(*                                                                         *)
(* The copy is made of a count, a read of KV and a batch, it can fail      *)
(* without anybody noticing (seedFromKvIfEmpty catches its errors), and    *)
(* several writers may be at it at once.                                   *)
(***************************************************************************)
CONSTANTS
    Keys,       \* names of settings
    Values,     \* what a setting can be set to
    Handlers    \* requests and updates that may be handled at the same time

VARIABLES
    table,      \* the rows: a function from the keys that have one
    legacy,     \* what site:config says, likewise
    handler,    \* handler[h]: the local variables of a running setSiteSetting
    promised,   \* history: what each setting was last set to, or said at first
    written,    \* history: the settings that have been set
    unseeded    \* history: a setting went into the empty table without the copy

tableVars == <<table, legacy, promised, written, unseeded>>
vars == <<tableVars, handler>>

-----------------------------------------------------------------------------
Empty == DOMAIN table = {}

\* readSiteConfig: what a read of D1 and KV finds now; settings without a value
\* have their defaults. A read that fails to reach KV finds nothing but defaults,
\* which last as long as any other answer (MenuCache).
Contents == IF Empty THEN legacy ELSE table

\* Settings f, and those of g that f does not have.
Completed(f, g) ==
    [k \in DOMAIN f \cup DOMAIN g |-> IF k \in DOMAIN f THEN f[k] ELSE g[k]]

Set(f, k, v) == Completed([j \in {k} |-> v], f)

Idle == [pc |-> "idle"]

At(h, pc) == handler[h].pc = pc

Goto(h, pc) == handler' = [handler EXCEPT ![h].pc = pc]

\* setSiteSetting, called for an image, the number of tables or the signatures.
Begin(h, k, v) ==
    /\ At(h, "idle")
    /\ handler' = [handler EXCEPT ![h] = [pc |-> "count", key |-> k, value |-> v]]
    /\ UNCHANGED tableVars

\* SELECT COUNT(*), and site:config if there is no row yet.
Count(h) ==
    /\ At(h, "count")
    /\ Goto(h, IF Empty /\ DOMAIN legacy # {} THEN "seed" ELSE "write")
    /\ UNCHANGED tableVars

\* The batch of INSERT OR IGNORE: a row that has come meanwhile stays.
Seed(h) ==
    /\ At(h, "seed")
    /\ table' = Completed(table, legacy)
    /\ Goto(h, "write")
    /\ UNCHANGED <<legacy, promised, written, unseeded>>

\* A query of the copy throws, which is logged.
SeedFails(h) ==
    /\ At(h, "count") \/ At(h, "seed")
    /\ Goto(h, "write")
    /\ UNCHANGED tableVars

\* INSERT OR REPLACE.
Write(h) ==
    LET k == handler[h].key
        v == handler[h].value
    IN  /\ At(h, "write")
        /\ table' = Set(table, k, v)
        /\ promised' = Set(promised, k, v)
        /\ written' = written \cup {k}
        /\ unseeded' = (unseeded \/ (Empty /\ DOMAIN legacy # {}))
        /\ handler' = [handler EXCEPT ![h] = Idle]
        /\ UNCHANGED legacy

\* The write fails, or the invocation is cancelled.
Fail(h) ==
    /\ ~At(h, "idle")
    /\ handler' = [handler EXCEPT ![h] = Idle]
    /\ UNCHANGED tableVars

-----------------------------------------------------------------------------
Settings == UNION {[S -> Values] : S \in SUBSET Keys}

Init ==
    /\ table \in Settings
    /\ legacy \in Settings
    /\ handler = [h \in Handlers |-> Idle]
    /\ promised = Contents
    /\ written = {}
    /\ unseeded = FALSE

Next ==
    \E h \in Handlers :
        \/ \E k \in Keys, v \in Values : Begin(h, k, v)
        \/ Count(h) \/ Seed(h) \/ SeedFails(h) \/ Write(h) \/ Fail(h)

Spec == Init /\ [][Next]_vars

-----------------------------------------------------------------------------
\* Every variable has its type.
SettingsTypeOK ==
    /\ {table, legacy, promised} \subseteq Settings
    /\ handler \in [Handlers ->
          {Idle} \cup [pc : {"count", "seed", "write"}, key : Keys, value : Values]]
    /\ written \subseteq Keys
    /\ unseeded \in BOOLEAN

\* A setting that has been set reads as what it was last set to, however many
\* copies of site:config are under way or fail (INSERT OR IGNORE of
\* seedFromKvIfEmpty against INSERT OR REPLACE of setSiteSetting).
SetValuesStay ==
    \A k \in written :
        k \in DOMAIN Contents /\ k \in DOMAIN promised /\ Contents[k] = promised[k]

\* Setting one of them changes no other: the rest reads as it did in site:config,
\* unless a setting was written after a copy that failed (seedFromKvIfEmpty).
OthersStay == ~unseeded => Contents = promised
=============================================================================
