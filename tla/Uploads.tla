------------------------------- MODULE Uploads -------------------------------
(***************************************************************************)
(* The records of one person's devices (drop_prices, boss_clears,          *)
(* cashbook_entries and their items, enhancement_totals, and the counts of *)
(* enhancement_anomalies and usage_events).  The devices hold the truth,   *)
(* the server keeps copies: it takes the last it received, whatever the    *)
(* order, and a device repeats what it got no answer for.  A batch is      *)
(* written one record after another, each by statements of its own; what   *)
(* was written before one fails stays.                                     *)
(***************************************************************************)
EXTENDS Naturals, Sequences

CONSTANTS
  Devices, NoUpload, Unset,
  Ids,          \* ids devices made; keys of anomalies
  Prices,       \* prices a drop sold at
  SoldAt,       \* times of trade a device sends
  MaxClock,     \* bound: the time stops here
  Retention     \* USAGE_RETENTION_DAYS

ASSUME UploadsAssumption ==
  /\ Prices \subseteq Nat /\ SoldAt \subseteq Nat /\ MaxClock \in Nat /\ Retention \in Nat
  /\ Unset \notin Nat

VARIABLES
  drops,       \* record -> [status, price, priced, difficulty]
  clears,      \* record -> [difficulty, deleted]
  entries,     \* record -> [text, account, deleted]
  entryItems,  \* record -> items: <<text, sort_order>>
  totals,      \* record -> [account, deleted]
  anomalies,   \* key of day, kind, reason and item -> number of rows
  usage,       \* events: [at, received]
  difficulty,  \* whether the row of the boss difficulty they name stands
  uploads,     \* device -> what is being written
  clock

uploadVars ==
  <<drops, clears, entries, entryItems, totals, anomalies, usage, difficulty, uploads, clock>>

UploadsInit ==
  /\ drops = <<>> /\ clears = <<>> /\ entries = <<>> /\ entryItems = <<>> /\ totals = <<>>
  /\ anomalies = <<>> /\ usage = {} /\ difficulty = TRUE
  /\ uploads = [d \in Devices |-> NoUpload] /\ clock = 0

Texts         == {1, 2}
ItemsOf(text) == {text} \X (1..text)    \* what a body of a text brings: 2 has one item more than 1
Earlier(a, b) == IF a < b THEN a ELSE b
Over(t, k, row) == [x \in DOMAIN t \cup {k} |-> IF x = k THEN row ELSE t[x]]

-----------------------------------------------------------------------------
(* What devices send.  Of the statuses without a price one stands for both, and one count of *)
(* anomalies and one event for all that a request carries.                                   *)

\* An app from before these columns sends no boss, no time of trade and prices only.
DropBodies ==
  [table : {"drop"}, record : Ids, status : {"completed"}, price : Prices, sold : {Unset},
   boss : {FALSE}, known : {TRUE}]
    \cup [table : {"drop"}, record : Ids, status : {"pending", "completed"},
          price : Prices \cup {Unset}, sold : SoldAt \cup {Unset}, boss : {TRUE}, known : {TRUE}]
    \cup [table : {"drop"}, record : Ids, status : {"completed"}, price : Prices, sold : SoldAt,
          boss : {TRUE}, known : {FALSE}]

\* shares: both shares are given, as a split by ratio needs them.
ClearBodies ==
  [table : {"clear"}, record : Ids, shares : BOOLEAN, known : BOOLEAN]
EntryBodies   == [table : {"entry"}, record : Ids, text : Texts, account : BOOLEAN]
TotalBodies   == [table : {"total"}, record : Ids, account : BOOLEAN]
AnomalyBodies == [table : {"anomaly"}, record : Ids, rows : {1, 2}]
UsageBodies   == [table : {"usage"}, at : 0..MaxClock]
Bodies == DropBodies \cup ClearBodies \cup EntryBodies \cup TotalBodies
            \cup AnomalyBodies \cup UsageBodies

\* The checks of the bodies; the columns of drop_prices check the same.
WellFormed(b) ==
  /\ b.table = "drop" => (b.status = "completed") = (b.price # Unset)
  /\ b.table = "clear" => b.shares

Rests(d) == uploads[d] = NoUpload

\* A batch at the next of its records; old: items of an entry the request has deleted.
Batch(q) == [rest |-> q, step |-> "look", found |-> FALSE, old |-> {}]

Send(d, tables, most) == \E n \in 1..most :
  \E q \in [1..n -> {b \in Bodies : b.table \in tables}] :
    /\ Rests(d)
    /\ uploads' = [uploads EXCEPT ![d] = Batch(q)]
    /\ UNCHANGED <<drops, clears, entries, entryItems, totals, anomalies, usage, difficulty, clock>>

-----------------------------------------------------------------------------
(* One record after another. *)

Body(d)       == Head(uploads[d].rest)
Does(d, table, step) == ~Rests(d) /\ uploads[d].step = step /\ Body(d).table = table
After(d)      == IF Len(uploads[d].rest) = 1 THEN NoUpload
                 ELSE Batch(Tail(uploads[d].rest))
Through(d)    == uploads' = [uploads EXCEPT ![d] = After(d)] /\ UNCHANGED <<difficulty, clock>>

\* On to another step of the same record.
Onto(d, step, found, old) ==
  uploads' = [uploads EXCEPT ![d] = [rest |-> uploads[d].rest, step |-> step,
                                     found |-> found, old |-> old]]

\* eachInBatch: a body that is wrong, or names an item or a world no table has, fails alone.
Reject(d) ==
  /\ ~Rests(d) /\ uploads[d].step = "look"
  /\ ~WellFormed(Body(d)) \/ (Body(d).table \in {"drop", "clear"} /\ ~Body(d).known)
  /\ Through(d)
  /\ UNCHANGED <<drops, clears, entries, entryItems, totals, anomalies, usage>>

\* save: the boss and the difficulty are looked up first, and their row may be deleted before the
\* record is written.
FindDifficulty(d) ==
  /\ ~Rests(d) /\ uploads[d].step = "look" /\ Body(d).table \in {"drop", "clear"}
  /\ WellFormed(Body(d)) /\ Body(d).known
  /\ Onto(d, "write", difficulty /\ (Body(d).table = "drop" => Body(d).boss), {})
  /\ UNCHANGED <<drops, clears, entries, entryItems, totals, anomalies, usage, difficulty, clock>>

\* The foreign key refuses a row of a difficulty that is gone: an error nobody expects, and the
\* request ends with it.
Refused(d) == uploads[d].found /\ ~difficulty
Dangling(d) ==
  /\ ~Rests(d) /\ uploads[d].step = "write" /\ Refused(d)
  /\ uploads' = [uploads EXCEPT ![d] = NoUpload]
  /\ UNCHANGED <<drops, clears, entries, entryItems, totals, anomalies, usage, difficulty, clock>>

\* Mutant: what is sent without a time of trade is of now.
ReceivedNow(old, b) ==
  IF b.status # "completed" THEN Unset
  ELSE IF b.sold # Unset THEN Earlier(b.sold, clock) ELSE clock

\* A time of trade lies not in the future.  Without one it is the time the price came: a price
\* that is there already keeps its time.
PricedAt(old, b) ==
  IF b.status # "completed" THEN Unset
  ELSE IF b.sold # Unset THEN Earlier(b.sold, clock)
  ELSE IF b.record \in DOMAIN old /\ old[b.record].status = "completed"
            /\ old[b.record].price = b.price THEN old[b.record].priced
  ELSE clock

UpsertDrop(d) ==
  LET b == Body(d)
  IN /\ Does(d, "drop", "write") /\ ~Refused(d) /\ Through(d)
     /\ drops' = Over(drops, b.record,
                      [status |-> b.status, price |-> b.price, priced |-> PricedAt(drops, b),
                       difficulty |-> uploads[d].found])
     /\ UNCHANGED <<clears, entries, entryItems, totals, anomalies, usage>>

UpsertClear(d) ==
  /\ Does(d, "clear", "write") /\ ~Refused(d) /\ Through(d)
  /\ clears' = Over(clears, Body(d).record,
                    [difficulty |-> uploads[d].found, deleted |-> Unset])
  /\ UNCHANGED <<drops, entries, entryItems, totals, anomalies, usage>>

\* The account may be known to the server or not.
UpsertTotal(d) == \E found \in BOOLEAN :
  /\ Does(d, "total", "look") /\ Through(d)
  /\ totals' = Over(totals, Body(d).record,
                    [account |-> found /\ Body(d).account, deleted |-> Unset])
  /\ UNCHANGED <<drops, clears, entries, entryItems, anomalies, usage>>

UpsertAnomaly(d) ==
  /\ Does(d, "anomaly", "look") /\ Through(d)
  /\ anomalies' = Over(anomalies, Body(d).record, Body(d).rows)
  /\ UNCHANGED <<drops, clears, entries, entryItems, totals, usage>>

InsertUsage(d) ==
  /\ Does(d, "usage", "look") /\ Through(d)
  /\ usage' = usage \cup {[at |-> Earlier(Body(d).at, clock), received |-> clock]}
  /\ UNCHANGED <<drops, clears, entries, entryItems, totals, anomalies>>

-----------------------------------------------------------------------------
(* An entry and its items are one transaction of three statements.  From the first on it holds   *)
(* the row, or the key of a row that is new, and nobody else sees what it wrote until it commits. *)

InEntry          == {"delete", "insert", "commit"}
Holds(d, record) == ~Rests(d) /\ uploads[d].step \in InEntry /\ Body(d).record = record
\* Mutant: no lock, or one on nothing the other devices ask for.
FreeAlways(record) == TRUE

Free(record)     == \A d \in Devices : ~Holds(d, record)

\* INSERT .. ON CONFLICT DO UPDATE: waits for whoever holds the row.
WriteRow(d) == \E found \in BOOLEAN :
  /\ Does(d, "entry", "look") /\ Free(Body(d).record)
  /\ Onto(d, "delete", found, {})
  /\ UNCHANGED <<drops, clears, entries, entryItems, totals, anomalies, usage, difficulty, clock>>

\* The statement deletes what is committed by then, and what is committed later it does not see.
Items(record) == IF record \in DOMAIN entryItems THEN entryItems[record] ELSE {}
DeleteItems(d) ==
  /\ Does(d, "entry", "delete")
  /\ Onto(d, "insert", uploads[d].found, Items(Body(d).record))
  /\ UNCHANGED <<drops, clears, entries, entryItems, totals, anomalies, usage, difficulty, clock>>

InsertItems(d) ==
  /\ Does(d, "entry", "insert")
  /\ Onto(d, "commit", uploads[d].found, uploads[d].old)
  /\ UNCHANGED <<drops, clears, entries, entryItems, totals, anomalies, usage, difficulty, clock>>

EntryRow(d) == [text    |-> Body(d).text,
                account |-> uploads[d].found /\ Body(d).account,
                deleted |-> Unset]
Left(d)     == Items(Body(d).record) \ uploads[d].old

CommitEntry(d) ==
  /\ Does(d, "entry", "commit") /\ Through(d)
  /\ entries' = Over(entries, Body(d).record, EntryRow(d))
  /\ entryItems' = Over(entryItems, Body(d).record, Left(d) \cup ItemsOf(Body(d).text))
  /\ UNCHANGED <<drops, clears, totals, anomalies, usage>>

-----------------------------------------------------------------------------
(* A record disappears from the device: the row stays, marked.  It comes back when it is sent    *)
(* again.  A row there is none of, or none that is committed, is left alone.                     *)

Marked(t, k) == IF k \notin DOMAIN t THEN t
                ELSE [t EXCEPT ![k].deleted = IF @ = Unset THEN clock ELSE @]

MarkDropDeleted(record) ==
  /\ drops' = IF record \notin DOMAIN drops THEN drops
              ELSE [drops EXCEPT ![record].status = "deleted", ![record].price = Unset,
                                 ![record].priced = Unset]
  /\ UNCHANGED <<clears, entries, entryItems, totals, anomalies, usage, difficulty, uploads, clock>>

MarkClearDeleted(record) ==
  /\ clears' = Marked(clears, record)
  /\ UNCHANGED <<drops, entries, entryItems, totals, anomalies, usage, difficulty, uploads, clock>>

MarkEntryDeleted(record) ==
  /\ record \in DOMAIN entries => Free(record)
  /\ entries' = Marked(entries, record)
  /\ UNCHANGED <<drops, clears, entryItems, totals, anomalies, usage, difficulty, uploads, clock>>

MarkTotalDeleted(record) ==
  /\ totals' = Marked(totals, record)
  /\ UNCHANGED <<drops, clears, entries, entryItems, anomalies, usage, difficulty, uploads, clock>>

-----------------------------------------------------------------------------
\* An operator deletes the difficulty (Bosses: DeleteDifficulty): ON DELETE SET NULL.  One that is
\* made later is another row.
LoseDifficulty ==
  /\ difficulty /\ difficulty' = FALSE
  /\ drops'  = [k \in DOMAIN drops |-> [drops[k] EXCEPT !.difficulty = FALSE]]
  /\ clears' = [k \in DOMAIN clears |-> [clears[k] EXCEPT !.difficulty = FALSE]]
  /\ UNCHANGED <<entries, entryItems, totals, anomalies, usage, uploads, clock>>

\* The nightly purge of the usage log.
PurgeUsage ==
  /\ usage' = {e \in usage : e.at + Retention >= clock}
  /\ UNCHANGED <<drops, clears, entries, entryItems, totals, anomalies, difficulty, uploads, clock>>

\* The connection, the process or the database goes: an open transaction is rolled back, and the
\* device repeats the request, or a later one, when it likes (Send).
CutUpload(d) ==
  /\ ~Rests(d) /\ uploads' = [uploads EXCEPT ![d] = NoUpload]
  /\ UNCHANGED <<drops, clears, entries, entryItems, totals, anomalies, usage, difficulty, clock>>

ClockMoves ==
  /\ clock < MaxClock /\ clock' = clock + 1
  /\ UNCHANGED <<drops, clears, entries, entryItems, totals, anomalies, usage, difficulty, uploads>>

\* tables: what is sent; most: records of a batch.
UploadsNext(tables, most) ==
  \/ \E d \in Devices :
       \/ Send(d, tables, most) \/ Reject(d) \/ FindDifficulty(d) \/ Dangling(d)
       \/ UpsertDrop(d) \/ UpsertClear(d) \/ UpsertTotal(d) \/ UpsertAnomaly(d) \/ InsertUsage(d)
       \/ WriteRow(d) \/ DeleteItems(d) \/ InsertItems(d) \/ CommitEntry(d) \/ CutUpload(d)
  \/ \E record \in Ids :
       \/ "drop" \in tables /\ MarkDropDeleted(record)
       \/ "clear" \in tables /\ MarkClearDeleted(record)
       \/ "entry" \in tables /\ MarkEntryDeleted(record)
       \/ "total" \in tables /\ MarkTotalDeleted(record)
  \/ tables \cap {"drop", "clear"} # {} /\ LoseDifficulty
  \/ "usage" \in tables /\ PurgeUsage
  \/ ClockMoves

-----------------------------------------------------------------------------
(* Properties. *)

\* The items of an entry are those that came with it, all of them and no others, whoever sends it
\* again between the statements of another and wherever a request is cut off.  The unique index on
\* entry and place, which refuses items put beside others, never has to.
EntryItemsWhole ==
  /\ DOMAIN entryItems = DOMAIN entries
  /\ \A k \in DOMAIN entries : entryItems[k] = ItemsOf(entries[k].text)
  /\ \A d \in Devices : Does(d, "entry", "insert") => Left(d) = {}

\* The market counts a price at the day it was traded: the time of a price that is there already
\* moves only when a device tells a time, never because it was sent once more.
TradeTimeKept ==
  [][\A k \in DOMAIN drops \cap DOMAIN drops' :
       /\ drops[k].status = "completed" /\ drops'[k].status = "completed"
       /\ drops'[k].price = drops[k].price /\ drops'[k].priced # drops[k].priced
       => \E d \in Devices : Does(d, "drop", "write") /\ Body(d).record = k /\ Body(d).sold # Unset]_uploadVars

=============================================================================
