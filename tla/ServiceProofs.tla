---------------------------- MODULE ServiceProofs ----------------------------
(***************************************************************************)
(* What is proved of the service, for any number of devices, records,      *)
(* trades and nights: entries of the cashbook keep their own items, the    *)
(* time of a trade stays, the band follows Nexon, half of the trades a     *)
(* fence is made of are within it and verdicts of the past stay, and       *)
(* persons are merged and deleted the way AccountsProofs shows of their    *)
(* steps.                                                                  *)
(***************************************************************************)
EXTENDS Service, AccountsProofs, FiniteSetTheorems, WellFoundedInduction

USE DEF accountVars, uploadVars, settlementVars, marketVars, bucketVars, people, records, world

-----------------------------------------------------------------------------
(* Entries and their items. *)

\* One device at a time is within the transaction of an entry, and what it has deleted is all
\* there was.
ItemsInv ==
  /\ EntryItemsWhole
  /\ DOMAIN uploads = Devices
  /\ \A d, e \in Devices :
       ~Rests(d) /\ uploads[d].step \in InEntry /\ Holds(e, Body(d).record) => d = e
  /\ \A d \in Devices :
       ~Rests(d) /\ uploads[d].step \in {"insert", "commit"} => Left(d) = {}

\* No step of the devices, whatever tables they write, parts an entry from its items.
LEMMA UploadsKeepItems ==
  ASSUME NEW tables, NEW most, ItemsInv, UploadsNext(tables, most)
  PROVE  ItemsInv'
<1> USE DEF ItemsInv, EntryItemsWhole
<1>1. ASSUME UNCHANGED <<entries, entryItems>>, NEW d \in Devices, NEW x,
             uploads' = [uploads EXCEPT ![d] = x], x = NoUpload \/ x.step \notin InEntry
      PROVE  ItemsInv'
  <2>1. /\ DOMAIN uploads' = Devices /\ \A e \in Devices \ {d} : uploads'[e] = uploads[e]
        /\ uploads'[d] = NoUpload \/ uploads'[d].step \notin InEntry
    BY <1>1
  <2> QED
    BY <1>1, <2>1 DEF Rests, Holds, Body, Left, Items, InEntry, Does
<1>2. ASSUME UNCHANGED <<entries, entryItems>>, NEW d \in Devices, NEW q,
             uploads' = [uploads EXCEPT ![d] = NoUpload] \/ uploads' = [uploads EXCEPT ![d] = Batch(q)]
      PROVE  ItemsInv'
  <2>1. Batch(q).step \notin InEntry
    BY DEF Batch, InEntry
  <2> QED
    BY <1>1, <1>2, <2>1
<1>3. ASSUME UNCHANGED <<entries, entryItems>>, NEW d \in Devices, Through(d) PROVE ItemsInv'
  BY <1>2, <1>3 DEF Through, After
<1>4. CASE UNCHANGED <<entries, entryItems, uploads>>
  BY <1>4 DEF Rests, Holds, Body, Left, Items, Does
<1>5. ASSUME NEW d \in Devices, NEW step, NEW found, NEW old, Onto(d, step, found, old)
      PROVE  /\ DOMAIN uploads' = Devices /\ \A e \in Devices \ {d} : uploads'[e] = uploads[e]
             /\ uploads'[d].step = step /\ uploads'[d].old = old /\ Body(d)' = Body(d)
  BY <1>5 DEF Onto, Body
<1>6. ASSUME NEW d \in Devices, WriteRow(d) PROVE ItemsInv'
  <2>1. UNCHANGED <<entries, entryItems>>
    BY <1>6 DEF WriteRow
  <2>2. /\ DOMAIN uploads' = Devices /\ \A e \in Devices \ {d} : uploads'[e] = uploads[e]
        /\ uploads'[d].step = "delete" /\ Body(d)' = Body(d)
    BY <1>5, <1>6 DEF WriteRow
  <2>3. \A e \in Devices : ~Rests(e) /\ uploads[e].step \in InEntry => Body(e).record # Body(d).record
    BY <1>6 DEF WriteRow, Free, Holds
  <2> QED
    BY <2>1, <2>2, <2>3 DEF Rests, Holds, Left, Items, Does, Body, InEntry
<1>7. ASSUME NEW d \in Devices, DeleteItems(d) PROVE ItemsInv'
  <2>1. ~Rests(d) /\ uploads[d].step \in InEntry /\ UNCHANGED <<entries, entryItems>>
    BY <1>7 DEF DeleteItems, Does, InEntry
  <2>2. /\ DOMAIN uploads' = Devices /\ \A e \in Devices \ {d} : uploads'[e] = uploads[e]
        /\ uploads'[d].step = "insert" /\ uploads'[d].old = Items(Body(d).record)
        /\ Body(d)' = Body(d)
    BY <1>5, <1>7 DEF DeleteItems
  <2>3. Left(d)' = {}
    BY <2>1, <2>2 DEF Left, Items
  <2> QED
    BY <2>1, <2>2, <2>3 DEF Rests, Holds, Left, Items, Does, Body
<1>8. ASSUME NEW d \in Devices, InsertItems(d) PROVE ItemsInv'
  <2>1. ~Rests(d) /\ uploads[d].step = "insert" /\ UNCHANGED <<entries, entryItems>>
    BY <1>8 DEF InsertItems, Does
  <2>2. /\ DOMAIN uploads' = Devices /\ \A e \in Devices \ {d} : uploads'[e] = uploads[e]
        /\ uploads'[d].step = "commit" /\ uploads'[d].old = uploads[d].old
        /\ Body(d)' = Body(d)
    BY <1>5, <1>8 DEF InsertItems
  <2>3. Left(d)' = {}
    BY <2>1, <2>2 DEF Left, Items
  <2> QED
    BY <2>1, <2>2, <2>3 DEF Rests, Holds, Left, Items, Does, Body, InEntry
<1>9. ASSUME NEW d \in Devices, CommitEntry(d) PROVE ItemsInv'
  <2> DEFINE k == Body(d).record
  <2>1. uploads' = [uploads EXCEPT ![d] = After(d)] /\ Left(d) = {}
    BY <1>9 DEF CommitEntry, Through, Does
  <2>2. After(d) = NoUpload \/ After(d).step \notin InEntry
    <3>1. \A q : Batch(q).step \notin InEntry
      BY DEF Batch, InEntry
    <3> QED
      BY <3>1 DEF After
  <2>3. /\ DOMAIN uploads' = Devices /\ \A e \in Devices \ {d} : uploads'[e] = uploads[e]
        /\ uploads'[d] = After(d)
    BY <2>1
  <2>4. /\ DOMAIN entries' = DOMAIN entries \cup {k} /\ DOMAIN entryItems' = DOMAIN entryItems \cup {k}
        /\ entries'[k].text = Body(d).text /\ entryItems'[k] = ItemsOf(Body(d).text)
        /\ \A x \in DOMAIN entries \ {k} : entries'[x] = entries[x] /\ entryItems'[x] = entryItems[x]
    BY <1>9, <2>1 DEF CommitEntry, Over, EntryRow
  <2>5. /\ DOMAIN entryItems' = DOMAIN entries'
        /\ \A x \in DOMAIN entries' : entryItems'[x] = ItemsOf(entries'[x].text)
    BY <2>4
  <2>6. \A e \in Devices \ {d} : ~Rests(e) /\ uploads[e].step \in InEntry => Body(e).record # k
    BY <1>9 DEF CommitEntry, Does, InEntry, Holds
  <2>7. \A e \in Devices \ {d} : Rests(e)' = Rests(e) /\ Body(e)' = Body(e)
    BY <2>3 DEF Rests, Body
  <2>8. \A e \in Devices \ {d} : Body(e).record # k => Items(Body(e).record)' = Items(Body(e).record)
    <3>1. \A x : x # k => Items(x)' = Items(x)
      BY <2>4 DEF Items
    <3> QED
      BY <2>7, <3>1 DEF Items
  <2>9. \A e \in Devices : ~Rests(e)' /\ uploads'[e].step \in {"insert", "commit"} => Left(e)' = {}
    <3> SUFFICES ASSUME NEW e \in Devices, ~Rests(e)', uploads'[e].step \in {"insert", "commit"}
                 PROVE  Left(e)' = {}
      OBVIOUS
    <3>1. e # d
      BY <2>2, <2>3 DEF Rests, InEntry
    <3>2. ~Rests(e) /\ uploads[e].step \in InEntry /\ uploads[e].step \in {"insert", "commit"}
      BY <2>3, <2>7, <3>1 DEF InEntry
    <3>3. Left(e)' = Items(Body(e).record)' \ uploads[e].old
      BY <2>3, <2>7, <3>1 DEF Left, Items
    <3> QED
      BY <2>6, <2>8, <3>1, <3>2, <3>3 DEF Left
  <2>10. (\A x, e \in Devices :
           ~Rests(x) /\ uploads[x].step \in InEntry /\ Holds(e, Body(x).record) => x = e)'
    BY <2>2, <2>3, <2>7 DEF Rests, Holds
  <2>11. \A e \in Devices : Does(e, "entry", "insert")' => Left(e)' = {}
    BY <2>9 DEF Does
  <2> QED
    BY <2>3, <2>5, <2>9, <2>10, <2>11
<1>10. ASSUME NEW record \in Ids, MarkEntryDeleted(record) PROVE ItemsInv'
  <2>1. /\ DOMAIN entries' = DOMAIN entries /\ UNCHANGED <<entryItems, uploads>>
        /\ \A k \in DOMAIN entries : entries'[k].text = entries[k].text
    BY <1>10 DEF MarkEntryDeleted, Marked
  <2> QED
    BY <2>1 DEF Rests, Holds, Body, Left, Items, Does
<1>11. ASSUME NEW d \in Devices, FindDifficulty(d) PROVE ItemsInv'
  <2>1. UNCHANGED <<entries, entryItems>>
    BY <1>11 DEF FindDifficulty
  <2> DEFINE x == [rest |-> uploads[d].rest, step |-> "write", old |-> {},
                   found |-> difficulty /\ (Body(d).table = "drop" => Body(d).boss)]
  <2>2. uploads' = [uploads EXCEPT ![d] = x] /\ x.step \notin InEntry
    BY <1>11 DEF FindDifficulty, Onto, InEntry
  <2> HIDE DEF x
  <2> QED
    BY <1>1, <2>1, <2>2
<1>12. ASSUME NEW d \in Devices, Send(d, tables, most) \/ Dangling(d) \/ CutUpload(d) PROVE ItemsInv'
  BY <1>2, <1>12 DEF Send, Dangling, CutUpload
<1>13. ASSUME NEW d \in Devices,
              \/ Reject(d) \/ UpsertDrop(d) \/ UpsertClear(d) \/ UpsertTotal(d)
              \/ UpsertAnomaly(d) \/ InsertUsage(d)
       PROVE  ItemsInv'
  BY <1>3, <1>13 DEF Reject, UpsertDrop, UpsertClear, UpsertTotal, UpsertAnomaly, InsertUsage
<1>14. ASSUME \/ \E record \in Ids : \/ MarkDropDeleted(record) \/ MarkClearDeleted(record)
                                     \/ MarkTotalDeleted(record)
              \/ LoseDifficulty \/ PurgeUsage \/ ClockMoves
       PROVE  ItemsInv'
  BY <1>4, <1>14
     DEF MarkDropDeleted, MarkClearDeleted, MarkTotalDeleted, LoseDifficulty, PurgeUsage, ClockMoves
<1> QED
  BY <1>6, <1>7, <1>8, <1>9, <1>10, <1>11, <1>12, <1>13, <1>14 DEF UploadsNext

\* The items of an entry are those that came with it, however many devices send it at once, step
\* between each other's statements and are cut off: the row holds the others off until the commit,
\* so whoever deletes the items deletes all there are (EntryItemsWhole).
THEOREM EntriesKeepTheirItems == Spec => []EntryItemsWhole
<1>1. Init => ItemsInv
  BY DEF Init, UploadsInit, ItemsInv, EntryItemsWhole, Rests, Does
<1>2. ItemsInv /\ [Next]_vars => ItemsInv'
  <2> SUFFICES ASSUME ItemsInv, [Next]_vars PROVE ItemsInv'
    OBVIOUS
  <2>1. CASE UNCHANGED uploadVars
    BY <2>1 DEF ItemsInv, EntryItemsWhole, Rests, Holds, Body, Left, Items, Does
  <2>2. CASE OfUploads
    BY <2>2, UploadsKeepItems DEF OfUploads
  <2> QED
    BY <2>1, <2>2 DEF Next, vars
<1>3. ItemsInv => EntryItemsWhole
  BY DEF ItemsInv
<1> QED
  BY <1>1, <1>2, <1>3, PTL DEF Spec

-----------------------------------------------------------------------------
(* The time of a trade. *)

TimeKept ==
  \A k \in DOMAIN drops \cap DOMAIN drops' :
    /\ drops[k].status = "completed" /\ drops'[k].status = "completed"
    /\ drops'[k].price = drops[k].price /\ drops'[k].priced # drops[k].priced
    => \E d \in Devices : Does(d, "drop", "write") /\ Body(d).record = k /\ Body(d).sold # Unset

\* Every row has these columns.
DropRows == \A k \in DOMAIN drops :
  drops[k] = [status |-> drops[k].status, price |-> drops[k].price, priced |-> drops[k].priced,
              difficulty |-> drops[k].difficulty]

LEMMA UploadsKeepColumns ==
  ASSUME NEW tables, NEW most, DropRows, UploadsNext(tables, most)
  PROVE  DropRows'
<1> USE DEF DropRows
<1>1. CASE UNCHANGED drops
  BY <1>1
<1>2. ASSUME NEW d \in Devices, UpsertDrop(d) PROVE DropRows'
  BY <1>2 DEF UpsertDrop, Over
<1>3. ASSUME NEW record \in Ids, MarkDropDeleted(record) PROVE DropRows'
  BY <1>3 DEF MarkDropDeleted
<1>4. CASE LoseDifficulty
  BY <1>4 DEF LoseDifficulty
<1> QED
  BY <1>1, <1>2, <1>3, <1>4
     DEF UploadsNext, Send, Reject, FindDifficulty, Dangling, UpsertClear, UpsertTotal,
         UpsertAnomaly, InsertUsage, WriteRow, DeleteItems, InsertItems, CommitEntry, CutUpload,
         MarkClearDeleted,
         MarkEntryDeleted, MarkTotalDeleted, PurgeUsage, ClockMoves, Through

\* A step that moves the time of a price that stays is an upsert that tells a time.
LEMMA UploadsKeepTimes ==
  ASSUME NEW tables, NEW most, DropRows, UploadsNext(tables, most)
  PROVE  TimeKept
<1>1. CASE UNCHANGED drops
  BY <1>1 DEF TimeKept
<1>2. ASSUME NEW d \in Devices, UpsertDrop(d) PROVE TimeKept
  <2> DEFINE b == Body(d)
  <2> SUFFICES ASSUME NEW k \in DOMAIN drops \cap DOMAIN drops',
                      drops[k].status = "completed", drops'[k].status = "completed",
                      drops'[k].price = drops[k].price, drops'[k].priced # drops[k].priced
               PROVE  Does(d, "drop", "write") /\ b.record = k /\ b.sold # Unset
    BY DEF TimeKept
  <2>1. b.record = k
    BY <1>2 DEF UpsertDrop, Over
  <2>2. /\ drops'[k].status = b.status /\ drops'[k].price = b.price
        /\ drops'[k].priced = PricedAt(drops, b)
    BY <1>2, <2>1 DEF UpsertDrop, Over
  <2>3. b.sold # Unset
    BY <2>1, <2>2 DEF PricedAt
  <2> QED
    BY <1>2, <2>1, <2>3 DEF UpsertDrop
<1>3. ASSUME NEW record \in Ids, MarkDropDeleted(record) PROVE TimeKept
  BY <1>3 DEF MarkDropDeleted, TimeKept
<1>4. CASE LoseDifficulty
  BY <1>4 DEF LoseDifficulty, TimeKept, DropRows
<1> QED
  BY <1>1, <1>2, <1>3, <1>4
     DEF UploadsNext, Send, Reject, FindDifficulty, Dangling, UpsertClear, UpsertTotal,
         UpsertAnomaly, InsertUsage, WriteRow, DeleteItems, InsertItems, CommitEntry, CutUpload,
         MarkClearDeleted,
         MarkEntryDeleted, MarkTotalDeleted, PurgeUsage, ClockMoves, Through

\* Sending a price again never moves it on the market (TradeTimeKept).
THEOREM TradeTimesStay == Spec => TradeTimeKept
<1>1. Init => DropRows
  BY DEF Init, UploadsInit, DropRows
<1>2. DropRows /\ [Next]_vars => DropRows' /\ [TimeKept]_uploadVars
  <2> SUFFICES ASSUME DropRows, [Next]_vars PROVE DropRows' /\ [TimeKept]_uploadVars
    OBVIOUS
  <2>1. CASE UNCHANGED uploadVars
    BY <2>1 DEF DropRows
  <2>2. CASE OfUploads
    BY <2>2, UploadsKeepColumns, UploadsKeepTimes DEF OfUploads
  <2> QED
    BY <2>1, <2>2 DEF Next, vars
<1> QED
  BY <1>1, <1>2, PTL DEF Spec, TradeTimeKept, TimeKept

-----------------------------------------------------------------------------
(* The watch. *)

WatchTypeOK ==
  /\ night \in Nat /\ inWindow \in BOOLEAN /\ nexon \in {"before", "settling", "done"}
  /\ watch \in [night : Nat \cup {NoNight}, settling : BOOLEAN, finished : BOOLEAN]
  /\ probe \in {"none", "asked", "settling", "settled", "unknown"}

\* What was seen was seen in this night or one before, and of this night it is true.  While a
\* probe is out nothing else is taken in, so its answer is still true of what the watch saw.
WatchInv ==
  /\ WatchTypeOK
  /\ watch.settling => watch.night \in Nat /\ watch.night <= night
  /\ watch.settling /\ watch.night = night => nexon # "before"
  /\ watch.finished => watch.night \in Nat /\ watch.night <= night
  /\ probe = "settling" => nexon # "before"
  /\ probe = "settled" /\ watch.settling /\ watch.night = night => nexon = "done"
  /\ probe # "none" => ~(watch.night = night /\ watch.finished)

BandStep ==
  /\ ~Shown /\ Shown' => nexon # "before" /\ (watch.night = night => ~watch.finished)
  /\ Shown /\ ~Shown' => nexon = "done" \/ ~inWindow' \/ Restart

LEMMA WatchStep == WatchInv /\ SettlementNext => WatchInv' /\ BandStep
<1> SUFFICES ASSUME WatchInv, SettlementNext PROVE WatchInv' /\ BandStep
  OBVIOUS
<1> USE DEF WatchInv, WatchTypeOK, BandStep, Shown
<1>1. CASE NightFalls
  BY <1>1 DEF NightFalls
<1>2. CASE WindowEnds
  BY <1>2 DEF WindowEnds
<1>3. CASE NexonBegins
  BY <1>3 DEF NexonBegins
<1>4. CASE NexonEnds
  BY <1>4 DEF NexonEnds
<1>5. CASE Tick
  BY <1>5 DEF Tick, ProbeWanted
<1>6. CASE NexonAnswers
  BY <1>6 DEF NexonAnswers, Truth
<1>7. CASE TakeIn
  <2> DEFINE base == IF watch.night = night THEN watch ELSE Blank
  <2>1. /\ UNCHANGED world /\ probe' = "none" /\ probe \in {"settling", "settled", "unknown"}
        /\ watch' = Reduced(probe)
    BY <1>7 DEF TakeIn
  <2>2. /\ base \in [night : {night}, settling : BOOLEAN, finished : BOOLEAN]
        /\ base.settling => watch.settling /\ watch.night = night
        /\ base.finished => watch.finished /\ watch.night = night
        /\ watch.night = night => base = watch
    BY DEF Blank
  <2> HIDE DEF base
  <2>3. CASE ~inWindow
    <3>1. watch' = Idle
      BY <2>1, <2>3 DEF Reduced
    <3> QED
      BY <2>1, <2>3, <3>1 DEF Idle
  <2>4. CASE inWindow /\ probe = "settling"
    <3>1. watch' = [base EXCEPT !.settling = TRUE]
      BY <2>1, <2>4 DEF Reduced, base
    <3>2. /\ watch'.settling /\ watch'.night = night /\ watch'.finished = base.finished
          /\ WatchTypeOK'
      BY <2>1, <2>2, <3>1
    <3>3. nexon # "before" /\ (watch.night = night => ~watch.finished)
      BY <2>4
    <3>4. ~base.finished
      BY <2>2, <3>3
    <3> QED
      BY <2>1, <2>4, <3>2, <3>3, <3>4
  <2>5. CASE inWindow /\ probe = "settled" /\ base.settling
    <3>1. watch' = [base EXCEPT !.settling = FALSE, !.finished = TRUE]
      BY <2>1, <2>5 DEF Reduced, base
    <3> QED
      BY <2>1, <2>2, <2>5, <3>1
  <2>6. CASE inWindow /\ probe # "settling" /\ ~(probe = "settled" /\ base.settling)
    <3>1. watch' = base
      BY <2>1, <2>6 DEF Reduced, base
    <3> QED
      BY <2>1, <2>2, <2>6, <3>1
  <2> QED
    BY <2>3, <2>4, <2>5, <2>6
<1>8. CASE Restart
  BY <1>8 DEF Restart, Idle
<1> QED
  BY <1>1, <1>2, <1>3, <1>4, <1>5, <1>6, <1>7, <1>8 DEF SettlementNext

\* The band comes up and goes down with Nexon's settlement, however many nights there are
\* (BandFollowsNexon).
THEOREM BandIsTrue == Spec => BandFollowsNexon
<1>1. Init => WatchInv
  <2> SUFFICES ASSUME SettlementInit PROVE WatchInv
    BY DEF Init
  <2>1. WatchTypeOK
    BY DEF SettlementInit, WatchTypeOK, Idle
  <2>2. ~watch.settling /\ ~watch.finished
    BY DEF SettlementInit, Idle
  <2>3. probe = "none"
    BY DEF SettlementInit
  <2> QED
    BY <2>1, <2>2, <2>3 DEF WatchInv
<1>2. WatchInv /\ [Next]_vars => WatchInv' /\ [BandStep]_settlementVars
  <2> SUFFICES ASSUME WatchInv, [Next]_vars PROVE WatchInv' /\ [BandStep]_settlementVars
    OBVIOUS
  <2>1. CASE UNCHANGED settlementVars
    BY <2>1 DEF WatchInv, WatchTypeOK
  <2>2. CASE OfSettlement
    BY <2>2, WatchStep DEF OfSettlement
  <2> QED
    BY <2>1, <2>2 DEF Next, vars
<1> QED
  BY <1>1, <1>2, PTL DEF Spec, BandFollowsNexon, BandStep

-----------------------------------------------------------------------------
(* Persons. *)

\* Whatever the scene, persons take a step of theirs, with logins there are, or none.
LEMMA PersonsStep ==
  ASSUME [Next]_vars
  PROVE  \/ UNCHANGED accountVars
         \/ \E ops, logins : logins \in SUBSET Logins /\ AccountsNext(ops, logins)
<1>1. Logins \in SUBSET Logins /\ {FirstLogin} \in SUBSET Logins
  BY ServiceAssumption
<1>2. ASSUME OfAccounts
      PROVE  \E ops, logins : logins \in SUBSET Logins /\ AccountsNext(ops, logins)
  BY <1>1, <1>2 DEF OfAccounts, OneLogin
<1> QED
  BY <1>2 DEF Next, vars

LEMMA PersonsKept ==
  ASSUME AccountsInv, [Next]_vars
  PROVE  AccountsInv' /\ (Asked => Asked')
<1>1. CASE UNCHANGED accountVars
  BY <1>1, AccountsStutter DEF Asked, DeletionEndsAdmission
<1>2. ASSUME NEW ops, NEW logins \in SUBSET Logins, AccountsNext(ops, logins)
      PROVE  AccountsInv' /\ (Asked => Asked')
  BY <1>2, AccountsNextStep, AskedStep
<1> QED
  BY <1>1, <1>2, PersonsStep

\* Persons, credentials, sessions and requests fit together in every state.
THEOREM PersonsFit == Spec => []AccountsInv
<1>1. Init => AccountsInv
  BY AccountsStart DEF Init
<1>2. AccountsInv /\ [Next]_vars => AccountsInv'
  BY PersonsKept
<1> QED
  BY <1>1, <1>2, PTL DEF Spec

\* Whoever only knows a hash never takes over a person who logs in (OnlyKeyPersonsMerge).
THEOREM KeyPersonsMerge == Spec => OnlyKeyPersonsMerge
<1>1. AccountsInv => \A r \in Requests : KeyPersonMerged(r)
  BY KeyPersonStep
<1> QED
  BY <1>1, PersonsFit, PTL DEF Spec, OnlyKeyPersonsMerge, KeyPersonMerged

\* A merge loses no record: whatever the two persons' devices and other links write between its
\* statements, of each record the row written last is with the login afterwards.  The exception is
\* a row uploaded for the key since the link began that came after the rows had moved: it stays
\* among the anonymous samples (MergeKeepsLatest).
THEOREM MergesKeepLatest == Spec => MergeKeepsLatest
<1>1. AccountsInv /\ [Next]_vars => [\A r \in Requests : LatestKept(r)]_accountVars
  <2> SUFFICES ASSUME AccountsInv, [Next]_vars, ~UNCHANGED accountVars, NEW r \in Requests
               PROVE  LatestKept(r)
    OBVIOUS
  <2>1. PICK ops, logins : logins \in SUBSET Logins /\ AccountsNext(ops, logins)
    BY PersonsStep
  <2> QED
    BY <2>1, LatestStep
<1> QED
  BY <1>1, PersonsFit, PTL DEF Spec, MergeKeepsLatest, LatestKept

\* No row a person has, or leaves among the anonymous samples, came by a request that passed the
\* guard after the deletion was asked for, whatever was under way, taken back, merged or purged; the
\* clock may move between the guard and the write (DeletionEndsAdmission).
THEOREM DeletionEndsAdmitting == Spec => []DeletionEndsAdmission
<1>1. Init => Asked
  BY DEF Init, AccountsInit, Asked, DeletionEndsAdmission
<1>2. AccountsInv /\ Asked /\ [Next]_vars => Asked'
  BY PersonsKept
<1>3. Asked => DeletionEndsAdmission
  BY DEF Asked
<1> QED
  BY <1>1, <1>2, <1>3, PersonsFit, PTL DEF Spec

-----------------------------------------------------------------------------
(* Samples of prices. *)

\* Of finitely many trades one is the dearest: in a smallest set without, the others would have
\* one, and it or the one left out would be the dearest of all.
LEMMA Dearest ==
  ASSUME NEW paid, NEW S, IsFiniteSet(S), S # {}, \A j \in S : paid[j] \in Int
  PROVE  \E j \in S : \A k \in S : paid[k] <= paid[j]
<1> DEFINE T == {U \in SUBSET S : U # {} /\ ~(\E j \in U : \A k \in U : paid[k] <= paid[j])}
<1> SUFFICES ASSUME T # {} PROVE FALSE
  OBVIOUS
<1>1. T \subseteq FiniteSubsetsOf(S)
  BY FS_Subset DEF FiniteSubsetsOf
<1>2. PICK U \in T : \A V \in T : ~(<<V, U>> \in StrictSubsetOrdering(S))
  <2> HIDE DEF T
  <2> QED
    BY <1>1, FS_StrictSubsetOrderingWellFounded, WFMin
<1>3. PICK u \in U : TRUE
  OBVIOUS
<1>4. U \ {u} \notin T
  BY <1>2 DEF StrictSubsetOrdering
<1>5. CASE U \ {u} = {}
  <2>1. U = {u}
    BY <1>5, <1>3
  <2> QED
    BY <2>1
<1>6. CASE \E j \in U \ {u} : \A k \in U \ {u} : paid[k] <= paid[j]
  <2> PICK j \in U \ {u} : \A k \in U \ {u} : paid[k] <= paid[j]
    BY <1>6
  <2>1. CASE paid[u] <= paid[j]
    BY <2>1
  <2>2. CASE ~(paid[u] <= paid[j])
    <3>1. \A k \in U : paid[k] <= paid[u]
      BY <2>2
    <3> QED
      BY <3>1
  <2> QED
    BY <2>1, <2>2
<1> QED
  BY <1>4, <1>5, <1>6

LEMMA Cheapest ==
  ASSUME NEW paid, NEW S, IsFiniteSet(S), S # {}, \A j \in S : paid[j] \in Int
  PROVE  \E j \in S : \A k \in S : paid[j] <= paid[k]
<1> DEFINE f == [j \in S |-> -paid[j]]
<1>1. \A j \in S : f[j] \in Int
  OBVIOUS
<1>2. \E j \in S : \A k \in S : f[k] <= f[j]
  <2> HIDE DEF f
  <2> QED
    BY <1>1, Dearest
<1> QED
  BY <1>2

Sample(paid) ==
  /\ IsFiniteSet(DOMAIN paid)
  /\ DOMAIN paid # {}
  /\ \A j \in DOMAIN paid : paid[j] \in Nat

Size(paid) == Cardinality(DOMAIN paid)

LEMMA PartsAreFinite ==
  ASSUME NEW paid, Sample(paid), NEW v
  PROVE  /\ IsFiniteSet(Below(paid, v)) /\ IsFiniteSet(UpTo(paid, v))
         /\ Cardinality(Below(paid, v)) \in Nat /\ Cardinality(UpTo(paid, v)) \in Nat
         /\ Size(paid) \in Nat \ {0}
BY FS_Subset, FS_CardinalityType, FS_EmptySet DEF Sample, Below, UpTo, Size

\* Each place of a sample is held by a price: as many prices as the place says, and no more, are
\* below it.
LEMMA PlaceFilled ==
  ASSUME NEW paid, Sample(paid), NEW i \in 0..(Size(paid) - 1)
  PROVE  /\ Sorted(paid, i) \in Values(paid)
         /\ Cardinality(Below(paid, Sorted(paid, i))) <= i
         /\ i < Cardinality(UpTo(paid, Sorted(paid, i)))
<1> DEFINE D == DOMAIN paid
           Far == {j \in D : i < Cardinality(UpTo(paid, paid[j]))}
<1>1. Far # {}
  <2>1. PICK j \in D : \A k \in D : paid[k] <= paid[j]
    BY Dearest DEF Sample
  <2>2. UpTo(paid, paid[j]) = D
    BY <2>1 DEF UpTo
  <2> QED
    BY <2>2, PartsAreFinite DEF Size
<1>2. IsFiniteSet(Far)
  BY FS_Subset DEF Sample
<1>3. PICK j \in Far : \A k \in Far : paid[j] <= paid[k]
  BY <1>1, <1>2, Cheapest DEF Sample
<1>4. Cardinality(Below(paid, paid[j])) <= i
  <2>1. CASE Below(paid, paid[j]) = {}
    BY <2>1, FS_EmptySet
  <2>2. CASE Below(paid, paid[j]) # {}
    <3> DEFINE B == Below(paid, paid[j])
    <3>1. PICK b \in B : \A k \in B : paid[k] <= paid[b]
      <4>1. IsFiniteSet(B) /\ B # {} /\ \A k \in B : paid[k] \in Int
        BY <2>2, PartsAreFinite DEF Sample, Below
      <4> HIDE DEF B
      <4> QED
        BY <4>1, Dearest
    <3>2. B = UpTo(paid, paid[b])
      BY <3>1 DEF Below, UpTo, Sample
    <3>3. b \notin Far
      BY <1>3, <3>1 DEF Below, Sample
    <3>4. ~(i < Cardinality(UpTo(paid, paid[b])))
      BY <3>3 DEF Below
    <3>5. Cardinality(B) \in Nat
      BY PartsAreFinite
    <3> QED
      BY <3>2, <3>4, <3>5
  <2> QED
    BY <2>1, <2>2
<1>5. \E v \in Values(paid) :
        Cardinality(Below(paid, v)) <= i /\ i < Cardinality(UpTo(paid, v))
  BY <1>3, <1>4 DEF Values
<1> QED
  BY <1>5 DEF Sorted

LEMMA PlacesAreNumbers ==
  ASSUME NEW paid, Sample(paid), NEW i \in 0..(Size(paid) - 1)
  PROVE  Sorted(paid, i) \in Nat
BY PlaceFilled DEF Values, Sample

\* Later places hold higher prices, and a stretch of places as many trades as it is long.
LEMMA PlacesInOrder ==
  ASSUME NEW paid, Sample(paid),
         NEW i \in 0..(Size(paid) - 1), NEW k \in 0..(Size(paid) - 1), i <= k
  PROVE  Sorted(paid, i) <= Sorted(paid, k)
<1> DEFINE a == Sorted(paid, i)
           b == Sorted(paid, k)
<1>1. a \in Nat /\ b \in Nat
  BY PlacesAreNumbers
<1>2. Cardinality(Below(paid, a)) <= i /\ k < Cardinality(UpTo(paid, b))
  BY PlaceFilled
<1> HIDE DEF a, b
<1> SUFFICES ASSUME b < a PROVE FALSE
  BY <1>1 DEF a, b
<1>3. UpTo(paid, b) \subseteq Below(paid, a)
  BY <1>1 DEF UpTo, Below, Sample
<1>4. Cardinality(UpTo(paid, b)) <= Cardinality(Below(paid, a))
  BY <1>3, PartsAreFinite, FS_Subset
<1> QED
  BY <1>2, <1>4, PartsAreFinite

LEMMA StretchIsLong ==
  ASSUME NEW paid, Sample(paid), NEW C \in SUBSET DOMAIN paid,
         NEW i \in 0..(Size(paid) - 1), NEW k \in 0..(Size(paid) - 1),
         \A j \in DOMAIN paid :
           Sorted(paid, i) <= paid[j] /\ paid[j] <= Sorted(paid, k) => j \in C
  PROVE  Cardinality(C) \in Nat /\ Cardinality(C) >= k + 1 - i
<1> DEFINE low == Below(paid, Sorted(paid, i))
           up == UpTo(paid, Sorted(paid, k))
<1>1. Sorted(paid, i) \in Nat /\ Sorted(paid, k) \in Nat
  BY PlacesAreNumbers
<1>2. up \subseteq low \cup C
  BY <1>1 DEF Below, UpTo, Sample
<1>3. IsFiniteSet(C) /\ IsFiniteSet(low) /\ IsFiniteSet(low \cup C)
  BY PartsAreFinite, FS_Subset, FS_Union DEF Sample
<1>4. Cardinality(low) <= i /\ k < Cardinality(up)
  BY PlaceFilled
<1> HIDE DEF low, up
<1>5. Cardinality(low \cup C) <= Cardinality(low) + Cardinality(C)
  <2>1. /\ Cardinality(low \cup C) = Cardinality(low) + Cardinality(C) - Cardinality(low \cap C)
        /\ IsFiniteSet(low \cap C)
    BY <1>3, FS_Union, FS_Subset
  <2> QED
    BY <1>3, <2>1, FS_CardinalityType
<1>6. Cardinality(up) <= Cardinality(low \cup C)
  BY <1>2, <1>3, FS_Subset
<1>7. Cardinality(low) \in Nat /\ Cardinality(C) \in Nat /\ Cardinality(low \cup C) \in Nat
      /\ Cardinality(up) \in Nat
  BY <1>2, <1>3, FS_CardinalityType, FS_Subset
<1> QED
  BY <1>4, <1>5, <1>6, <1>7

\* The places a quarter falls between are places of the sample.
LEMMA QuarterPlaces ==
  ASSUME NEW m \in Nat, NEW k \in 1..3
  PROVE  (m * k) \div 4 \in 0..m /\ (m * k + 3) \div 4 \in 0..m /\ (m * k) % 4 \in 0..3
<1>1. k = 1 \/ k = 2 \/ k = 3
  OBVIOUS
<1> QED
  BY <1>1

LEMMA LesserOf ==
  ASSUME NEW a \in Int, NEW b \in Int
  PROVE  Min({a, b}) \in Int /\ Min({a, b}) <= a /\ Min({a, b}) <= b
<1>1. \E x \in {a, b} : \A y \in {a, b} : x <= y
  OBVIOUS
<1> QED
  BY <1>1 DEF Min

LEMMA GreaterOf ==
  ASSUME NEW a \in Int, NEW b \in Int
  PROVE  Max({a, b}) \in Int /\ a <= Max({a, b}) /\ b <= Max({a, b})
<1>1. \E x \in {a, b} : \A y \in {a, b} : y <= x
  OBVIOUS
<1> QED
  BY <1>1 DEF Max

\* Between the quartiles, and what the fence adds to them, there is half of a sample.
LEMMA HalfIsWithin ==
  ASSUME NEW paid, Sample(paid),
         NEW C, C = {j \in DOMAIN paid : Within(paid[j], FenceOf(paid))}
  PROVE  2 * Cardinality(C) >= Size(paid)
<1> DEFINE n == Size(paid)
           m == n - 1
           q == m \div 4
           r == m % 4
           at(i) == Sorted(paid, i)
           q1 == FourQuantiles(paid, 1)
           q2 == FourQuantiles(paid, 2)
           q3 == FourQuantiles(paid, 3)
           fence == FenceOf(paid)
<1>1. n \in Nat \ {0}
  BY PartsAreFinite
<1>2. /\ q \in Nat /\ r \in 0..3 /\ m = 4 * q + r /\ m \in Nat
      /\ m \div 4 = q /\ m % 4 = r
  BY <1>1
<1>3. /\ \A i \in 0..m : at(i) \in Nat
      /\ \A i, k \in 0..m : i <= k => at(i) <= at(k)
  BY PlacesAreNumbers, PlacesInOrder
<1>4. /\ q1 = 4 * at(m \div 4) + (at((m + 3) \div 4) - at(m \div 4)) * (m % 4)
      /\ q2 = 4 * at((m * 2) \div 4) + (at((m * 2 + 3) \div 4) - at((m * 2) \div 4)) * ((m * 2) % 4)
      /\ q3 = 4 * at((m * 3) \div 4) + (at((m * 3 + 3) \div 4) - at((m * 3) \div 4)) * ((m * 3) % 4)
  BY <1>1 DEF FourQuantiles, Size
<1>5. /\ fence.low = Min({10 * q1 - 15 * (q3 - q1), 8 * q2})
      /\ fence.high = Max({10 * q3 + 15 * (q3 - q1), 12 * q2})
  BY DEF FenceOf
<1> HIDE DEF at, q1, q2, q3, fence
<1>6. q1 \in Int /\ q2 \in Int /\ q3 \in Int
  <2>1. (m * 2) \div 4 \in 0..m /\ (m * 2 + 3) \div 4 \in 0..m /\ (m * 2) % 4 \in 0..3
    <3> HIDE DEF m
    <3> QED
      BY <1>2, QuarterPlaces
  <2>2. (m * 3) \div 4 \in 0..m /\ (m * 3 + 3) \div 4 \in 0..m /\ (m * 3) % 4 \in 0..3
    <3> HIDE DEF m
    <3> QED
      BY <1>2, QuarterPlaces
  <2>3. m \div 4 \in 0..m /\ (m + 3) \div 4 \in 0..m /\ m % 4 \in 0..3
    BY <1>2
  <2> QED
    BY <1>3, <1>4, <2>1, <2>2, <2>3
<1>7. /\ fence.low \in Int /\ fence.low <= 10 * q1 - 15 * (q3 - q1)
      /\ fence.high \in Int /\ 10 * q3 + 15 * (q3 - q1) <= fence.high
  <2>1. /\ 10 * q1 - 15 * (q3 - q1) \in Int /\ 10 * q3 + 15 * (q3 - q1) \in Int
        /\ 8 * q2 \in Int /\ 12 * q2 \in Int
    BY <1>6
  <2> DEFINE a == 10 * q1 - 15 * (q3 - q1)
             b == 10 * q3 + 15 * (q3 - q1)
             c == 8 * q2
             d == 12 * q2
  <2>2. fence.low = Min({a, c}) /\ fence.high = Max({b, d})
    BY <1>5
  <2>3. a \in Int /\ b \in Int /\ c \in Int /\ d \in Int
    BY <2>1
  <2>4. fence.low \in Int /\ fence.low <= a /\ fence.high \in Int /\ b <= fence.high
    <3> HIDE DEF a, b, c, d
    <3> QED
      BY <2>2, <2>3, LesserOf, GreaterOf
  <2> QED
    BY <2>4
<1>8. ASSUME NEW i \in 0..m, NEW k \in 0..m, 2 * (k + 1 - i) >= n,
             10 * q1 - 15 * (q3 - q1) <= 40 * at(i), 40 * at(k) <= 10 * q3 + 15 * (q3 - q1)
      PROVE  2 * Cardinality(C) >= n
  <2>1. ASSUME NEW j \in DOMAIN paid, at(i) <= paid[j], paid[j] <= at(k) PROVE j \in C
    <3>1. /\ 40 * at(i) <= 40 * paid[j] /\ 40 * paid[j] <= 40 * at(k)
          /\ 40 * paid[j] \in Int /\ 40 * at(i) \in Int /\ 40 * at(k) \in Int
      BY <1>3, <2>1 DEF Sample
    <3>2. fence.low <= 40 * paid[j] /\ 40 * paid[j] <= fence.high
      BY <1>6, <1>7, <1>8, <3>1
    <3> QED
      BY <3>2 DEF Within, fence
  <2>2. C \in SUBSET DOMAIN paid
    OBVIOUS
  <2>3. Cardinality(C) \in Nat /\ Cardinality(C) >= k + 1 - i
    BY <2>1, <2>2, StretchIsLong DEF at
  <2> QED
    BY <1>1, <1>8, <2>3
<1> HIDE DEF q, r
<1>9. CASE r = 0
  <2>1. /\ (m + 3) \div 4 = q /\ (m * 3) \div 4 = 3 * q /\ (m * 3 + 3) \div 4 = 3 * q
        /\ (m * 3) % 4 = 0 /\ q \in 0..m /\ 3 * q \in 0..m /\ q <= 3 * q
    BY <1>2, <1>9
  <2>2. q1 = 4 * at(q) /\ q3 = 4 * at(3 * q) /\ at(q) <= at(3 * q)
        /\ at(q) \in Nat /\ at(3 * q) \in Nat
    BY <1>2, <1>3, <1>4, <1>9, <2>1
  <2>3. 10 * q1 - 15 * (q3 - q1) <= 40 * at(q) /\ 40 * at(3 * q) <= 10 * q3 + 15 * (q3 - q1)
    BY <2>2
  <2>4. 2 * (3 * q + 1 - q) >= n
    BY <1>1, <1>2, <1>9
  <2> QED
    BY <1>8, <2>1, <2>3, <2>4
<1>10. CASE r = 1
  <2>1. /\ (m + 3) \div 4 = q + 1 /\ (m * 3) \div 4 = 3 * q /\ (m * 3 + 3) \div 4 = 3 * q + 1
        /\ (m * 3) % 4 = 3 /\ q \in 0..m /\ q + 1 \in 0..m /\ 3 * q \in 0..m /\ 3 * q + 1 \in 0..m
        /\ q <= 3 * q /\ q + 1 <= 3 * q + 1
    BY <1>2, <1>10
  <2>2. /\ q1 = 4 * at(q) + (at(q + 1) - at(q))
        /\ q3 = 4 * at(3 * q) + (at(3 * q + 1) - at(3 * q)) * 3
        /\ at(q) \in Nat /\ at(3 * q) \in Nat /\ at(q + 1) \in Nat /\ at(3 * q + 1) \in Nat
        /\ at(q) <= at(3 * q) /\ at(q + 1) <= at(3 * q + 1)
        /\ at(q) <= at(q + 1) /\ at(3 * q) <= at(3 * q + 1)
    BY <1>2, <1>3, <1>4, <1>10, <2>1
  <2>3. 10 * q1 - 15 * (q3 - q1) <= 40 * at(q) /\ 40 * at(3 * q + 1) <= 10 * q3 + 15 * (q3 - q1)
    BY <2>2
  <2>4. 2 * (3 * q + 1 + 1 - q) >= n
    BY <1>1, <1>2, <1>10
  <2> QED
    BY <1>8, <2>1, <2>3, <2>4
<1>11. CASE r = 2
  <2>1. /\ (m + 3) \div 4 = q + 1 /\ (m * 3) \div 4 = 3 * q + 1 /\ (m * 3 + 3) \div 4 = 3 * q + 2
        /\ (m * 3) % 4 = 2 /\ q \in 0..m /\ q + 1 \in 0..m /\ 3 * q + 1 \in 0..m
        /\ 3 * q + 2 \in 0..m /\ q + 1 <= 3 * q + 1
    BY <1>2, <1>11
  <2>2. /\ q1 = 4 * at(q) + (at(q + 1) - at(q)) * 2
        /\ q3 = 4 * at(3 * q + 1) + (at(3 * q + 2) - at(3 * q + 1)) * 2
        /\ at(q) \in Nat /\ at(3 * q + 1) \in Nat /\ at(q + 1) \in Nat /\ at(3 * q + 2) \in Nat
        /\ at(q) <= at(q + 1) /\ at(q + 1) <= at(3 * q + 1) /\ at(3 * q + 1) <= at(3 * q + 2)
    BY <1>2, <1>3, <1>4, <1>11, <2>1
  <2>3. 10 * q1 - 15 * (q3 - q1) <= 40 * at(q) /\ 40 * at(3 * q + 2) <= 10 * q3 + 15 * (q3 - q1)
    BY <2>2
  <2>4. 2 * (3 * q + 2 + 1 - q) >= n
    BY <1>1, <1>2, <1>11
  <2> QED
    BY <1>8, <2>1, <2>3, <2>4
<1>12. CASE r = 3
  <2>1. /\ (m + 3) \div 4 = q + 1 /\ (m * 3) \div 4 = 3 * q + 2 /\ (m * 3 + 3) \div 4 = 3 * q + 3
        /\ (m * 3) % 4 = 1 /\ q \in 0..m /\ q + 1 \in 0..m /\ 3 * q + 2 \in 0..m
        /\ 3 * q + 3 \in 0..m /\ q + 1 <= 3 * q + 2
    BY <1>2, <1>12
  <2>2. /\ q1 = 4 * at(q) + (at(q + 1) - at(q)) * 3
        /\ q3 = 4 * at(3 * q + 2) + (at(3 * q + 3) - at(3 * q + 2))
        /\ at(q) \in Nat /\ at(3 * q + 2) \in Nat /\ at(q + 1) \in Nat /\ at(3 * q + 3) \in Nat
        /\ at(q) <= at(q + 1) /\ at(q + 1) <= at(3 * q + 2) /\ at(3 * q + 2) <= at(3 * q + 3)
    BY <1>2, <1>3, <1>4, <1>12, <2>1
  <2>3. /\ 10 * q1 - 15 * (q3 - q1) <= 40 * at(q + 1)
        /\ 40 * at(3 * q + 2) <= 10 * q3 + 15 * (q3 - q1)
    BY <2>2
  <2>4. 2 * (3 * q + 2 + 1 - (q + 1)) >= n
    BY <1>1, <1>2, <1>12
  <2> QED
    BY <1>8, <2>1, <2>3, <2>4
<1> QED
  BY <1>2, <1>9, <1>10, <1>11, <1>12

\* A fence made of one price has it inside.
LEMMA OnePriceIsWithin ==
  ASSUME NEW paid, Sample(paid), Cardinality(Values(paid)) = 1, NEW j \in DOMAIN paid
  PROVE  Within(paid[j], FenceOf(paid))
<1> DEFINE v == paid[j]
           n == Size(paid)
           m == n - 1
<1>1. Values(paid) = {v}
  <2>1. Values(paid) \subseteq Nat /\ v \in Values(paid)
    BY DEF Values, Sample
  <2>2. IsFiniteSet(Values(paid))
    <3>1. [k \in DOMAIN paid |-> paid[k]] \in Surjection(DOMAIN paid, Values(paid))
      BY DEF Surjection, Values
    <3> QED
      BY <3>1, FS_Surjection DEF Sample
  <2>3. \E x : Values(paid) = {x}
    BY <2>2, FS_Singleton
  <2> QED
    BY <2>1, <2>3
<1>2. n \in Nat \ {0} /\ v \in Nat /\ m \in Nat
  BY PartsAreFinite DEF Sample
<1>3. \A i \in 0..m : Sorted(paid, i) = v
  BY <1>1, PlaceFilled
<1>4. \A k \in 1..3 : FourQuantiles(paid, k) = 4 * v
  <2> SUFFICES ASSUME NEW k \in 1..3 PROVE FourQuantiles(paid, k) = 4 * v
    OBVIOUS
  <2> HIDE DEF v
  <2>1. (m * k) \div 4 \in 0..m /\ (m * k + 3) \div 4 \in 0..m /\ (m * k) % 4 \in 0..3
    <3> HIDE DEF m
    <3> QED
      BY <1>2, QuarterPlaces
  <2> DEFINE a == (m * k) \div 4
             b == (m * k + 3) \div 4
             c == (m * k) % 4
  <2>2. FourQuantiles(paid, k) = 4 * Sorted(paid, a) + (Sorted(paid, b) - Sorted(paid, a)) * c
    BY DEF FourQuantiles, Size
  <2>3. a \in 0..m /\ b \in 0..m /\ c \in 0..3
    BY <2>1
  <2> HIDE DEF a, b, c
  <2>4. Sorted(paid, a) = v /\ Sorted(paid, b) = v
    BY <1>3, <2>3
  <2>5. c = 0 \/ c = 1 \/ c = 2 \/ c = 3
    BY <2>3
  <2>6. (v - v) * c = 0
    BY <1>2, <2>5
  <2> QED
    BY <1>2, <2>2, <2>4, <2>6
<1>5. /\ FenceOf(paid).low = Min({10 * (4 * v) - 15 * (4 * v - 4 * v), 8 * (4 * v)})
      /\ FenceOf(paid).high = Max({10 * (4 * v) + 15 * (4 * v - 4 * v), 12 * (4 * v)})
  BY <1>4 DEF FenceOf
<1> HIDE DEF v
<1>6. FenceOf(paid).low <= 40 * v /\ 40 * v <= FenceOf(paid).high
  <2>1. FenceOf(paid).low = Min({40 * v, 32 * v}) /\ FenceOf(paid).high = Max({40 * v, 48 * v})
    <3>1. /\ 10 * (4 * v) - 15 * (4 * v - 4 * v) = 40 * v /\ 8 * (4 * v) = 32 * v
          /\ 10 * (4 * v) + 15 * (4 * v - 4 * v) = 40 * v /\ 12 * (4 * v) = 48 * v
      BY <1>2
    <3> QED
      BY <1>5, <3>1
  <2> DEFINE a == 40 * v
             b == 32 * v
             c == 48 * v
  <2>2. a \in Int /\ b \in Int /\ c \in Int
    BY <1>2
  <2>3. FenceOf(paid).low = Min({a, b}) /\ FenceOf(paid).high = Max({a, c})
    BY <2>1
  <2>4. FenceOf(paid).low <= a /\ a <= FenceOf(paid).high
    <3> HIDE DEF a, b, c
    <3> QED
      BY <2>2, <2>3, LesserOf, GreaterOf
  <2> QED
    BY <2>4
<1> QED
  BY <1>6 DEF Within, v

-----------------------------------------------------------------------------
(* The market. *)

Trades == [price : TradePrices, day : Nat]

MarketRows == /\ day \in Nat /\ IsFiniteSet(DOMAIN trades)
              /\ \A j \in DOMAIN trades : trades[j] \in Trades

LEMMA MarketStep ==
  ASSUME MarketRows, MarketNext
  PROVE  MarketRows' /\ day' \in day..(day + 1)
<1>1. ASSUME NEW i \in TradeIds, NEW price \in TradePrices, NEW d \in 0..day, day' = day,
             trades' = [j \in DOMAIN trades \cup {i} |->
                         IF j = i THEN [price |-> price, day |-> d] ELSE trades[j]]
      PROVE  MarketRows' /\ day' \in day..(day + 1)
  <2>1. DOMAIN trades' = DOMAIN trades \cup {i} /\ IsFiniteSet(DOMAIN trades')
    BY <1>1, FS_AddElement DEF MarketRows
  <2>2. [price |-> price, day |-> d] \in Trades
    BY DEF Trades, MarketRows
  <2> QED
    BY <1>1, <2>1, <2>2 DEF MarketRows
<1>2. CASE TakeOut
  <2>1. PICK i \in DOMAIN trades : trades' = [j \in DOMAIN trades \ {i} |-> trades[j]] /\ day' = day
    BY <1>2 DEF TakeOut
  <2>2. DOMAIN trades' = DOMAIN trades \ {i} /\ IsFiniteSet(DOMAIN trades')
    BY <2>1, FS_RemoveElement DEF MarketRows
  <2> QED
    BY <2>1, <2>2 DEF MarketRows
<1>3. CASE DayPasses
  BY <1>3 DEF DayPasses, MarketRows
<1> QED
  BY <1>1, <1>2, <1>3 DEF MarketNext, Upsert

LEMMA MarketKeepsRows ==
  ASSUME MarketRows, [Next]_vars
  PROVE  MarketRows'
<1>1. CASE UNCHANGED marketVars
  BY <1>1 DEF MarketRows
<1>2. CASE MarketNext
  BY <1>2, MarketStep
<1> QED
  BY <1>1, <1>2 DEF Next, OfMarket, vars

LEMMA RowsOfTheMarket ==
  ASSUME MarketRows, NEW j \in DOMAIN trades
  PROVE  trades[j].price \in Nat /\ trades[j].day \in Nat
<1>1. trades[j] \in Trades
  BY DEF MarketRows
<1> QED
  BY <1>1, DropMarketAssumption DEF Trades

\* The invariant of the market's scene, from its rows.
LEMMA SamplesCount ==
  ASSUME MarketRows
  PROVE  MostOfSampleCounts
<1> SUFFICES ASSUME NEW i \in DOMAIN trades
             PROVE  LET sample == Judges(trades, DOMAIN trades, trades[i])
                        paid == PricesIn(trades, sample)
                        counted == {j \in sample : Within(paid[j], FenceOf(paid))}
                    IN /\ 2 * Cardinality(counted) >= Cardinality(sample)
                       /\ Cardinality(Values(paid)) = 1 => counted = sample
  BY DEF MostOfSampleCounts
<1> DEFINE sample == Judges(trades, DOMAIN trades, trades[i])
           seen == PricesIn(trades, sample)
           counted == {j \in sample : Within(seen[j], FenceOf(seen))}
<1>1. sample \subseteq DOMAIN trades
  BY DEF Judges, SampleOf
<1>2. IsFiniteSet(sample)
  BY <1>1, FS_Subset DEF MarketRows
<1>3. DOMAIN seen = sample /\ \A j \in sample : seen[j] \in Nat
  BY <1>1, RowsOfTheMarket DEF PricesIn
<1> HIDE DEF sample, seen
<1>4. CASE sample = {}
  <2>1. counted = {} /\ Cardinality(sample) = 0 /\ Cardinality(counted) = 0
    BY <1>4, FS_EmptySet
  <2> QED
    BY <1>4, <2>1 DEF sample, seen
<1>5. CASE sample # {}
  <2>1. Sample(seen)
    BY <1>2, <1>3, <1>5 DEF Sample
  <2>2. counted = {j \in DOMAIN seen : Within(seen[j], FenceOf(seen))}
    BY <1>3
  <2> HIDE DEF counted
  <2>3. 2 * Cardinality(counted) >= Cardinality(sample)
    BY <1>3, <2>1, <2>2, HalfIsWithin DEF Size
  <2>4. Cardinality(Values(seen)) = 1 => counted = sample
    BY <1>3, <2>1, <2>2, OnePriceIsWithin
  <2> QED
    BY <2>3, <2>4 DEF sample, seen, counted
<1> QED
  BY <1>4, <1>5 DEF sample, seen

\* Whatever is traded, the fence leaves half of the trades it is made of in the market, and all of
\* them where they agree (MostOfSampleCounts).
THEOREM HalfOfSamplesCount == Spec => []MostOfSampleCounts
<1>1. Init => MarketRows
  BY FS_EmptySet DEF Init, MarketInit, MarketRows
<1>2. MarketRows /\ [Next]_vars => MarketRows'
  BY MarketKeepsRows
<1>3. MarketRows => MostOfSampleCounts
  BY SamplesCount
<1> QED
  BY <1>1, <1>2, <1>3, PTL DEF Spec

\* A sample of a past day is made of the same rows after a step that touches none of its days, as
\* long as the day is shown.
LEMMA SampleStays ==
  ASSUME MarketRows, MarketNext, NEW i \in Kept, Shows(trades[i], day'),
         \A d \in DaysTouched : d > trades[i].day \/ d <= trades[i].day - LongDays,
         NEW days \in {ShortDays, LongDays}
  PROVE  LET p == trades[i]
             old == SampleOf(trades, RowsRead(trades, day), p, days)
         IN SampleOf(trades', RowsRead(trades', day'), p, days) = old /\ old \subseteq Kept
<1> DEFINE p == trades[i]
           old == SampleOf(trades, RowsRead(trades, day), p, days)
           new == SampleOf(trades', RowsRead(trades', day'), p, days)
<1>1. \A j \in Kept : j \in DOMAIN trades /\ j \in DOMAIN trades' /\ trades'[j] = trades[j]
  BY DEF Kept
<1>2. /\ day \in Nat /\ day' \in Nat /\ day <= day'
      /\ \A j \in DOMAIN trades : trades[j].day \in Nat
      /\ \A j \in DOMAIN trades' : trades'[j].day \in Nat
  BY MarketStep, RowsOfTheMarket DEF MarketRows, Trades
<1>3. days \in Nat /\ days <= LongDays /\ LongDays \in Nat /\ ShownDays \in Nat
  BY DropMarketAssumption
<1>4. p.day \in Nat
  BY <1>1, <1>2
<1>5. ASSUME NEW j \in old PROVE j \in new /\ j \in Kept
  <2>1. j \in DOMAIN trades /\ trades[j].day <= p.day /\ trades[j].day > p.day - days
    BY <1>5 DEF SampleOf, RowsRead
  <2>2. j \in Kept
    <3> SUFFICES ASSUME j \notin Kept PROVE FALSE
      OBVIOUS
    <3>1. trades[j].day \in DaysTouched
      BY <2>1 DEF DaysTouched
    <3> QED
      BY <1>2, <1>3, <1>4, <2>1, <3>1
  <2>3. trades[j].day >= FirstRead(day')
    BY <1>2, <1>3, <1>4, <2>1 DEF Shows, FirstRead
  <2> QED
    BY <1>1, <2>1, <2>2, <2>3 DEF SampleOf, RowsRead
<1>6. ASSUME NEW j \in new PROVE j \in old
  <2>1. /\ j \in DOMAIN trades' /\ trades'[j].day <= p.day /\ trades'[j].day > p.day - days
        /\ trades'[j].day >= FirstRead(day')
    BY <1>6 DEF SampleOf, RowsRead
  <2>2. j \in Kept
    <3> SUFFICES ASSUME j \notin Kept PROVE FALSE
      OBVIOUS
    <3>1. trades'[j].day \in DaysTouched
      BY <2>1 DEF DaysTouched
    <3> QED
      BY <1>2, <1>3, <1>4, <2>1, <3>1
  <2>3. trades[j].day >= FirstRead(day)
    BY <1>1, <1>2, <1>3, <2>1, <2>2 DEF FirstRead
  <2> QED
    BY <1>1, <2>1, <2>2, <2>3 DEF SampleOf, RowsRead
<1>7. old = new /\ old \subseteq Kept
  BY <1>5, <1>6
<1> QED
  BY <1>7

LEMMA VerdictStays ==
  ASSUME MarketRows, MarketNext, NEW i \in Kept, Shows(trades[i], day'),
         \A d \in DaysTouched : d > trades[i].day \/ d <= trades[i].day - LongDays
  PROVE  Verdict(trades', RowsRead(trades', day'), trades[i]) =
         Verdict(trades, RowsRead(trades, day), trades[i])
<1> DEFINE p == trades[i]
           sample(days) == SampleOf(trades, RowsRead(trades, day), p, days)
           old == Judges(trades, RowsRead(trades, day), p)
           new == Judges(trades', RowsRead(trades', day'), p)
<1>1. /\ SampleOf(trades', RowsRead(trades', day'), p, ShortDays) = sample(ShortDays)
      /\ SampleOf(trades', RowsRead(trades', day'), p, LongDays) = sample(LongDays)
  BY SampleStays
<1>2. sample(ShortDays) \subseteq Kept /\ sample(LongDays) \subseteq Kept
  BY SampleStays
<1>3. new = old
  BY <1>1 DEF Judges
<1>4. \A j \in old : trades'[j] = trades[j]
  BY <1>2 DEF Judges, Kept
<1>5. PricesIn(trades', old) = PricesIn(trades, old)
  BY <1>4 DEF PricesIn
<1> HIDE DEF old, new, p
<1>6. Verdict(trades', RowsRead(trades', day'), p) = Verdict(trades, RowsRead(trades, day), p)
  BY <1>3, <1>5 DEF Verdict, old, new
<1> QED
  BY <1>6 DEF p

\* A verdict of a day that is over and still shown depends on the trades of the LongDays up to it
\* alone: no step that leaves those as they are changes it, be it a trade of a later day, an edit, a
\* deletion or a day that passes (PastVerdictsStay).
THEOREM VerdictsStay == Spec => PastVerdictsStay
<1> DEFINE Stay == \A i \in Kept :
             LET p == trades[i]
             IN /\ p.day < day /\ Shows(p, day')
                /\ \A d \in DaysTouched : d > p.day \/ d <= p.day - LongDays
                => Verdict(trades', RowsRead(trades', day'), p) =
                   Verdict(trades, RowsRead(trades, day), p)
<1>1. Init => MarketRows
  BY FS_EmptySet DEF Init, MarketInit, MarketRows
<1>2. MarketRows /\ [Next]_vars => MarketRows' /\ [Stay]_marketVars
  <2> SUFFICES ASSUME MarketRows, [Next]_vars PROVE MarketRows' /\ [Stay]_marketVars
    OBVIOUS
  <2>1. MarketRows'
    BY MarketKeepsRows
  <2>2. CASE UNCHANGED marketVars
    BY <2>1, <2>2
  <2>3. CASE MarketNext
    BY <2>1, <2>3, VerdictStays
  <2> QED
    BY <2>2, <2>3 DEF Next, OfMarket, vars
<1> QED
  BY <1>1, <1>2, PTL DEF Spec, PastVerdictsStay

=============================================================================
