--------------------------------- MODULE Bosses ---------------------------------
(***************************************************************************)
(* Bosses with their difficulties, and what hangs on a boss of one         *)
(* difficulty: what it drops, and what its crystal is sold for since which *)
(* day.  Deleting a difficulty deletes both with it.  Also the rules of    *)
(* the game, and the bosses whose completion is entered by hand.           *)
(***************************************************************************)
EXTENDS DropItems, Prices, Sequences

CONSTANT
  Boundaries   \* the days a period of a cycle begins: "weekly", "monthly" -> days

ASSUME BossesAssumption ==
  \A cycle \in {"weekly", "monthly"} : 1 \in Boundaries[cycle]

VARIABLE bosses
  \* [rules: name -> value or None, rows: key -> [cycle, alias, period, order],
  \*  diffs: <<boss, difficulty>> -> [level, party, period],
  \*  drops: id -> [pair, item, from, text, order], prices: pair -> set of dated rows,
  \*  manual: id -> [boss, open]].  One category of drops stands for all.

Difficulties == {1, 2}
RuleFields   == <<"limit", "party">>
NewDifficulty(text) == [level |-> text, party |-> None, period |-> text]

NoBosses ==
  [rules |-> [f \in {"limit", "party"} |-> None], rows |-> <<>>, diffs |-> <<>>, drops |-> <<>>,
   prices |-> <<>>, manual |-> <<>>]
SeedBoss(k) == [cycle |-> IF k = 1 THEN "weekly" ELSE "monthly", alias |-> 1, period |-> 1,
                order |-> k - 1]
BossesReady(K) ==
  [NoBosses EXCEPT !.rules = [f \in {"limit", "party"} |-> 1],
                   !.rows  = [k \in K |-> SeedBoss(k)],
                   !.diffs = [p \in K \X Difficulties |-> NewDifficulty(1)]]

BossRow       == [cycle : {"weekly", "monthly"}, alias : Texts, period : Texts, order : Nat]
DifficultyRow == [level : Texts, party : {None, 1, 2}, period : Texts]
RuleValue     == {None} \cup Texts
BossDropRow   == [pair : FewKeys \X Difficulties, item : Keys, from : {None, 1}, text : Texts,
                  order : Nat]
CrystalRow    == [from : Days \cup {None}, until : Days \cup {None}]
ManualRow     == [boss : FewKeys, open : BOOLEAN]

BossesTypeOK ==
  /\ bosses.rules \in [{"limit", "party"} -> RuleValue]
  /\ IsTable(bosses.rows, FewKeys, BossRow)
  /\ IsTable(bosses.diffs, FewKeys \X Difficulties, DifficultyRow)
  /\ IsTable(bosses.drops, Keys, BossDropRow) /\ IsTable(bosses.manual, FewKeys, ManualRow)
  /\ IsTable(bosses.prices, FewKeys \X Difficulties, SUBSET CrystalRow)

BossRequests ==
  [op : {"setRules"}, text : {2}, left : {RuleFields}, seeding : {FALSE}]
    \cup [op : {"createBoss"}, key : FewKeys, cycle : {"weekly"}, text : {2}, diffs : {{1}, {1, 2}}]
    \cup [op : {"setBossAlias", "setBossPeriod"}, key : FewKeys, text : {2}]
    \cup {[op |-> "seedBosses"]}
DifficultyRequests ==
  [op : {"upsertDifficulty", "setDifficultyPeriod"}, key : {1, 2}, d : Difficulties, text : {2}]
    \cup [op : {"deleteDifficulty"}, key : {1}, d : Difficulties]
    \cup [op : {"setMaxPartySize"}, key : {1}, d : Difficulties, party : {None, 2}]
    \cup {[op |-> "seedCrystalPrices"]}
PriceRequests ==
  [op : {"addCrystalPrice", "removeCrystalPrice"}, key : FewKeys, d : {1}, from : Days \cup {None}]
    \cup [op : {"deleteDifficulty"}, key : {1}, d : Difficulties]
    \cup [op : {"upsertDifficulty"}, key : {1}, d : Difficulties, text : {1}]
    \cup {[op |-> "seedCrystalPrices"]}
DropRequests ==
  [op : {"createBossDrop"}, key : {1}, d : {1}, item : FewKeys, from : {None}, text : {2}]
    \cup [op : {"updateBossDrop"}, id : Keys, from : {1}, text : {2}]
    \cup [op : {"deleteBossDrop"}, id : Keys] \cup [op : {"moveBossDrop"}, id : Keys, dir : Dirs]
    \cup [op : {"deleteDifficulty"}, key : {1}, d : {1}] \cup {[op |-> "seedBossDrops"]}
ManualRequests ==
  [op : {"openBoss"}, key : FewKeys] \cup [op : {"closeBoss"}, id : FewKeys]

Pair(q)         == <<q.key, q.d>>
DropsOf(t, p)   == {i \in DOMAIN t.drops : t.drops[i].pair = p}
DiffsOf(t, key) == {p \in DOMAIN t.diffs : p[1] = key}
PricesOf(t, p)  == IF p \in DOMAIN t.prices THEN t.prices[p] ELSE {}

AskBosses(r, requests) == \E q \in requests :
  /\ q.op = "createBossDrop" => NextOrder(bosses.drops, DropsOf(bosses, Pair(q))) <= MaxOrder
  /\ Ask(r, q, bosses) /\ UNCHANGED <<bosses, items>>

-----------------------------------------------------------------------------
(* Bosses and their difficulties. *)

\* The difficulties of a new boss come with it, in one transaction.
bossCreate(now, key, row, diffs, text) ==
  IF key \in DOMAIN now.rows THEN Failed(now, "BossExists")
  ELSE Wrote([now EXCEPT
         !.rows  = Join(@, One(key, [row EXCEPT !.order = NextOrder(now.rows, DOMAIN now.rows)])),
         !.diffs = Join(@, [p \in {key} \X diffs |-> NewDifficulty(text)])])

bossUpdate(now, q, row(_)) == In(now, "rows", Updated(now.rows, q.key, row))
periodSet(now, q) == bossUpdate(now, q, LAMBDA row : [row EXCEPT !.period = q.text])
aliasSet(now, q)  == bossUpdate(now, q, LAMBDA row : [row EXCEPT !.alias = q.text])

\* Of a difficulty that is there only the level changes.  Its boss was found before.
difficultyUpsert(seen, now, q) ==
  IF q.key \notin DOMAIN seen.rows THEN Unknown(now)
  ELSE IF Pair(q) \in DOMAIN now.diffs THEN Wrote([now EXCEPT !.diffs[Pair(q)].level = q.text])
  ELSE Wrote([now EXCEPT !.diffs = Join(@, One(Pair(q), NewDifficulty(q.text)))])

\* The row was found before the transaction; one that is gone by then is updated no more.
difficultyUpdate(seen, now, q, row(_)) ==
  IF Pair(q) \notin DOMAIN seen.diffs THEN Unknown(now)
  ELSE IF Pair(q) \notin DOMAIN now.diffs THEN Kept(now)
  ELSE Wrote([now EXCEPT !.diffs[Pair(q)] = row(@)])

difficultyPeriodSet(seen, now, q) ==
  difficultyUpdate(seen, now, q, LAMBDA row : [row EXCEPT !.period = q.text])
maxPartySizeSet(seen, now, q) ==
  difficultyUpdate(seen, now, q, LAMBDA row : [row EXCEPT !.party = q.party])

\* Mutant: only the row of the difficulty goes.
NothingElse(t, p) == t

\* ON DELETE CASCADE: its drops and its prices go with a difficulty.
DropsAndPricesKept(t, p) ==
  [t EXCEPT !.drops = Without(@, DropsOf(t, p)), !.prices = Without(@, {p})]

difficultyDelete(seen, now, q) ==
  IF Pair(q) \notin DOMAIN seen.diffs THEN Unknown(now)
  ELSE IF Cardinality(DiffsOf(seen, q.key)) = 1 THEN Failed(now, "LastDifficulty")
  ELSE Wrote([DropsAndPricesKept(now, Pair(q)) EXCEPT !.diffs = Without(@, {Pair(q)})])

-----------------------------------------------------------------------------
(* Drops.  Items are never deleted. *)

\* UNIQUE NULLS NOT DISTINCT (difficulty, category, item, from)
SameReward(t, self, pair, item, from) ==
  \E i \in DropsOf(t, pair) \ {self} : t.drops[i].item = item /\ t.drops[i].from = from

dropCreate(seen, now, q, id) ==
  IF Pair(q) \notin DOMAIN seen.diffs THEN Failed(now, "NoBossDifficulty")
  ELSE IF q.item \notin DOMAIN items.items THEN Failed(now, "NoDropItem")
  ELSE IF Pair(q) \notin DOMAIN now.diffs THEN Failed(now, "foreign key")
  ELSE IF SameReward(now, None, Pair(q), q.item, q.from) THEN Failed(now, "RewardExists")
  ELSE In(now, "drops",
          Inserted(now.drops,
            One(id, [pair |-> Pair(q), item |-> q.item, from |-> q.from, text |-> q.text,
                     order |-> NextOrder(seen.drops, DropsOf(seen, Pair(q)))]), "unique"))

dropUpdate(now, q) ==
  IF /\ q.id \in DOMAIN now.drops
     /\ SameReward(now, q.id, now.drops[q.id].pair, now.drops[q.id].item, q.from)
  THEN Failed(now, "RewardExists")
  ELSE In(now, "drops", Updated(now.drops, q.id,
                                LAMBDA row : [row EXCEPT !.from = q.from, !.text = q.text]))

dropDelete(now, q) ==
  IF q.id \notin DOMAIN now.drops THEN Unknown(now)
  ELSE Wrote([now EXCEPT !.drops = Without(@, {q.id})])

dropMove(seen, now, q) ==
  IF q.id \notin DOMAIN seen.drops THEN Unknown(now)
  ELSE In(now, "drops",
          Moved(seen.drops, now.drops, DropsOf(seen, seen.drops[q.id].pair), q.id, q.dir))

\* One item of every seeded boss, when there is no drop.
dropsSeed(seen, now) ==
  IF DOMAIN seen.drops # {} THEN Kept(now)
  ELSE IF ~ (SeedKeys \X {1}) \subseteq DOMAIN seen.diffs \/ 1 \notin DOMAIN items.items
       THEN Failed(now, "missing")
  ELSE In(now, "drops",
          Inserted(now.drops, [k \in SeedKeys |-> [pair |-> <<k, 1>>, item |-> 1, from |-> None,
                                                   text |-> 1, order |-> 0]], "unique"))

-----------------------------------------------------------------------------
(* Prices of crystals. *)

\* isPeriodBoundary, of the cycle of the boss.
OnBoundary(t, boss, day) == day \in Boundaries[t.rows[boss].cycle]

priceAdd(seen, now, q) ==
  LET rows == PricesOf(now, Pair(q))
      open == Standing(PricesOf(seen, Pair(q)))
  IN IF Pair(q) \notin DOMAIN seen.diffs THEN Failed(now, "NoBossDifficulty")
     ELSE IF open # {} /\ q.from = None THEN Failed(now, "NotAfterCurrent")
     ELSE IF q.from # None /\ ~ OnBoundary(seen, q.key, q.from) THEN Failed(now, "NotBoundary")
     ELSE IF \E x \in open : ~ StartsAfter(q.from, x) THEN Failed(now, "NotAfterCurrent")
     ELSE IF Pair(q) \notin DOMAIN now.diffs THEN Failed(now, "foreign key")
     ELSE IF SameStart(rows, q.from) THEN Failed(now, "unique")
     ELSE Wrote([now EXCEPT !.prices = Join(@, One(Pair(q), Opened(rows, open, q.from)))])

\* A row is named by its id: here by its combination and the day it starts on.
priceRemove(now, q) ==
  LET rows  == PricesOf(now, Pair(q))
      named == {x \in rows : x.from = q.from}
      row   == CHOOSE x \in named : TRUE
  IN IF named = {} THEN Unknown(now)
     ELSE IF row.until # None THEN Failed(now, "NotLatest")
     ELSE Wrote([now EXCEPT !.prices = Join(@, One(Pair(q), TakenBack(rows, row)))])

\* Party sizes nobody set, and the rule when there is none.  Only the rule has a time.
partySeed(now) ==
  [now     |-> [now EXCEPT
                  !.diffs = [p \in DOMAIN @ |-> IF p \in SeedKeys \X {1} /\ @[p].party = None
                                                THEN [@[p] EXCEPT !.party = 1] ELSE @[p]],
                  !.rules["party"] = IF @ = None THEN 1 ELSE @],
   touched |-> now.rules["party"] = None,
   error   |-> "none"]

\* Then the prices, when there is none.
pricesSeed(now) ==
  IF \E p \in DOMAIN now.prices : now.prices[p] # {} THEN Kept(now)
  ELSE IF ~ (SeedKeys \X {1}) \subseteq DOMAIN now.diffs THEN Failed(now, "missing")
  ELSE Wrote([now EXCEPT !.prices = Join(@, [p \in SeedKeys \X {1} |->
                                             {Row(None, 1), Row(1, None)}])])

-----------------------------------------------------------------------------
(* Completion by hand: one open row of a boss. *)

OpenRows(t, boss) == {i \in DOMAIN t.manual : t.manual[i].boss = boss /\ t.manual[i].open}
Opening(now, q, id) ==
  Kept([now EXCEPT !.manual = Join(@, One(id, [boss |-> q.key, open |-> TRUE]))])

\* Mutant: the open row is looked for before the transaction, and no index is in the way.
OpenUnlessSeen(seen, now, q, id) ==
  IF q.key \notin DOMAIN seen.rows THEN Unknown(now)
  ELSE IF OpenRows(seen, q.key) # {} THEN Failed(now, "AlreadyOpen")
  ELSE Opening(now, q, id)

\* A unique index holds the rows that are open.
manualOpen(seen, now, q, id) ==
  IF q.key \notin DOMAIN seen.rows THEN Unknown(now)
  ELSE IF OpenRows(now, q.key) # {} THEN Failed(now, "AlreadyOpen")
  ELSE Opening(now, q, id)

manualClose(now, q) ==
  IF q.id \in DOMAIN now.manual /\ now.manual[q.id].open
  THEN Kept([now EXCEPT !.manual[q.id].open = FALSE]) ELSE Unknown(now)

-----------------------------------------------------------------------------
OnBosses(r, op, section, out, codes) ==
  /\ Asked(r, op) /\ bosses' = out.now
  /\ Close(r, section, out, codes) /\ UNCHANGED <<assets, items>>

CreateBoss(r) ==
  OnBosses(r, "createBoss", "bosses",
    Pictured(r, Q(r).text, bosses,
      bossCreate(bosses, Q(r).key,
                 [cycle |-> Q(r).cycle, alias |-> Q(r).text, period |-> Q(r).text, order |-> 0],
                 Q(r).diffs, Q(r).text)),
    [BossExists |-> 409])
SetBossPeriod(r) ==
  OnBosses(r, "setBossPeriod", "bosses", periodSet(bosses, Q(r)), NoCodes)
SetBossAlias(r) ==
  OnBosses(r, "setBossAlias", "bosses", aliasSet(bosses, Q(r)), NoCodes)
SetDifficultyPeriod(r) ==
  OnBosses(r, "setDifficultyPeriod", "bosses",
           difficultyPeriodSet(Seen(r), bosses, Q(r)), NoCodes)
SetMaxPartySize(r) ==
  OnBosses(r, "setMaxPartySize", "bosses", maxPartySizeSet(Seen(r), bosses, Q(r)), NoCodes)
UpsertDifficulty(r) ==
  OnBosses(r, "upsertDifficulty", "bosses", difficultyUpsert(Seen(r), bosses, Q(r)), NoCodes)
DeleteDifficulty(r) ==
  OnBosses(r, "deleteDifficulty", "bosses", difficultyDelete(Seen(r), bosses, Q(r)),
           [LastDifficulty |-> 409])

CreateBossDrop(r) == \E id \in Fresh(Keys, bosses.drops) :
  OnBosses(r, "createBossDrop", "bossDrops", dropCreate(Seen(r), bosses, Q(r), id),
           [NoBossDifficulty |-> 404, NoDropItem |-> 404, RewardExists |-> 409])
UpdateBossDrop(r) ==
  OnBosses(r, "updateBossDrop", "bossDrops", dropUpdate(bosses, Q(r)), [RewardExists |-> 409])
DeleteBossDrop(r) ==
  OnBosses(r, "deleteBossDrop", "bossDrops", dropDelete(bosses, Q(r)), NoCodes)
MoveBossDrop(r) ==
  OnBosses(r, "moveBossDrop", "bossDrops", dropMove(Seen(r), bosses, Q(r)), NoCodes)
SeedBossDrops(r) ==
  OnBosses(r, "seedBossDrops", "bossDrops", dropsSeed(Seen(r), bosses), SeedCodes)

AddCrystalPrice(r) ==
  OnBosses(r, "addCrystalPrice", "crystalPrices", priceAdd(Seen(r), bosses, Q(r)),
           [NoBossDifficulty |-> 404, NotBoundary |-> 400, NotAfterCurrent |-> 400])
RemoveCrystalPrice(r) ==
  OnBosses(r, "removeCrystalPrice", "crystalPrices", priceRemove(bosses, Q(r)), [NotLatest |-> 409])

OpenBoss(r) == \E id \in Fresh(FewKeys, bosses.manual) :
  OnBosses(r, "openBoss", "none", manualOpen(Seen(r), bosses, Q(r), id), [AlreadyOpen |-> 409])
CloseBoss(r) == OnBosses(r, "closeBoss", "none", manualClose(bosses, Q(r)), NoCodes)

-----------------------------------------------------------------------------
(* Calls of more than one transaction: one of them is committed, and the    *)
(* call goes on.                                                            *)

GoesOn(r, op, q, out, section) ==
  /\ Asked(r, op) /\ bosses' = out.now
  /\ call' = [call EXCEPT ![r].q = q]
  /\ answer' = [status |-> 0, touched |-> IF out.touched THEN {section} ELSE {}]
  /\ UNCHANGED <<assets, items>>

\* One write for every rule, each on its own.
SetRule(r) == Asked(r, "setRules") /\
  LET out  == Wrote([bosses EXCEPT !.rules[Head(Q(r).left)] = Q(r).text])
      rest == [Q(r) EXCEPT !.left = Tail(@)]
  IN IF Len(Q(r).left) > 1 THEN GoesOn(r, "setRules", rest, out, "bosses")
     ELSE IF Q(r).seeding
          THEN GoesOn(r, "setRules", [op |-> "seedBoss", key |-> 1], out, "bosses")
     ELSE OnBosses(r, "setRules", "bosses", out, NoCodes)

\* The rules, when there is no boss, and then a transaction for every boss.
SeedBosses(r) == Asked(r, "seedBosses") /\
  IF DOMAIN Seen(r).rows # {} THEN OnBosses(r, "seedBosses", "bosses", Kept(bosses), NoCodes)
  ELSE GoesOn(r, "seedBosses", [op |-> "setRules", text |-> 1, left |-> RuleFields, seeding |-> TRUE],
              Kept(bosses), "bosses")
SeedNextBoss(r) == Asked(r, "seedBoss") /\
  LET key == Q(r).key
      out == bossCreate(bosses, key, SeedBoss(key), Difficulties, 1)
  IN IF out.error = "none" /\ key < SeedSize
     THEN GoesOn(r, "seedBoss", [Q(r) EXCEPT !.key = key + 1], out, "bosses")
     ELSE OnBosses(r, "seedBoss", "bosses", out, [BossExists |-> 1])

SeedPartySizes(r) == Asked(r, "seedCrystalPrices") /\
  IF ~ (SeedKeys \X {1}) \subseteq DOMAIN Seen(r).diffs
  THEN OnBosses(r, "seedCrystalPrices", "bosses", Failed(bosses, "missing"), SeedCodes)
  ELSE GoesOn(r, "seedCrystalPrices", [op |-> "seedPrices"], partySeed(bosses), "bosses")
SeedPrices(r) ==
  OnBosses(r, "seedPrices", "crystalPrices", pricesSeed(bosses), SeedCodes)

BossesNext(requests) == \E r \in Requests :
  \/ AskBosses(r, requests) \/ CreateBoss(r) \/ SetBossPeriod(r) \/ SetBossAlias(r)
  \/ SetDifficultyPeriod(r) \/ SetMaxPartySize(r) \/ UpsertDifficulty(r) \/ DeleteDifficulty(r)
  \/ CreateBossDrop(r) \/ UpdateBossDrop(r) \/ DeleteBossDrop(r) \/ MoveBossDrop(r)
  \/ SeedBossDrops(r) \/ AddCrystalPrice(r) \/ RemoveCrystalPrice(r) \/ OpenBoss(r) \/ CloseBoss(r)
  \/ SetRule(r) \/ SeedBosses(r) \/ SeedNextBoss(r) \/ SeedPartySizes(r) \/ SeedPrices(r)

BossesSection ==
  [rules |-> bosses.rules, diffs |-> bosses.diffs,
   rows |-> [k \in DOMAIN bosses.rows |->
               <<[bosses.rows[k] EXCEPT !.order = 0], Rank(bosses.rows, DOMAIN bosses.rows, k)>>]]
BossDropsSection ==
  {<<bosses.drops[i].pair, bosses.drops[i].item, bosses.drops[i].from,
     Place(bosses.drops, DropsOf(bosses, bosses.drops[i].pair), i)>> : i \in DOMAIN bosses.drops}
CrystalPricesSection ==
  [p \in {x \in DOMAIN bosses.prices : bosses.prices[x] # {}} |-> bosses.prices[p]]

=============================================================================
