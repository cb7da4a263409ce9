------------------------ MODULE AdministrationProofs ------------------------
(***************************************************************************)
(* What is proved of the catalogue as a whole.  The bosses, which rows of  *)
(* several lists hang on, come first, as the other lists in                *)
(* CatalogueProofs.  With the calls in progress, all of it is the          *)
(* inductive invariant (IInv) and gives the invariants of one operator.    *)
(* The rest is about steps: that dated prices are stacks, that a seeding   *)
(* keeps every row, and that the times of the sections tell every change.  *)
(***************************************************************************)
EXTENDS CatalogueProofs

-----------------------------------------------------------------------------
(* Bosses. *)

\* Every difficulty is of a boss, and every boss has one.
BossesFit(rows, diffs) ==
  /\ Ordered(rows, FewKeys, BossRow)
  /\ IsTable(diffs, FewKeys \X Difficulties, DifficultyRow)
  /\ \A p \in DOMAIN diffs : p[1] \in DOMAIN rows
  /\ \A key \in DOMAIN rows : \E p \in DOMAIN diffs : p[1] = key

DropsFit(drops, diffs, known) ==
  /\ OrderedBy(drops, Keys, BossDropRow, "pair")
  /\ \A i \in DOMAIN drops : drops[i].pair \in DOMAIN diffs /\ drops[i].item \in known

PricesFit(prices, diffs) == Chains(prices) /\ DOMAIN prices \subseteq DOMAIN diffs

\* Of a boss one completion at most is open.
ManualFits(manual) ==
  /\ IsTable(manual, FewKeys, ManualRow)
  /\ \A a, b \in DOMAIN manual :
       manual[a].open /\ manual[b].open /\ manual[a].boss = manual[b].boss => a = b

GoodBosses(t, known) ==
  /\ DOMAIN t = {"rules", "rows", "diffs", "drops", "prices", "manual"}
  /\ t.rules \in [{"limit", "party"} -> RuleValue]
  /\ BossesFit(t.rows, t.diffs) /\ DropsFit(t.drops, t.diffs, known)
  /\ PricesFit(t.prices, t.diffs) /\ ManualFits(t.manual)

KnownItems == DOMAIN items.items

EndsBosses(t, out, errors) ==
  /\ GoodBosses(out.now, KnownItems) /\ out.error \in errors
  /\ StackMoves(t.prices, out.now.prices)

\* What a call of more than one transaction does next.  It reads nothing of what it read before.
LaterRequests ==
  [op : {"setRules"}, text : Texts, left : {RuleFields, <<"party">>}, seeding : BOOLEAN]
    \cup [op : {"seedBoss"}, key : SeedKeys] \cup {[op |-> "seedPrices"]}

BossesAsked ==
  BossRequests \cup DifficultyRequests \cup PriceRequests \cup DropRequests \cup LaterRequests

\* What the requests of a kind bring.
LEMMA BossesAsking ==
  ASSUME NEW q \in BossesAsked
  PROVE  /\ q.op = "createBoss" => /\ q.key \in FewKeys /\ q.cycle = "weekly" /\ q.text \in Texts
                                   /\ q.diffs \in {{1}, {1, 2}}
         /\ q.op \in {"setBossAlias", "setBossPeriod"} => q.text \in Texts
         /\ q.op \in {"upsertDifficulty", "setDifficultyPeriod"} =>
              q.d \in Difficulties /\ q.text \in Texts
         /\ q.op = "setMaxPartySize" => q.party \in {None, 2}
         /\ q.op = "createBossDrop" =>
              q.item \in FewKeys /\ q.from = None /\ q.text \in Texts /\ q.d \in Difficulties
         /\ q.op = "updateBossDrop" => q.from = 1 /\ q.text \in Texts
         /\ q.op = "addCrystalPrice" => q.from \in Days \cup {None}
         /\ q.op = "setRules" => /\ q.text \in Texts /\ q.left \in {RuleFields, <<"party">>}
                                 /\ q.seeding \in BOOLEAN
                                 /\ [q EXCEPT !.left = <<"party">>] \in LaterRequests
         /\ q.op = "seedBoss" =>
              q.key \in SeedKeys /\ \A n \in SeedKeys : [q EXCEPT !.key = n] \in LaterRequests
<1>0. /\ FewKeys \subseteq Keys /\ 1 \in FewKeys /\ {1, 2} \subseteq Texts
      /\ 1 \in Difficulties
  BY SeedOrdered, CatalogueAssumption DEF Difficulties
<1> DEFINE goal ==
         /\ q.op = "createBoss" => /\ q.key \in FewKeys /\ q.cycle = "weekly" /\ q.text \in Texts
                                   /\ q.diffs \in {{1}, {1, 2}}
         /\ q.op \in {"setBossAlias", "setBossPeriod"} => q.text \in Texts
         /\ q.op \in {"upsertDifficulty", "setDifficultyPeriod"} =>
              q.d \in Difficulties /\ q.text \in Texts
         /\ q.op = "setMaxPartySize" => q.party \in {None, 2}
         /\ q.op = "createBossDrop" =>
              q.item \in FewKeys /\ q.from = None /\ q.text \in Texts /\ q.d \in Difficulties
         /\ q.op = "updateBossDrop" => q.from = 1 /\ q.text \in Texts
         /\ q.op = "addCrystalPrice" => q.from \in Days \cup {None}
         /\ q.op = "setRules" => /\ q.text \in Texts /\ q.left \in {RuleFields, <<"party">>}
                                 /\ q.seeding \in BOOLEAN
                                 /\ [q EXCEPT !.left = <<"party">>] \in LaterRequests
         /\ q.op = "seedBoss" =>
              q.key \in SeedKeys /\ \A n \in SeedKeys : [q EXCEPT !.key = n] \in LaterRequests
<1>1. ASSUME q \in [op : {"setRules"}, text : Texts, left : {RuleFields, <<"party">>},
                    seeding : BOOLEAN]
      PROVE  goal
  <2>1. q.op = "setRules"
    BY <1>1
  <2>2. /\ q.text \in Texts /\ q.left \in {RuleFields, <<"party">>} /\ q.seeding \in BOOLEAN
    BY <1>1
  <2>3. [q EXCEPT !.left = <<"party">>] \in
          [op : {"setRules"}, text : Texts, left : {RuleFields, <<"party">>}, seeding : BOOLEAN]
    BY <1>1
  <2>4. [q EXCEPT !.left = <<"party">>] \in LaterRequests
    BY <2>3 DEF LaterRequests
  <2> QED
    BY <2>1, <2>2, <2>4
<1>2. ASSUME q \in [op : {"seedBoss"}, key : SeedKeys] PROVE goal
  <2>1. q.op = "seedBoss" /\ q.key \in SeedKeys
    BY <1>2
  <2>2. \A n \in SeedKeys : [q EXCEPT !.key = n] \in [op : {"seedBoss"}, key : SeedKeys]
    BY <1>2
  <2>3. \A n \in SeedKeys : [q EXCEPT !.key = n] \in LaterRequests
    BY <2>2 DEF LaterRequests
  <2> QED
    BY <2>1, <2>3
<1>3. ASSUME q \in BossRequests PROVE goal
  <2>1. CASE q \in [op : {"setRules"}, text : {2}, left : {RuleFields}, seeding : {FALSE}]
    BY <1>0, <1>1, <2>1
  <2>2. CASE q \in [op : {"createBoss"}, key : FewKeys, cycle : {"weekly"}, text : {2},
                    diffs : {{1}, {1, 2}}]
    BY <1>0, <2>2
  <2>3. CASE q \in [op : {"setBossAlias", "setBossPeriod"}, key : FewKeys, text : {2}]
    BY <1>0, <2>3
  <2>4. CASE q = [op |-> "seedBosses"]
    <3>1. q.op = "seedBosses"
      BY <2>4
    <3> QED
      BY <3>1
  <2> QED
    BY <1>3, <2>1, <2>2, <2>3, <2>4 DEF BossRequests
<1>4. ASSUME q \in DifficultyRequests PROVE goal
  <2>1. CASE q \in [op : {"upsertDifficulty", "setDifficultyPeriod"}, key : {1, 2},
                    d : Difficulties, text : {2}]
    BY <1>0, <2>1
  <2>2. CASE q \in [op : {"deleteDifficulty"}, key : {1}, d : Difficulties]
    BY <2>2
  <2>3. CASE q \in [op : {"setMaxPartySize"}, key : {1}, d : Difficulties, party : {None, 2}]
    BY <2>3
  <2>4. CASE q = [op |-> "seedCrystalPrices"]
    <3>1. q.op = "seedCrystalPrices"
      BY <2>4
    <3> QED
      BY <3>1
  <2> QED
    BY <1>4, <2>1, <2>2, <2>3, <2>4 DEF DifficultyRequests
<1>5. ASSUME q \in PriceRequests PROVE goal
  <2>1. CASE q \in [op : {"addCrystalPrice", "removeCrystalPrice"}, key : FewKeys, d : {1},
                    from : Days \cup {None}]
    BY <2>1
  <2>2. CASE q \in [op : {"deleteDifficulty"}, key : {1}, d : Difficulties]
    BY <2>2
  <2>3. CASE q \in [op : {"upsertDifficulty"}, key : {1}, d : Difficulties, text : {1}]
    BY <1>0, <2>3
  <2>4. CASE q = [op |-> "seedCrystalPrices"]
    <3>1. q.op = "seedCrystalPrices"
      BY <2>4
    <3> QED
      BY <3>1
  <2> QED
    BY <1>5, <2>1, <2>2, <2>3, <2>4 DEF PriceRequests
<1>6. ASSUME q \in DropRequests PROVE goal
  <2>1. CASE q \in [op : {"createBossDrop"}, key : {1}, d : {1}, item : FewKeys, from : {None},
                    text : {2}]
    BY <1>0, <2>1
  <2>2. CASE q \in [op : {"updateBossDrop"}, id : Keys, from : {1}, text : {2}]
    BY <1>0, <2>2
  <2>3. CASE q \in [op : {"deleteBossDrop"}, id : Keys]
    BY <2>3
  <2>4. CASE q \in [op : {"moveBossDrop"}, id : Keys, dir : Dirs]
    BY <2>4
  <2>5. CASE q \in [op : {"deleteDifficulty"}, key : {1}, d : {1}]
    BY <2>5
  <2>6. CASE q = [op |-> "seedBossDrops"]
    <3>1. q.op = "seedBossDrops"
      BY <2>6
    <3> QED
      BY <3>1
  <2> HIDE DEF goal
  <2> QED
    BY <1>6, <2>1, <2>2, <2>3, <2>4, <2>5, <2>6 DEF DropRequests
<1>7. ASSUME q = [op |-> "seedPrices"] PROVE goal
  <2>1. q.op = "seedPrices"
    BY <1>7
  <2> QED
    BY <2>1
<1>8. goal
  <2> HIDE DEF goal
  <2>1. q \in LaterRequests => goal
    BY <1>1, <1>2, <1>7 DEF LaterRequests
  <2> QED
    BY <1>3, <1>4, <1>5, <1>6, <2>1 DEF BossesAsked
<1> QED
  BY <1>8

-----------------------------------------------------------------------------
(* Bosses: what transactions leave. *)

LEMMA BossesWritten ==
  ASSUME NEW t, GoodBosses(t, KnownItems), NEW new, DOMAIN new = DOMAIN t,
         new.rules \in [{"limit", "party"} -> RuleValue], BossesFit(new.rows, new.diffs),
         DropsFit(new.drops, new.diffs, KnownItems), PricesFit(new.prices, new.diffs),
         ManualFits(new.manual), StackMoves(t.prices, new.prices)
  PROVE  EndsBosses(t, Wrote(new), {"none"}) /\ EndsBosses(t, Kept(new), {"none"})
<1>1. GoodBosses(new, KnownItems)
  BY DEF GoodBosses
<1> QED
  BY <1>1 DEF EndsBosses, Wrote, Kept

\* Difficulties of known bosses come or change, and none goes.
LEMMA DiffsWritten ==
  ASSUME NEW t, GoodBosses(t, KnownItems), NEW new, DOMAIN new = DOMAIN t,
         new.rules = t.rules, new.rows = t.rows, new.drops = t.drops, new.prices = t.prices,
         new.manual = t.manual, DOMAIN t.diffs \subseteq DOMAIN new.diffs,
         IsTable(new.diffs, FewKeys \X Difficulties, DifficultyRow),
         \A p \in DOMAIN new.diffs : p[1] \in DOMAIN t.rows
  PROVE  EndsBosses(t, Wrote(new), {"none"})
<1>1. /\ new.rules \in [{"limit", "party"} -> RuleValue] /\ ManualFits(new.manual)
      /\ DropsFit(new.drops, new.diffs, KnownItems) /\ PricesFit(new.prices, new.diffs)
  BY DEF GoodBosses, DropsFit, PricesFit
<1>2. BossesFit(new.rows, new.diffs)
  BY DEF GoodBosses, BossesFit
<1>3. StackMoves(t.prices, new.prices)
  BY DEF StackMoves
<1> QED
  BY <1>1, <1>2, <1>3, BossesWritten

LEMMA BossesPart ==
  ASSUME NEW t, GoodBosses(t, KnownItems), NEW out, NEW errors
  PROVE  /\ Ends(out, FewKeys, BossRow, errors) /\ DOMAIN out.now = DOMAIN t.rows
              => EndsBosses(t, In(t, "rows", out), errors)
         /\ EndsBy(out, Keys, BossDropRow, "pair", errors)
              /\ (\A i \in DOMAIN out.now : out.now[i].pair \in DOMAIN t.diffs
                                            /\ out.now[i].item \in KnownItems)
              => EndsBosses(t, In(t, "drops", out), errors)
<1> DEFINE first == [t EXCEPT !["rows"] = out.now]
           second == [t EXCEPT !["drops"] = out.now]
<1>1. /\ DOMAIN first = DOMAIN t /\ first.rules = t.rules /\ first.rows = out.now
      /\ first.diffs = t.diffs /\ first.drops = t.drops /\ first.prices = t.prices
      /\ first.manual = t.manual
      /\ DOMAIN second = DOMAIN t /\ second.rules = t.rules /\ second.rows = t.rows
      /\ second.diffs = t.diffs /\ second.drops = out.now /\ second.prices = t.prices
      /\ second.manual = t.manual
  BY DEF GoodBosses
<1>2. IsOut(out) => /\ In(t, "rows", out).now = first /\ In(t, "drops", out).now = second
                    /\ In(t, "rows", out).error = out.error
                    /\ In(t, "drops", out).error = out.error
  BY DEF In, IsOut
<1>t. /\ DOMAIN t = {"rules", "rows", "diffs", "drops", "prices", "manual"}
      /\ t.rules \in [{"limit", "party"} -> RuleValue]
      /\ BossesFit(t.rows, t.diffs) /\ DropsFit(t.drops, t.diffs, KnownItems)
      /\ PricesFit(t.prices, t.diffs) /\ ManualFits(t.manual)
  BY DEF GoodBosses
<1> HIDE DEF first, second
<1>3. ASSUME Ends(out, FewKeys, BossRow, errors), DOMAIN out.now = DOMAIN t.rows
      PROVE  EndsBosses(t, In(t, "rows", out), errors)
  <2>1. BossesFit(first.rows, first.diffs)
    BY <1>1, <1>3, <1>t DEF BossesFit, Ends
  <2>2. GoodBosses(first, KnownItems)
    BY <1>1, <1>t, <2>1 DEF GoodBosses
  <2> QED
    BY <1>1, <1>2, <1>3, <2>2 DEF EndsBosses, Ends, StackMoves
<1>4. ASSUME EndsBy(out, Keys, BossDropRow, "pair", errors),
             \A i \in DOMAIN out.now : out.now[i].pair \in DOMAIN t.diffs
                                       /\ out.now[i].item \in KnownItems
      PROVE  EndsBosses(t, In(t, "drops", out), errors)
  <2>1. DropsFit(second.drops, second.diffs, KnownItems)
    BY <1>1, <1>4 DEF DropsFit, EndsBy
  <2>2. GoodBosses(second, KnownItems)
    BY <1>1, <1>t, <2>1 DEF GoodBosses
  <2> QED
    BY <1>1, <1>2, <1>4, <2>2 DEF EndsBosses, EndsBy, StackMoves
<1> QED
  BY <1>3, <1>4

\* A boss comes with its difficulties.
LEMMA BossCreated ==
  ASSUME NEW t, GoodBosses(t, KnownItems), NEW key \in FewKeys, NEW row,
         \A n \in Nat : [row EXCEPT !.order = n] \in BossRow /\ [row EXCEPT !.order = n].order = n,
         NEW diffs \in SUBSET Difficulties, diffs # {}, NEW text \in Texts
  PROVE  EndsBosses(t, bossCreate(t, key, row, diffs, text), {"none", "BossExists"})
<1> DEFINE n == NextOrder(t.rows, DOMAIN t.rows)
           placed == [row EXCEPT !.order = n]
           rows == Join(t.rows, One(key, placed))
           these == [p \in {key} \X diffs |-> NewDifficulty(text)]
           all == Join(t.diffs, these)
           new == [t EXCEPT !.rows = rows, !.diffs = all]
<1>t. /\ DOMAIN t = {"rules", "rows", "diffs", "drops", "prices", "manual"}
      /\ t.rules \in [{"limit", "party"} -> RuleValue]
      /\ BossesFit(t.rows, t.diffs) /\ DropsFit(t.drops, t.diffs, KnownItems)
      /\ PricesFit(t.prices, t.diffs) /\ ManualFits(t.manual)
  BY DEF GoodBosses
<1>1. \/ key \in DOMAIN t.rows /\ bossCreate(t, key, row, diffs, text) = Failed(t, "BossExists")
      \/ key \notin DOMAIN t.rows /\ bossCreate(t, key, row, diffs, text) = Wrote(new)
  BY DEF bossCreate
<1>2. CASE key \notin DOMAIN t.rows /\ bossCreate(t, key, row, diffs, text) = Wrote(new)
  <2>1. /\ DOMAIN new = DOMAIN t /\ new.rules = t.rules /\ new.rows = rows /\ new.diffs = all
        /\ new.drops = t.drops /\ new.prices = t.prices /\ new.manual = t.manual
    BY <1>t
  <2>2. Placed(BossRow) /\ FewKeys \in SUBSET Keys /\ Ordered(t.rows, FewKeys, BossRow)
    BY <1>t, RowsPlaced, CatalogueAssumption DEF BossesFit
  <2>3. n \in Nat
    BY <2>2, OrderedTables, NextOrderBehind DEF Ordered, HasOrders
  <2>4. placed \in BossRow /\ placed.order = n
    BY <2>3
  <2> HIDE DEF new, placed
  <2>5. Ordered(rows, FewKeys, BossRow)
    <3>1. Ends(Inserted(t.rows, One(key, placed), "e"), FewKeys, BossRow, {"none", "e"})
      BY <2>2, <2>4, InsertedOrdered
    <3>2. Inserted(t.rows, One(key, placed), "e").now = rows
      BY <1>2 DEF Inserted, One, Wrote
    <3> QED
      BY <3>1, <3>2 DEF Ends
  <2>6. DOMAIN rows = DOMAIN t.rows \cup {key}
    BY DEF Join, One
  <2>7. /\ DOMAIN all = DOMAIN t.diffs \cup ({key} \X diffs)
        /\ \A p \in DOMAIN all : p \in {key} \X diffs \/ (p \in DOMAIN t.diffs /\ all[p] = t.diffs[p])
        /\ \A p \in {key} \X diffs : all[p] = NewDifficulty(text)
    BY DEF Join
  <2>8. NewDifficulty(text) \in DifficultyRow
    BY DEF NewDifficulty, DifficultyRow
  <2>9. \A p \in {key} \X diffs : p \in FewKeys \X Difficulties /\ p[1] = key
    OBVIOUS
  <2> HIDE DEF rows, all
  <2>10. BossesFit(rows, all)
    <3>1. \A k \in DOMAIN rows : \E p \in DOMAIN all : p[1] = k
      <4>1. PICK d \in diffs : TRUE
        OBVIOUS
      <4>2. <<key, d>> \in {key} \X diffs /\ <<key, d>>[1] = key
        OBVIOUS
      <4>3. \A k \in DOMAIN t.rows : \E p \in DOMAIN t.diffs : p[1] = k
        BY <1>t DEF BossesFit
      <4>4. \E p \in DOMAIN all : p[1] = key
        BY <2>7, <4>2
      <4> QED
        BY <2>6, <2>7, <4>3, <4>4
    <3>2. \A p \in DOMAIN all : p[1] \in DOMAIN rows
      BY <1>t, <2>6, <2>7, <2>9 DEF BossesFit
    <3>3. IsTable(all, FewKeys \X Difficulties, DifficultyRow)
      BY <1>t, <2>7, <2>8, <2>9 DEF BossesFit, IsTable
    <3> QED
      BY <2>5, <3>1, <3>2, <3>3 DEF BossesFit
  <2>11. DropsFit(t.drops, all, KnownItems) /\ PricesFit(t.prices, all)
    BY <1>t, <2>7 DEF DropsFit, PricesFit
  <2>12. EndsBosses(t, Wrote(new), {"none"})
    BY <1>t, <2>1, <2>10, <2>11, BossesWritten DEF StackMoves
  <2> HIDE DEF all
  <2> QED
    BY <1>2, <2>12 DEF EndsBosses
<1>3. EndsBosses(t, Failed(t, "BossExists"), {"BossExists"})
  BY DEF EndsBosses, Failed, StackMoves
<1> QED
  BY <1>1, <1>2, <1>3 DEF EndsBosses

-----------------------------------------------------------------------------
(* Bosses, their difficulties and the rules. *)

BossEnds(t, q) ==
  /\ q.op = "createBoss" =>
       EndsBosses(t, bossCreate(t, q.key, [cycle |-> q.cycle, alias |-> q.text, period |-> q.text,
                                           order |-> 0], q.diffs, q.text), {"none", "BossExists"})
  /\ q.op = "seedBoss" =>
       EndsBosses(t, bossCreate(t, q.key, SeedBoss(q.key), Difficulties, 1), {"none", "BossExists"})
  /\ q.op = "setBossPeriod" => EndsBosses(t, periodSet(t, q), {"none", "unknown"})
  /\ q.op = "setBossAlias" => EndsBosses(t, aliasSet(t, q), {"none", "unknown"})
  /\ q.op = "setDifficultyPeriod" =>
       EndsBosses(t, difficultyPeriodSet(t, t, q), {"none", "unknown"})
  /\ q.op = "setMaxPartySize" => EndsBosses(t, maxPartySizeSet(t, t, q), {"none", "unknown"})
  /\ q.op = "upsertDifficulty" => EndsBosses(t, difficultyUpsert(t, t, q), {"none", "unknown"})
  /\ EndsBosses(t, difficultyDelete(t, t, q), {"none", "unknown", "LastDifficulty"})
  /\ q.op = "setRules" =>
       EndsBosses(t, Wrote([t EXCEPT !.rules[Head(q.left)] = q.text]), {"none"})

LEMMA BossOutcomes ==
  ASSUME NEW t, GoodBosses(t, KnownItems), NEW q \in BossesAsked
  PROVE  BossEnds(t, q)
<1>0. /\ FewKeys \in SUBSET Keys /\ {1, 2} \subseteq Texts /\ SeedKeys \subseteq FewKeys
      /\ SeedKeys \subseteq Nat \ {0} /\ Difficulties = {1, 2}
  BY CatalogueAssumption DEF SeedKeys, Difficulties
<1>t. /\ DOMAIN t = {"rules", "rows", "diffs", "drops", "prices", "manual"}
      /\ t.rules \in [{"limit", "party"} -> RuleValue]
      /\ BossesFit(t.rows, t.diffs) /\ DropsFit(t.drops, t.diffs, KnownItems)
      /\ PricesFit(t.prices, t.diffs) /\ ManualFits(t.manual)
      /\ Ordered(t.rows, FewKeys, BossRow)
      /\ IsTable(t.diffs, FewKeys \X Difficulties, DifficultyRow)
      /\ \A p \in DOMAIN t.diffs : p[1] \in DOMAIN t.rows
  BY DEF GoodBosses, BossesFit
<1>k. \A e : EndsBosses(t, Kept(t), {"none"}) /\ EndsBosses(t, Failed(t, e), {e})
             /\ EndsBosses(t, Unknown(t), {"unknown"})
  BY DEF EndsBosses, Kept, Failed, Unknown, StackMoves
<1>1. ASSUME q.op = "createBoss"
      PROVE  EndsBosses(t, bossCreate(t, q.key, [cycle |-> q.cycle, alias |-> q.text,
                                                 period |-> q.text, order |-> 0],
                                      q.diffs, q.text), {"none", "BossExists"})
  <2> DEFINE row == [cycle |-> q.cycle, alias |-> q.text, period |-> q.text, order |-> 0]
  <2>1. /\ q.key \in FewKeys /\ q.cycle = "weekly" /\ q.text \in Texts
        /\ q.diffs \in SUBSET Difficulties /\ q.diffs # {}
    BY <1>0, <1>1, BossesAsking
  <2>2. \A n \in Nat : [row EXCEPT !.order = n] \in BossRow /\ [row EXCEPT !.order = n].order = n
    BY <2>1 DEF BossRow
  <2> HIDE DEF row
  <2>3. EndsBosses(t, bossCreate(t, q.key, row, q.diffs, q.text), {"none", "BossExists"})
    BY <2>1, <2>2, BossCreated
  <2> QED
    BY <2>3 DEF row
<1>2. ASSUME q.op = "seedBoss"
      PROVE  EndsBosses(t, bossCreate(t, q.key, SeedBoss(q.key), Difficulties, 1),
                        {"none", "BossExists"})
  <2> DEFINE row == SeedBoss(q.key)
  <2>1. q.key \in FewKeys /\ q.key \in Nat \ {0}
    BY <1>0, <1>2, BossesAsking
  <2>2. \A n \in Nat : [row EXCEPT !.order = n] \in BossRow /\ [row EXCEPT !.order = n].order = n
    BY <1>0 DEF BossRow, SeedBoss
  <2> HIDE DEF row
  <2>3. EndsBosses(t, bossCreate(t, q.key, row, Difficulties, 1), {"none", "BossExists"})
    BY <1>0, <2>1, <2>2, BossCreated
  <2> QED
    BY <2>3 DEF row
<1>3. ASSUME NEW row, NEW out, q.key \in DOMAIN t.rows => /\ row \in BossRow
                                                       /\ row.order = t.rows[q.key].order,
             out = IF q.key \in DOMAIN t.rows THEN Wrote([t.rows EXCEPT ![q.key] = row])
                   ELSE Unknown(t.rows)
      PROVE  EndsBosses(t, In(t, "rows", out), {"none", "unknown"})
  <2>1. Ends(out, FewKeys, BossRow, {"none", "unknown"})
    BY <1>t, <1>3, UpdatedOrdered
  <2>2. DOMAIN out.now = DOMAIN t.rows
    BY <1>3 DEF Wrote, Unknown, Failed
  <2> QED
    BY <2>1, <2>2, BossesPart
<1>4. ASSUME q.op = "setBossPeriod" PROVE EndsBosses(t, periodSet(t, q), {"none", "unknown"})
  <2> DEFINE row == [t.rows[q.key] EXCEPT !.period = q.text]
             out == IF q.key \in DOMAIN t.rows THEN Wrote([t.rows EXCEPT ![q.key] = row])
                    ELSE Unknown(t.rows)
  <2>1. periodSet(t, q) = In(t, "rows", out)
    BY DEF periodSet, bossUpdate, Updated
  <2>2. q.text \in Texts
    BY <1>4, BossesAsking
  <2>3. q.key \in DOMAIN t.rows => row \in BossRow /\ row.order = t.rows[q.key].order
    BY <1>t, <2>2 DEF Ordered, IsTable, BossRow
  <2> HIDE DEF row
  <2> QED
    BY <1>3, <2>1, <2>3
<1>5. ASSUME q.op = "setBossAlias" PROVE EndsBosses(t, aliasSet(t, q), {"none", "unknown"})
  <2> DEFINE row == [t.rows[q.key] EXCEPT !.alias = q.text]
             out == IF q.key \in DOMAIN t.rows THEN Wrote([t.rows EXCEPT ![q.key] = row])
                    ELSE Unknown(t.rows)
  <2>1. aliasSet(t, q) = In(t, "rows", out)
    BY DEF aliasSet, bossUpdate, Updated
  <2>2. q.text \in Texts
    BY <1>5, BossesAsking
  <2>3. q.key \in DOMAIN t.rows => row \in BossRow /\ row.order = t.rows[q.key].order
    BY <1>t, <2>2 DEF Ordered, IsTable, BossRow
  <2> HIDE DEF row
  <2> QED
    BY <1>3, <2>1, <2>3
<1>6. ASSUME Pair(q) \in DOMAIN t.diffs, NEW row \in DifficultyRow, NEW new,
             new = [t EXCEPT !.diffs[Pair(q)] = row]
      PROVE  EndsBosses(t, Wrote(new), {"none"})
  <2>1. /\ DOMAIN new = DOMAIN t /\ new.rules = t.rules /\ new.rows = t.rows /\ new.drops = t.drops
        /\ new.prices = t.prices /\ new.manual = t.manual
        /\ new.diffs = [t.diffs EXCEPT ![Pair(q)] = row]
    BY <1>t, <1>6
  <2>2. /\ DOMAIN new.diffs = DOMAIN t.diffs
        /\ IsTable(new.diffs, FewKeys \X Difficulties, DifficultyRow)
    BY <1>t, <1>6, <2>1 DEF IsTable
  <2> QED
    BY <1>t, <2>1, <2>2, DiffsWritten
<1>7. ASSUME q.op = "setDifficultyPeriod"
      PROVE  EndsBosses(t, difficultyPeriodSet(t, t, q), {"none", "unknown"})
  <2> DEFINE row == [t.diffs[Pair(q)] EXCEPT !.period = q.text]
             new == [t EXCEPT !.diffs[Pair(q)] = row]
  <2>1. \/ difficultyPeriodSet(t, t, q) = Unknown(t)
        \/ Pair(q) \in DOMAIN t.diffs /\ difficultyPeriodSet(t, t, q) = Wrote(new)
    BY DEF difficultyPeriodSet, difficultyUpdate
  <2>2. q.text \in Texts
    BY <1>7, BossesAsking
  <2>3. Pair(q) \in DOMAIN t.diffs => row \in DifficultyRow
    BY <1>t, <2>2 DEF IsTable, DifficultyRow
  <2> HIDE DEF row
  <2>4. Pair(q) \in DOMAIN t.diffs => EndsBosses(t, Wrote(new), {"none"})
    BY <1>6, <2>3
  <2> QED
    BY <1>k, <2>1, <2>4 DEF EndsBosses
<1>8. ASSUME q.op = "setMaxPartySize"
      PROVE  EndsBosses(t, maxPartySizeSet(t, t, q), {"none", "unknown"})
  <2> DEFINE row == [t.diffs[Pair(q)] EXCEPT !.party = q.party]
             new == [t EXCEPT !.diffs[Pair(q)] = row]
  <2>1. \/ maxPartySizeSet(t, t, q) = Unknown(t)
        \/ Pair(q) \in DOMAIN t.diffs /\ maxPartySizeSet(t, t, q) = Wrote(new)
    BY DEF maxPartySizeSet, difficultyUpdate
  <2>2. q.party \in {None, 2}
    BY <1>8, BossesAsking
  <2>3. Pair(q) \in DOMAIN t.diffs => row \in DifficultyRow
    BY <1>t, <2>2 DEF IsTable, DifficultyRow
  <2> HIDE DEF row
  <2>4. Pair(q) \in DOMAIN t.diffs => EndsBosses(t, Wrote(new), {"none"})
    BY <1>6, <2>3
  <2> QED
    BY <1>k, <2>1, <2>4 DEF EndsBosses
<1>9. ASSUME q.op = "upsertDifficulty"
      PROVE  EndsBosses(t, difficultyUpsert(t, t, q), {"none", "unknown"})
  <2> DEFINE row == [t.diffs[Pair(q)] EXCEPT !.level = q.text]
             new == [t EXCEPT !.diffs[Pair(q)].level = q.text]
             more == Join(t.diffs, One(Pair(q), NewDifficulty(q.text)))
             wide == [t EXCEPT !.diffs = more]
  <2>1. \/ difficultyUpsert(t, t, q) = Unknown(t)
        \/ Pair(q) \in DOMAIN t.diffs /\ difficultyUpsert(t, t, q) = Wrote(new)
        \/ q.key \in DOMAIN t.rows /\ difficultyUpsert(t, t, q) = Wrote(wide)
    BY DEF difficultyUpsert
  <2>2. q.text \in Texts /\ q.d \in Difficulties
    BY <1>9, BossesAsking
  <2>3. Pair(q) \in DOMAIN t.diffs => row \in DifficultyRow
    BY <1>t, <2>2 DEF IsTable, DifficultyRow
  <2>4. new = [t EXCEPT !.diffs[Pair(q)] = row]
    OBVIOUS
  <2> HIDE DEF row, new
  <2>5. Pair(q) \in DOMAIN t.diffs => EndsBosses(t, Wrote(new), {"none"})
    BY <1>6, <2>3, <2>4
  <2>6. q.key \in DOMAIN t.rows => EndsBosses(t, Wrote(wide), {"none"})
    <3>1. /\ DOMAIN wide = DOMAIN t /\ wide.rules = t.rules /\ wide.rows = t.rows
          /\ wide.drops = t.drops /\ wide.prices = t.prices /\ wide.manual = t.manual
          /\ wide.diffs = more
      BY <1>t
    <3> HIDE DEF wide
    <3>2. /\ DOMAIN more = DOMAIN t.diffs \cup {Pair(q)} /\ more[Pair(q)] = NewDifficulty(q.text)
          /\ \A p \in DOMAIN t.diffs \ {Pair(q)} : more[p] = t.diffs[p]
      BY DEF Join, One
    <3>3. NewDifficulty(q.text) \in DifficultyRow
      BY <2>2 DEF NewDifficulty, DifficultyRow
    <3>4. Pair(q)[1] = q.key /\ (q.key \in DOMAIN t.rows => Pair(q) \in FewKeys \X Difficulties)
      BY <1>t, <2>2 DEF Pair, Ordered, IsTable
    <3> HIDE DEF more
    <3>5. q.key \in DOMAIN t.rows => /\ IsTable(more, FewKeys \X Difficulties, DifficultyRow)
                                     /\ \A p \in DOMAIN more : p[1] \in DOMAIN t.rows
      BY <1>t, <3>2, <3>3, <3>4 DEF IsTable
    <3> QED
      BY <3>1, <3>2, <3>5, DiffsWritten
  <2> HIDE DEF wide
  <2> QED
    BY <1>k, <2>1, <2>5, <2>6 DEF EndsBosses
<1>10. EndsBosses(t, difficultyDelete(t, t, q), {"none", "unknown", "LastDifficulty"})
  <2> DEFINE less == Without(t.diffs, {Pair(q)})
             drops == Without(t.drops, DropsOf(t, Pair(q)))
             prices == Without(t.prices, {Pair(q)})
             new == [DropsAndPricesKept(t, Pair(q)) EXCEPT !.diffs = Without(@, {Pair(q)})]
  <2>1. \/ difficultyDelete(t, t, q) = Unknown(t)
        \/ difficultyDelete(t, t, q) = Failed(t, "LastDifficulty")
        \/ /\ Pair(q) \in DOMAIN t.diffs /\ Cardinality(DiffsOf(t, q.key)) # 1
           /\ difficultyDelete(t, t, q) = Wrote(new)
    BY DEF difficultyDelete
  <2>2. CASE /\ Pair(q) \in DOMAIN t.diffs /\ Cardinality(DiffsOf(t, q.key)) # 1
             /\ difficultyDelete(t, t, q) = Wrote(new)
    <3>1. /\ DOMAIN new = DOMAIN t /\ new.rules = t.rules /\ new.rows = t.rows
          /\ new.diffs = less /\ new.drops = drops /\ new.prices = prices
          /\ new.manual = t.manual
      BY <1>t DEF DropsAndPricesKept
    <3> HIDE DEF new
    <3>2. PICK other \in DiffsOf(t, q.key) : other # Pair(q)
      <4>1. DiffsOf(t, q.key) # {Pair(q)}
        BY <2>2, FS_Singleton
      <4>2. Pair(q) \in DiffsOf(t, q.key)
        BY <2>2 DEF DiffsOf, Pair
      <4> QED
        BY <4>1, <4>2
    <3>3. /\ DOMAIN less = DOMAIN t.diffs \ {Pair(q)}
          /\ \A p \in DOMAIN less : less[p] = t.diffs[p]
      BY DEF Without
    <3>4. BossesFit(t.rows, less)
      <4>1. Pair(q)[1] = q.key
        BY DEF Pair
      <4>2. \A k \in DOMAIN t.rows : \E p \in DOMAIN t.diffs : p[1] = k
        BY <1>t DEF BossesFit
      <4>3. other \in DOMAIN less /\ other[1] = q.key
        BY <3>2, <3>3 DEF DiffsOf
      <4>4. \A k \in DOMAIN t.rows : \E p \in DOMAIN less : p[1] = k
        BY <3>3, <4>1, <4>2, <4>3
      <4> HIDE DEF less
      <4> QED
        BY <1>t, <3>3, <4>4 DEF BossesFit, IsTable
    <3>5. DropsFit(drops, less, KnownItems)
      <4>1. OrderedBy(drops, Keys, BossDropRow, "pair")
        BY <1>t, WithoutOrderedBy DEF DropsFit
      <4>2. \A i \in DOMAIN drops : /\ i \in DOMAIN t.drops /\ drops[i] = t.drops[i]
                                    /\ t.drops[i].pair # Pair(q)
        BY DEF Without, DropsOf
      <4> HIDE DEF drops
      <4> QED
        BY <1>t, <3>3, <4>1, <4>2 DEF DropsFit
    <3>6. PricesFit(prices, less)
      <4>1. \A p \in DOMAIN prices : /\ p \in DOMAIN t.prices /\ prices[p] = t.prices[p]
                                     /\ p # Pair(q)
        BY DEF Without
      <4> HIDE DEF prices
      <4> QED
        BY <1>t, <3>3, <4>1 DEF PricesFit, Chains
    <3>7. StackMoves(t.prices, prices)
      <4>1. CASE Pair(q) \in DOMAIN t.prices
        BY <4>1 DEF StackMoves, Cleared
      <4>2. CASE Pair(q) \notin DOMAIN t.prices
        <5>1. DOMAIN prices = DOMAIN t.prices /\ \A p \in DOMAIN t.prices : prices[p] = t.prices[p]
          BY <4>2 DEF Without
        <5>2. \A p \in DOMAIN t.prices \cup DOMAIN prices : StartsAt(prices, p) = StartsAt(t.prices, p)
          BY <5>1 DEF StartsAt, RowsAt
        <5> HIDE DEF prices
        <5>3. Pushed(t.prices, prices)
          BY <5>2 DEF Pushed
        <5> QED
          BY <5>3 DEF StackMoves
      <4> QED
        BY <4>1, <4>2
    <3> HIDE DEF less, drops, prices
    <3>8. EndsBosses(t, Wrote(new), {"none"})
      BY <1>t, <3>1, <3>4, <3>5, <3>6, <3>7, BossesWritten
    <3> QED
      BY <2>2, <3>8 DEF EndsBosses
  <2> QED
    BY <1>k, <2>1, <2>2 DEF EndsBosses
<1>11. ASSUME q.op = "setRules"
       PROVE  EndsBosses(t, Wrote([t EXCEPT !.rules[Head(q.left)] = q.text]), {"none"})
  <2> DEFINE new == [t EXCEPT !.rules[Head(q.left)] = q.text]
  <2>1. q.text \in RuleValue
    BY <1>11, BossesAsking DEF RuleValue
  <2>2. /\ DOMAIN new = DOMAIN t /\ new.rows = t.rows /\ new.diffs = t.diffs
        /\ new.drops = t.drops /\ new.prices = t.prices /\ new.manual = t.manual
        /\ new.rules = [t.rules EXCEPT ![Head(q.left)] = q.text]
    BY <1>t
  <2> HIDE DEF new
  <2>3. new.rules \in [{"limit", "party"} -> RuleValue]
    BY <1>t, <2>1, <2>2
  <2>4. EndsBosses(t, Wrote(new), {"none"})
    BY <1>t, <2>2, <2>3, BossesWritten DEF StackMoves
  <2> QED
    BY <2>4 DEF new
<1> QED
  BY <1>1, <1>2, <1>4, <1>5, <1>7, <1>8, <1>9, <1>10, <1>11 DEF BossEnds

-----------------------------------------------------------------------------
(* Drops of bosses and prices of crystals. *)

DropEnds(t, q) ==
  /\ q.op = "createBossDrop" => \A id \in Fresh(Keys, t.drops) :
       EndsBosses(t, dropCreate(t, t, q, id),
                  {"none", "NoBossDifficulty", "NoDropItem", "RewardExists"})
  /\ q.op = "updateBossDrop" => EndsBosses(t, dropUpdate(t, q), {"none", "unknown", "RewardExists"})
  /\ EndsBosses(t, dropDelete(t, q), {"none", "unknown"})
  /\ EndsBosses(t, dropMove(t, t, q), {"none", "unknown"})
  /\ EndsBosses(t, dropsSeed(t, t), {"none", "missing"})

LEMMA DropOutcomes ==
  ASSUME NEW t, GoodBosses(t, KnownItems), NEW q \in BossesAsked
  PROVE  DropEnds(t, q)
<1>0. /\ Placed(BossDropRow) /\ Keys \in SUBSET Keys /\ FewKeys \subseteq Keys
      /\ {1, 2} \subseteq Texts /\ 1 \in FewKeys /\ SeedKeys \subseteq FewKeys
      /\ \A row \in BossDropRow : "pair" \in DOMAIN row
  BY RowsPlaced, SeedOrdered, CatalogueAssumption DEF BossDropRow
<1>t. /\ DOMAIN t = {"rules", "rows", "diffs", "drops", "prices", "manual"}
      /\ BossesFit(t.rows, t.diffs) /\ DropsFit(t.drops, t.diffs, KnownItems)
      /\ OrderedBy(t.drops, Keys, BossDropRow, "pair")
      /\ \A i \in DOMAIN t.drops : t.drops[i].pair \in DOMAIN t.diffs /\ t.drops[i].item \in KnownItems
      /\ DOMAIN t.diffs \subseteq FewKeys \X Difficulties
  BY DEF GoodBosses, DropsFit, BossesFit, IsTable
<1>k. \A e : EndsBosses(t, Kept(t), {"none"}) /\ EndsBosses(t, Failed(t, e), {e})
             /\ EndsBosses(t, Unknown(t), {"unknown"})
  BY DEF EndsBosses, Kept, Failed, Unknown, StackMoves
<1>s. \A p : DropsOf(t, p) = Siblings(t.drops, "pair", p)
  BY DEF DropsOf, Siblings
<1>1. ASSUME q.op = "createBossDrop", NEW id \in Fresh(Keys, t.drops)
      PROVE  EndsBosses(t, dropCreate(t, t, q, id),
                        {"none", "NoBossDifficulty", "NoDropItem", "RewardExists"})
  <2> DEFINE row == [pair |-> Pair(q), item |-> q.item, from |-> q.from, text |-> q.text,
                     order |-> NextOrder(t.drops, DropsOf(t, Pair(q)))]
             out == Inserted(t.drops, One(id, row), "unique")
  <2>1. \/ dropCreate(t, t, q, id) \in {Failed(t, "NoBossDifficulty"), Failed(t, "NoDropItem"),
                                        Failed(t, "RewardExists")}
        \/ /\ Pair(q) \in DOMAIN t.diffs /\ q.item \in KnownItems
           /\ dropCreate(t, t, q, id) = In(t, "drops", out)
    BY DEF dropCreate, KnownItems
  <2>2. CASE dropCreate(t, t, q, id) \in {Failed(t, "NoBossDifficulty"), Failed(t, "NoDropItem"),
                                          Failed(t, "RewardExists")}
    BY <1>k, <2>2 DEF EndsBosses
  <2>3. CASE /\ Pair(q) \in DOMAIN t.diffs /\ q.item \in KnownItems
             /\ dropCreate(t, t, q, id) = In(t, "drops", out)
    <3>1. /\ q.item \in Keys /\ q.from = None /\ q.text \in Texts
          /\ id \in Keys /\ id \notin DOMAIN t.drops
      BY <1>0, <1>1, BossesAsking DEF Fresh
    <3>2. Pair(q) \in FewKeys \X Difficulties
      BY <1>t, <2>3
    <3>3. NextOrder(t.drops, DropsOf(t, Pair(q))) \in Nat
      BY <1>0, <1>t, <1>s, SiblingsPlaced
    <3>4. row \in BossDropRow /\ row.order = NextOrder(t.drops, Siblings(t.drops, "pair", row["pair"]))
      BY <1>s, <3>1, <3>2, <3>3 DEF BossDropRow
    <3>5. row.pair = Pair(q) /\ row.item = q.item
      OBVIOUS
    <3> HIDE DEF row
    <3>6. EndsBy(out, Keys, BossDropRow, "pair", {"none"})
      BY <1>0, <1>t, <3>1, <3>4, InsertedOrderedBy, InsertedBeside DEF EndsBy
    <3>7. \A i \in DOMAIN out.now : out.now[i].pair \in DOMAIN t.diffs /\ out.now[i].item \in KnownItems
      BY <1>t, <2>3, <3>5, InsertedBeside
    <3> HIDE DEF out
    <3>8. EndsBosses(t, In(t, "drops", out), {"none"})
      BY <3>6, <3>7, BossesPart
    <3> QED
      BY <2>3, <3>8 DEF EndsBosses
  <2> QED
    BY <2>1, <2>2, <2>3
<1>2. ASSUME q.op = "updateBossDrop"
      PROVE  EndsBosses(t, dropUpdate(t, q), {"none", "unknown", "RewardExists"})
  <2> DEFINE row == [t.drops[q.id] EXCEPT !.from = q.from, !.text = q.text]
             out == IF q.id \in DOMAIN t.drops THEN Wrote([t.drops EXCEPT ![q.id] = row])
                    ELSE Unknown(t.drops)
  <2>1. \/ dropUpdate(t, q) = Failed(t, "RewardExists")
        \/ dropUpdate(t, q) = In(t, "drops", out)
    BY DEF dropUpdate, Updated
  <2>2. q.from = 1 /\ q.text \in Texts
    BY <1>2, BossesAsking
  <2>3. q.id \in DOMAIN t.drops =>
          /\ row \in BossDropRow /\ row.order = t.drops[q.id].order
          /\ row["pair"] = t.drops[q.id]["pair"] /\ row.pair = t.drops[q.id].pair
          /\ row.item = t.drops[q.id].item
    BY <1>t, <2>2 DEF OrderedBy, IsTable, BossDropRow
  <2> HIDE DEF row
  <2>4. EndsBy(out, Keys, BossDropRow, "pair", {"none", "unknown"})
    BY <1>t, <2>3, UpdatedOrderedBy
  <2>5. \A i \in DOMAIN out.now : out.now[i].pair \in DOMAIN t.diffs /\ out.now[i].item \in KnownItems
    BY <1>t, <2>3 DEF Wrote, Unknown, Failed
  <2> HIDE DEF out
  <2>6. EndsBosses(t, In(t, "drops", out), {"none", "unknown"})
    BY <2>4, <2>5, BossesPart
  <2> QED
    BY <1>k, <2>1, <2>6 DEF EndsBosses
<1>3. EndsBosses(t, dropDelete(t, q), {"none", "unknown"})
  <2> DEFINE drops == Without(t.drops, {q.id})
             new == [t EXCEPT !.drops = drops]
  <2>1. dropDelete(t, q) = Unknown(t) \/ dropDelete(t, q) = Wrote(new)
    BY DEF dropDelete
  <2>2. /\ DOMAIN new = DOMAIN t /\ new.rules = t.rules /\ new.rows = t.rows
        /\ new.diffs = t.diffs /\ new.drops = drops /\ new.prices = t.prices
        /\ new.manual = t.manual
    BY <1>t
  <2>3. DropsFit(drops, t.diffs, KnownItems)
    <3>1. OrderedBy(drops, Keys, BossDropRow, "pair")
      BY <1>t, WithoutOrderedBy
    <3>2. \A i \in DOMAIN drops : i \in DOMAIN t.drops /\ drops[i] = t.drops[i]
      BY DEF Without
    <3> HIDE DEF drops
    <3> QED
      BY <1>t, <3>1, <3>2 DEF DropsFit
  <2> HIDE DEF drops, new
  <2>4. EndsBosses(t, Wrote(new), {"none"})
    BY <2>2, <2>3, BossesWritten DEF GoodBosses, StackMoves
  <2> QED
    BY <1>k, <2>1, <2>4 DEF EndsBosses
<1>4. EndsBosses(t, dropMove(t, t, q), {"none", "unknown"})
  <2> DEFINE kin == DropsOf(t, t.drops[q.id].pair)
             out == Moved(t.drops, t.drops, kin, q.id, q.dir)
  <2>1. dropMove(t, t, q) = Unknown(t) \/ dropMove(t, t, q) = In(t, "drops", out)
    BY DEF dropMove
  <2>2. EndsBy(out, Keys, BossDropRow, "pair", {"none", "unknown"})
    BY <1>0, <1>t, <1>s, MovedOrderedBy
  <2>3. kin \in SUBSET DOMAIN t.drops /\ HasOrders(t.drops, kin)
    BY <1>0, <1>t, <1>s, SiblingsPlaced
  <2>4. PlacesOnly(t.drops, out.now)
    BY <2>3, MoveKeepsColumns
  <2> HIDE DEF out, kin
  <2>5. \A i \in DOMAIN out.now : out.now[i].pair \in DOMAIN t.diffs /\ out.now[i].item \in KnownItems
    <3>1. \A i \in DOMAIN t.drops : {"pair", "item"} \subseteq DOMAIN t.drops[i] \ {"order"}
      BY <1>t DEF OrderedBy, IsTable, BossDropRow
    <3>2. \A i \in DOMAIN t.drops : /\ out.now[i]["pair"] = t.drops[i]["pair"]
                                    /\ out.now[i]["item"] = t.drops[i]["item"]
      BY <2>4, <3>1 DEF PlacesOnly
    <3> QED
      BY <1>t, <2>4, <3>2 DEF PlacesOnly
  <2>6. EndsBosses(t, In(t, "drops", out), {"none", "unknown"})
    BY <2>2, <2>5, BossesPart
  <2> QED
    BY <1>k, <2>1, <2>6 DEF EndsBosses
<1>5. EndsBosses(t, dropsSeed(t, t), {"none", "missing"})
  <2> DEFINE seed == [k \in SeedKeys |-> [pair |-> <<k, 1>>, item |-> 1, from |-> None,
                                          text |-> 1, order |-> 0]]
             out == Inserted(t.drops, seed, "unique")
  <2>1. \/ dropsSeed(t, t) \in {Kept(t), Failed(t, "missing")}
        \/ /\ DOMAIN t.drops = {} /\ (SeedKeys \X {1}) \subseteq DOMAIN t.diffs
           /\ 1 \in KnownItems /\ dropsSeed(t, t) = In(t, "drops", out)
    BY DEF dropsSeed, KnownItems
  <2>2. CASE dropsSeed(t, t) \in {Kept(t), Failed(t, "missing")}
    BY <1>k, <2>2 DEF EndsBosses
  <2>3. CASE /\ DOMAIN t.drops = {} /\ (SeedKeys \X {1}) \subseteq DOMAIN t.diffs
             /\ 1 \in KnownItems /\ dropsSeed(t, t) = In(t, "drops", out)
    <3>1. out = Wrote(Join(t.drops, seed))
      BY <2>3 DEF Inserted
    <3>2. IsOut(out) /\ out.now = Join(t.drops, seed) /\ out.error = "none"
      BY <3>1, OutsAreOuts DEF Wrote
    <3>3. DOMAIN out.now = SeedKeys /\ \A k \in SeedKeys : out.now[k] = seed[k]
      BY <2>3, <3>2 DEF Join
    <3>4. \A k \in SeedKeys : /\ seed[k].pair = <<k, 1>> /\ seed[k]["pair"] = <<k, 1>>
                              /\ seed[k].item = 1 /\ seed[k] \in BossDropRow
      BY <1>0 DEF BossDropRow, Difficulties
    <3>5. \A k \in SeedKeys : <<k, 1>> \in DOMAIN t.diffs
      BY <2>3
    <3> HIDE DEF seed, out
    <3>6. EndsBy(out, Keys, BossDropRow, "pair", {"none"})
      BY <1>0, <3>2, <3>3, <3>4 DEF EndsBy, OrderedBy, IsTable
    <3>7. \A i \in DOMAIN out.now : out.now[i].pair \in DOMAIN t.diffs /\ out.now[i].item \in KnownItems
      BY <2>3, <3>3, <3>4, <3>5
    <3>8. EndsBosses(t, In(t, "drops", out), {"none"})
      BY <3>6, <3>7, BossesPart
    <3> QED
      BY <2>3, <3>8 DEF EndsBosses
  <2> QED
    BY <2>1, <2>2, <2>3
<1> QED
  BY <1>1, <1>2, <1>3, <1>4, <1>5 DEF DropEnds

PriceEnds(t, q) ==
  /\ q.op = "addCrystalPrice" =>
       EndsBosses(t, priceAdd(t, t, q), {"none", "NoBossDifficulty", "NotAfterCurrent", "NotBoundary"})
  /\ EndsBosses(t, priceRemove(t, q), {"none", "unknown", "NotLatest"})
  /\ EndsBosses(t, partySeed(t), {"none"})
  /\ EndsBosses(t, pricesSeed(t), {"none", "missing"})

LEMMA PriceOutcomes ==
  ASSUME NEW t, GoodBosses(t, KnownItems), NEW q \in BossesAsked
  PROVE  PriceEnds(t, q)
<1>t. /\ DOMAIN t = {"rules", "rows", "diffs", "drops", "prices", "manual"}
      /\ t.rules \in [{"limit", "party"} -> RuleValue]
      /\ BossesFit(t.rows, t.diffs) /\ DropsFit(t.drops, t.diffs, KnownItems)
      /\ Chains(t.prices) /\ DOMAIN t.prices \subseteq DOMAIN t.diffs /\ ManualFits(t.manual)
  BY DEF GoodBosses, PricesFit
<1>k. \A e : EndsBosses(t, Kept(t), {"none"}) /\ EndsBosses(t, Failed(t, e), {e})
             /\ EndsBosses(t, Unknown(t), {"unknown"})
  BY DEF EndsBosses, Kept, Failed, Unknown, StackMoves
<1>p. \A p : PricesOf(t, p) = RowsAt(t.prices, p)
  BY DEF PricesOf, RowsAt
<1>w. ASSUME NEW prices, NEW new, new = [t EXCEPT !.prices = prices], Chains(prices),
             DOMAIN prices \subseteq DOMAIN t.diffs, StackMoves(t.prices, prices)
      PROVE  EndsBosses(t, Wrote(new), {"none"})
  <2>1. /\ DOMAIN new = DOMAIN t /\ new.rules = t.rules /\ new.rows = t.rows
        /\ new.diffs = t.diffs /\ new.drops = t.drops /\ new.prices = prices
        /\ new.manual = t.manual
    BY <1>t, <1>w
  <2> QED
    BY <1>t, <1>w, <2>1, BossesWritten DEF PricesFit
<1>1. ASSUME q.op = "addCrystalPrice"
      PROVE  EndsBosses(t, priceAdd(t, t, q),
                        {"none", "NoBossDifficulty", "NotAfterCurrent", "NotBoundary"})
  <2> DEFINE p == Pair(q)
             rows == RowsAt(t.prices, p)
             open == Standing(rows)
             prices == Join(t.prices, One(p, Opened(rows, open, q.from)))
             new == [t EXCEPT !.prices = prices]
  <2>1. \/ priceAdd(t, t, q) \in {Failed(t, "NoBossDifficulty"), Failed(t, "NotAfterCurrent"),
                                  Failed(t, "NotBoundary")}
        \/ /\ p \in DOMAIN t.diffs /\ ~ \E x \in open : ~ StartsAfter(q.from, x)
           /\ \/ SameStart(rows, q.from)
              \/ priceAdd(t, t, q) = Wrote(new)
    BY <1>p DEF priceAdd
  <2>2. CASE priceAdd(t, t, q) \in {Failed(t, "NoBossDifficulty"), Failed(t, "NotAfterCurrent"),
                                    Failed(t, "NotBoundary")}
    BY <1>k, <2>2 DEF EndsBosses
  <2>3. CASE /\ p \in DOMAIN t.diffs /\ ~ \E x \in open : ~ StartsAfter(q.from, x)
             /\ \/ SameStart(rows, q.from)
                \/ priceAdd(t, t, q) = Wrote(new)
    <3>1. q.from \in Days \cup {None}
      BY <1>1, BossesAsking
    <3>2. /\ DOMAIN prices = DOMAIN t.prices \cup {p}
          /\ \A x \in DOMAIN t.prices \ {p} : prices[x] = t.prices[x]
          /\ prices[p] = Opened(rows, open, q.from)
      BY DEF Join, One
    <3> HIDE DEF p, prices
    <3>3. /\ Chains(prices) /\ Pushed(t.prices, prices) /\ ~ SameStart(rows, q.from)
      <4> DEFINE P == {p}
      <4>1. /\ \A x \in P : \A o \in Standing(RowsAt(t.prices, x)) : StartsAfter(q.from, o)
            /\ \A x \in P :
                 prices[x] = Opened(RowsAt(t.prices, x), Standing(RowsAt(t.prices, x)), q.from)
            /\ DOMAIN prices = DOMAIN t.prices \cup P
            /\ \A x \in DOMAIN t.prices \ P : prices[x] = t.prices[x]
        BY <2>3, <3>2
      <4>2. p \in P
        OBVIOUS
      <4> HIDE DEF P
      <4>3. /\ Chains(prices) /\ Pushed(t.prices, prices)
            /\ \A x \in P : ~ SameStart(RowsAt(t.prices, x), q.from)
        BY <1>t, <3>1, <4>1, OpenedPushes
      <4> QED
        BY <4>2, <4>3
    <3>4. EndsBosses(t, Wrote(new), {"none"})
      BY <1>t, <1>w, <2>3, <3>2, <3>3 DEF StackMoves
    <3> QED
      BY <2>3, <3>3, <3>4 DEF EndsBosses
  <2> HIDE DEF p, new, open
  <2> QED
    BY <2>1, <2>2, <2>3
<1>2. EndsBosses(t, priceRemove(t, q), {"none", "unknown", "NotLatest"})
  <2> DEFINE p == Pair(q)
             rows == PricesOf(t, p)
             named == {x \in rows : x.from = q.from}
             row == CHOOSE x \in named : TRUE
             prices == Join(t.prices, One(p, TakenBack(rows, row)))
             new == [t EXCEPT !.prices = prices]
  <2>1. \/ priceRemove(t, q) \in {Unknown(t), Failed(t, "NotLatest")}
        \/ /\ named # {} /\ ~ (row.until # None)
           /\ priceRemove(t, q) = Wrote(new)
    BY DEF priceRemove
  <2>2. CASE priceRemove(t, q) \in {Unknown(t), Failed(t, "NotLatest")}
    BY <1>k, <2>2 DEF EndsBosses
  <2>3. CASE /\ named # {} /\ ~ (row.until # None)
             /\ priceRemove(t, q) = Wrote(new)
    <3>1. row \in rows
      BY <2>3
    <3>2. p \in DOMAIN t.prices /\ rows = t.prices[p]
      BY <3>1 DEF PricesOf
    <3> HIDE DEF row, p
    <3>3. /\ Chains(prices) /\ Popped(t.prices, prices) /\ DOMAIN prices = DOMAIN t.prices
      BY <1>t, <2>3, <3>1, <3>2, TakenBackPops
    <3>4. EndsBosses(t, Wrote(new), {"none"})
      BY <1>t, <1>w, <3>3 DEF StackMoves
    <3> QED
      BY <2>3, <3>4 DEF EndsBosses
  <2> HIDE DEF named, row, new
  <2> QED
    BY <2>1, <2>2, <2>3
<1>3. EndsBosses(t, partySeed(t), {"none"})
  <2> DEFINE filled(p) == IF p \in SeedKeys \X {1} /\ t.diffs[p].party = None
                          THEN [t.diffs[p] EXCEPT !.party = 1] ELSE t.diffs[p]
             diffs == [p \in DOMAIN t.diffs |-> filled(p)]
             party == IF t.rules["party"] = None THEN 1 ELSE t.rules["party"]
             rules == [t.rules EXCEPT !["party"] = party]
             new == partySeed(t).now
  <2>1. /\ DOMAIN new = DOMAIN t /\ new.rows = t.rows /\ new.drops = t.drops
        /\ new.prices = t.prices /\ new.manual = t.manual
    BY <1>t DEF partySeed
  <2>2. new.diffs = diffs
    BY <1>t DEF partySeed
  <2>3. new.rules = rules
    BY <1>t DEF partySeed
  <2>4. partySeed(t).error = "none"
    BY DEF partySeed
  <2> HIDE DEF new
  <2>5. BossesFit(t.rows, diffs)
    <3>1. \A p \in DOMAIN t.diffs : filled(p) \in DifficultyRow
      BY <1>t DEF BossesFit, IsTable, DifficultyRow
    <3> HIDE DEF filled
    <3> QED
      BY <1>t, <3>1 DEF BossesFit, IsTable
  <2>6. rules \in [{"limit", "party"} -> RuleValue]
    <3>1. 1 \in RuleValue /\ t.rules["party"] \in RuleValue
      BY <1>t, CatalogueAssumption DEF RuleValue
    <3>2. party \in RuleValue
      BY <3>1
    <3> HIDE DEF party
    <3> QED
      BY <1>t, <3>2
  <2>7. DOMAIN diffs = DOMAIN t.diffs
    OBVIOUS
  <2> HIDE DEF diffs, rules
  <2>8. GoodBosses(new, KnownItems)
    BY <1>t, <2>1, <2>2, <2>3, <2>5, <2>6, <2>7 DEF GoodBosses, DropsFit, PricesFit
  <2> QED
    BY <2>1, <2>4, <2>8 DEF EndsBosses, StackMoves, new
<1>4. EndsBosses(t, pricesSeed(t), {"none", "missing"})
  <2> DEFINE seed == [p \in SeedKeys \X {1} |-> {Row(None, 1), Row(1, None)}]
             prices == Join(t.prices, seed)
             new == [t EXCEPT !.prices = prices]
  <2>1. \/ pricesSeed(t) \in {Kept(t), Failed(t, "missing")}
        \/ /\ \A p \in DOMAIN t.prices : t.prices[p] = {}
           /\ (SeedKeys \X {1}) \subseteq DOMAIN t.diffs
           /\ pricesSeed(t) = Wrote(new)
    BY DEF pricesSeed
  <2>2. CASE pricesSeed(t) \in {Kept(t), Failed(t, "missing")}
    BY <1>k, <2>2 DEF EndsBosses
  <2>3. CASE /\ \A p \in DOMAIN t.prices : t.prices[p] = {}
             /\ (SeedKeys \X {1}) \subseteq DOMAIN t.diffs
             /\ pricesSeed(t) = Wrote(new)
    <3>1. Chain({Row(None, 1), Row(1, None)})
      <4> DEFINE past == Row(None, 1)
                 now == Row(1, None)
      <4>1. /\ past \in DatedRow /\ now \in DatedRow /\ past.from = None /\ past.until = 1
            /\ now.from = 1 /\ now.until = None /\ StartOf(past) = 0 /\ StartOf(now) = 1
        BY CatalogueAssumption, DaysAreNumbers DEF Row, DatedRow, StartOf
      <4>2. None # 1
        BY CatalogueAssumption
      <4> HIDE DEF past, now
      <4>3. Chain({past, now})
        BY <4>1, <4>2 DEF Chain, Standing
      <4> QED
        BY <4>3 DEF past, now
    <3>2. DOMAIN prices = DOMAIN t.prices \cup (SeedKeys \X {1})
      BY DEF Join
    <3>3. \A p \in DOMAIN prices : Chain(prices[p])
      BY <1>t, <3>1 DEF Join, Chains
    <3> HIDE DEF prices
    <3>4. EndsBosses(t, Wrote(new), {"none"})
      BY <1>t, <1>w, <2>3, <3>2, <3>3 DEF StackMoves, Chains
    <3> QED
      BY <2>3, <3>4 DEF EndsBosses
  <2> HIDE DEF new
  <2> QED
    BY <2>1, <2>2, <2>3
<1> QED
  BY <1>1, <1>2, <1>3, <1>4 DEF PriceEnds

-----------------------------------------------------------------------------
(* Bosses: what the handlers do. *)

LEMMA LaterOps ==
  \A q \in LaterRequests : q.op \in {"setRules", "seedBoss", "seedPrices"}
<1> SUFFICES ASSUME NEW q \in LaterRequests PROVE q.op \in {"setRules", "seedBoss", "seedPrices"}
  OBVIOUS
<1>1. CASE q \in [op : {"setRules"}, text : Texts, left : {RuleFields, <<"party">>},
                  seeding : BOOLEAN]
  BY <1>1
<1>2. CASE q \in [op : {"seedBoss"}, key : SeedKeys]
  BY <1>2
<1>3. CASE q = [op |-> "seedPrices"]
  BY <1>3
<1> QED
  BY <1>1, <1>2, <1>3 DEF LaterRequests

LEMMA BossesOutcomes ==
  ASSUME NEW t, GoodBosses(t, KnownItems), NEW q \in BossesAsked
  PROVE  BossEnds(t, q) /\ DropEnds(t, q) /\ PriceEnds(t, q)
BY BossOutcomes, DropOutcomes, PriceOutcomes

LEMMA BossesStep ==
  ASSUME GoodBosses(bosses, KnownItems), NEW r, Q(r) \in BossesAsked, Seen(r) = bosses,
         \/ SetBossPeriod(r) \/ SetBossAlias(r) \/ SetDifficultyPeriod(r)
         \/ SetMaxPartySize(r) \/ UpsertDifficulty(r) \/ DeleteDifficulty(r)
         \/ UpdateBossDrop(r) \/ DeleteBossDrop(r) \/ MoveBossDrop(r) \/ SeedBossDrops(r)
         \/ AddCrystalPrice(r) \/ RemoveCrystalPrice(r)
  PROVE  /\ GoodBosses(bosses', KnownItems) /\ answer'.status \in Told
         /\ StackMoves(bosses.prices, bosses'.prices)
<1>0. BossEnds(bosses, Q(r)) /\ DropEnds(bosses, Q(r)) /\ PriceEnds(bosses, Q(r))
  BY BossesOutcomes
<1>1. CASE SetBossPeriod(r)
  BY <1>0, <1>1, CloseTells, CodesTold
     DEF SetBossPeriod, OnBosses, Asked, Q, BossEnds, DropEnds, PriceEnds, EndsBosses, Caught,
         StackMoves
<1>2. CASE SetBossAlias(r)
  BY <1>0, <1>2, CloseTells, CodesTold
     DEF SetBossAlias, OnBosses, Asked, Q, BossEnds, DropEnds, PriceEnds, EndsBosses, Caught,
         StackMoves
<1>3. CASE SetDifficultyPeriod(r)
  BY <1>0, <1>3, CloseTells, CodesTold
     DEF SetDifficultyPeriod, OnBosses, Asked, Q, BossEnds, DropEnds, PriceEnds, EndsBosses,
         Caught, StackMoves
<1>4. CASE SetMaxPartySize(r)
  BY <1>0, <1>4, CloseTells, CodesTold
     DEF SetMaxPartySize, OnBosses, Asked, Q, BossEnds, DropEnds, PriceEnds, EndsBosses, Caught,
         StackMoves
<1>5. CASE UpsertDifficulty(r)
  BY <1>0, <1>5, CloseTells, CodesTold
     DEF UpsertDifficulty, OnBosses, Asked, Q, BossEnds, DropEnds, PriceEnds, EndsBosses, Caught,
         StackMoves
<1>6. CASE DeleteDifficulty(r)
  BY <1>0, <1>6, CloseTells
     DEF DeleteDifficulty, OnBosses, Asked, Q, BossEnds, DropEnds, PriceEnds, EndsBosses, Caught,
         StackMoves, Told
<1>7. CASE UpdateBossDrop(r)
  BY <1>0, <1>7, CloseTells
     DEF UpdateBossDrop, OnBosses, Asked, Q, BossEnds, DropEnds, PriceEnds, EndsBosses, Caught,
         StackMoves, Told
<1>8. CASE DeleteBossDrop(r)
  BY <1>0, <1>8, CloseTells, CodesTold
     DEF DeleteBossDrop, OnBosses, Asked, Q, BossEnds, DropEnds, PriceEnds, EndsBosses, Caught,
         StackMoves
<1>9. CASE MoveBossDrop(r)
  BY <1>0, <1>9, CloseTells, CodesTold
     DEF MoveBossDrop, OnBosses, Asked, Q, BossEnds, DropEnds, PriceEnds, EndsBosses, Caught,
         StackMoves
<1>10. CASE SeedBossDrops(r)
  BY <1>0, <1>10, CloseTells, CodesTold
     DEF SeedBossDrops, OnBosses, Asked, Q, BossEnds, DropEnds, PriceEnds, EndsBosses, Caught,
         StackMoves
<1>11. CASE AddCrystalPrice(r)
  BY <1>0, <1>11, CloseTells
     DEF AddCrystalPrice, OnBosses, Asked, Q, BossEnds, DropEnds, PriceEnds, EndsBosses, Caught,
         StackMoves, Told
<1>12. CASE RemoveCrystalPrice(r)
  BY <1>0, <1>12, CloseTells
     DEF RemoveCrystalPrice, OnBosses, Asked, Q, BossEnds, DropEnds, PriceEnds, EndsBosses,
         Caught, StackMoves, Told
<1> QED
  BY <1>1, <1>2, <1>3, <1>4, <1>5, <1>6, <1>7, <1>8, <1>9, <1>10, <1>11, <1>12


\* A transaction after which the call goes on, and a last one.
LEMMA GoesOnGood ==
  ASSUME NEW r, NEW op, NEW q \in LaterRequests, NEW out, NEW section, NEW errors,
         GoesOn(r, op, q, out, section), EndsBosses(bosses, out, errors)
  PROVE  /\ GoodBosses(bosses', KnownItems) /\ answer'.status \in Told
         /\ StackMoves(bosses.prices, bosses'.prices) /\ UNCHANGED <<assets, items>>
         /\ \E later \in LaterRequests : call' = [call EXCEPT ![r].q = later]
BY DEF GoesOn, EndsBosses, Told

LEMMA OnBossesGood ==
  ASSUME NEW r, NEW op, NEW out, NEW section, NEW errors, NEW codes,
         OnBosses(r, op, section, out, codes), EndsBosses(bosses, out, errors),
         \A e \in errors : Caught(e, codes)
  PROVE  /\ GoodBosses(bosses', KnownItems) /\ answer'.status \in Told
         /\ StackMoves(bosses.prices, bosses'.prices) /\ UNCHANGED <<assets, items>>
         /\ call' = [call EXCEPT ![r] = NoCall]
BY CloseTells DEF OnBosses, Close, EndsBosses

LEMMA CreateBossStep ==
  ASSUME GoodBosses(bosses, KnownItems), NEW r, Q(r) \in BossesAsked, CreateBoss(r)
  PROVE  /\ GoodBosses(bosses', KnownItems) /\ answer'.status \in Told
         /\ StackMoves(bosses.prices, bosses'.prices)
<1> DEFINE row == [cycle |-> Q(r).cycle, alias |-> Q(r).text, period |-> Q(r).text, order |-> 0]
           made == bossCreate(bosses, Q(r).key, row, Q(r).diffs, Q(r).text)
           out == Pictured(r, Q(r).text, bosses, made)
           errors == {"none", "BossExists", "picture"}
<1>1. OnBosses(r, "createBoss", "bosses", out, [BossExists |-> 409])
  BY DEF CreateBoss
<1>2. Q(r).op = "createBoss"
  BY <1>1 DEF OnBosses, Asked, Q
<1>3. EndsBosses(bosses, made, {"none", "BossExists"})
  BY <1>2, BossesOutcomes DEF BossEnds
<1> HIDE DEF made
<1>4. EndsBosses(bosses, out, errors)
  BY <1>3 DEF Pictured, Failed, EndsBosses, StackMoves
<1>5. \A e \in errors : Caught(e, [BossExists |-> 409])
  BY DEF Caught, Told
<1> HIDE DEF out, errors
<1> QED
  BY <1>1, <1>4, <1>5, OnBossesGood

LEMMA CreateBossDropStep ==
  ASSUME GoodBosses(bosses, KnownItems), NEW r, Q(r) \in BossesAsked, Seen(r) = bosses,
         CreateBossDrop(r)
  PROVE  /\ GoodBosses(bosses', KnownItems) /\ answer'.status \in Told
         /\ StackMoves(bosses.prices, bosses'.prices)
<1> DEFINE codes == [NoBossDifficulty |-> 404, NoDropItem |-> 404, RewardExists |-> 409]
           errors == {"none", "NoBossDifficulty", "NoDropItem", "RewardExists"}
<1>1. PICK id \in Fresh(Keys, bosses.drops) :
        OnBosses(r, "createBossDrop", "bossDrops", dropCreate(Seen(r), bosses, Q(r), id), codes)
  BY DEF CreateBossDrop
<1>2. Q(r).op = "createBossDrop"
  BY <1>1 DEF OnBosses, Asked, Q
<1>3. EndsBosses(bosses, dropCreate(Seen(r), bosses, Q(r), id), errors)
  BY <1>2, BossesOutcomes DEF DropEnds
<1>4. \A e \in errors : Caught(e, codes)
  BY DEF Caught, Told
<1> HIDE DEF codes, errors
<1> QED
  BY <1>1, <1>3, <1>4, OnBossesGood

LEMMA BossesGoOn ==
  ASSUME GoodBosses(bosses, KnownItems), NEW r, Q(r) \in BossesAsked,
         SetRule(r) \/ SeedBosses(r) \/ SeedNextBoss(r) \/ SeedPartySizes(r) \/ SeedPrices(r)
  PROVE  /\ GoodBosses(bosses', KnownItems) /\ answer'.status \in Told
         /\ StackMoves(bosses.prices, bosses'.prices) /\ UNCHANGED <<assets, items>>
         /\ \/ call' = [call EXCEPT ![r] = NoCall]
            \/ \E later \in LaterRequests : call' = [call EXCEPT ![r].q = later]
<1>0. BossEnds(bosses, Q(r)) /\ DropEnds(bosses, Q(r)) /\ PriceEnds(bosses, Q(r))
  BY BossesOutcomes
<1>k. \A e : EndsBosses(bosses, Kept(bosses), {"none"}) /\ EndsBosses(bosses, Failed(bosses, e), {e})
  BY DEF EndsBosses, Kept, Failed, StackMoves
<1>c. /\ Caught("none", NoCodes) /\ Caught("none", SeedCodes) /\ Caught("missing", SeedCodes)
      /\ \A e \in {"none", "BossExists"} : Caught(e, [BossExists |-> 1])
  BY CodesTold DEF Caught, Told
<1>s. SeedSize \in Nat \ {0} /\ SeedKeys = 1..SeedSize /\ 1 \in Texts
  BY CatalogueAssumption DEF SeedKeys
<1>1. CASE SetRule(r)
  <2> DEFINE out == Wrote([bosses EXCEPT !.rules[Head(Q(r).left)] = Q(r).text])
             rest == [Q(r) EXCEPT !.left = Tail(Q(r).left)]
             first == [op |-> "seedBoss", key |-> 1]
  <2>1. Q(r).op = "setRules"
    BY <1>1 DEF SetRule, Asked, Q
  <2>2. EndsBosses(bosses, out, {"none"})
    BY <1>0, <2>1 DEF BossEnds
  <2>3. \/ Len(Q(r).left) > 1 /\ GoesOn(r, "setRules", rest, out, "bosses")
        \/ GoesOn(r, "setRules", first, out, "bosses")
        \/ OnBosses(r, "setRules", "bosses", out, NoCodes)
    BY <1>1 DEF SetRule
  <2>4. ASSUME Len(Q(r).left) > 1 PROVE rest \in LaterRequests
    <3>1. Q(r).left \in {RuleFields, <<"party">>} /\ [Q(r) EXCEPT !.left = <<"party">>] \in LaterRequests
      BY <2>1, BossesAsking
    <3>2. Q(r).left # <<"party">>
      <4> SUFFICES ASSUME Q(r).left = <<"party">> PROVE FALSE
        OBVIOUS
      <4>1. Len(Q(r).left) = 1
        OBVIOUS
      <4> HIDE DEF first, rest, out
      <4> QED
        BY <2>4, <4>1
    <3>3. Tail(Q(r).left) = <<"party">>
      <4>1. Tail(<<"limit", "party">>) = <<"party">>
        OBVIOUS
      <4> QED
        BY <3>1, <3>2, <4>1 DEF RuleFields
    <3> QED
      BY <3>1, <3>3
  <2>5. first \in LaterRequests
    <3>1. first \in [op : {"seedBoss"}, key : SeedKeys]
      BY SeedOrdered
    <3> QED
      BY <3>1 DEF LaterRequests
  <2> HIDE DEF out, rest, first
  <2>6. CASE Len(Q(r).left) > 1 /\ GoesOn(r, "setRules", rest, out, "bosses")
    BY <2>2, <2>4, <2>6, GoesOnGood
  <2>7. CASE GoesOn(r, "setRules", first, out, "bosses")
    BY <2>2, <2>5, <2>7, GoesOnGood
  <2>8. CASE OnBosses(r, "setRules", "bosses", out, NoCodes)
    BY <1>c, <2>2, <2>8, OnBossesGood
  <2> QED
    BY <2>3, <2>6, <2>7, <2>8
<1>2. CASE SeedBosses(r)
  <2> DEFINE rules == [op |-> "setRules", text |-> 1, left |-> RuleFields, seeding |-> TRUE]
  <2>1. \/ OnBosses(r, "seedBosses", "bosses", Kept(bosses), NoCodes)
        \/ GoesOn(r, "seedBosses", rules, Kept(bosses), "bosses")
    BY <1>2 DEF SeedBosses
  <2>2. rules \in LaterRequests
    <3>1. rules \in [op : {"setRules"}, text : Texts, left : {RuleFields, <<"party">>},
                     seeding : BOOLEAN]
      BY <1>s
    <3> QED
      BY <3>1 DEF LaterRequests
  <2> HIDE DEF rules
  <2>3. CASE OnBosses(r, "seedBosses", "bosses", Kept(bosses), NoCodes)
    <3>1. EndsBosses(bosses, Kept(bosses), {"none"}) /\ \A e \in {"none"} : Caught(e, NoCodes)
      BY <1>c, <1>k
    <3> QED
      BY <2>3, <3>1, OnBossesGood
  <2>4. CASE GoesOn(r, "seedBosses", rules, Kept(bosses), "bosses")
    BY <1>k, <2>2, <2>4, GoesOnGood
  <2> QED
    BY <2>1, <2>3, <2>4
<1>3. CASE SeedNextBoss(r)
  <2> DEFINE out == bossCreate(bosses, Q(r).key, SeedBoss(Q(r).key), Difficulties, 1)
             next == [Q(r) EXCEPT !.key = Q(r).key + 1]
  <2>1. Q(r).op = "seedBoss"
    BY <1>3 DEF SeedNextBoss, Asked, Q
  <2>2. EndsBosses(bosses, out, {"none", "BossExists"})
    BY <1>0, <2>1 DEF BossEnds
  <2>3. \/ Q(r).key < SeedSize /\ GoesOn(r, "seedBoss", next, out, "bosses")
        \/ OnBosses(r, "seedBoss", "bosses", out, [BossExists |-> 1])
    BY <1>3 DEF SeedNextBoss
  <2>4. ASSUME Q(r).key < SeedSize PROVE next \in LaterRequests
    <3>1. Q(r).key \in SeedKeys /\ \A n \in SeedKeys : [Q(r) EXCEPT !.key = n] \in LaterRequests
      BY <2>1, BossesAsking
    <3>2. Q(r).key + 1 \in SeedKeys
      BY <1>s, <2>4, <3>1
    <3> QED
      BY <3>1, <3>2
  <2> HIDE DEF out, next
  <2>5. CASE Q(r).key < SeedSize /\ GoesOn(r, "seedBoss", next, out, "bosses")
    BY <2>2, <2>4, <2>5, GoesOnGood
  <2>6. CASE OnBosses(r, "seedBoss", "bosses", out, [BossExists |-> 1])
    BY <1>c, <2>2, <2>6, OnBossesGood
  <2> QED
    BY <2>3, <2>5, <2>6
<1>4. CASE SeedPartySizes(r)
  <2> DEFINE prices == [op |-> "seedPrices"]
  <2>1. \/ OnBosses(r, "seedCrystalPrices", "bosses", Failed(bosses, "missing"), SeedCodes)
        \/ GoesOn(r, "seedCrystalPrices", prices, partySeed(bosses), "bosses")
    BY <1>4 DEF SeedPartySizes
  <2>2. prices \in LaterRequests
    BY DEF LaterRequests
  <2> HIDE DEF prices
  <2>3. CASE OnBosses(r, "seedCrystalPrices", "bosses", Failed(bosses, "missing"), SeedCodes)
    <3>1. /\ EndsBosses(bosses, Failed(bosses, "missing"), {"missing"})
          /\ \A e \in {"missing"} : Caught(e, SeedCodes)
      BY <1>c, <1>k
    <3> QED
      BY <2>3, <3>1, OnBossesGood
  <2>4. CASE GoesOn(r, "seedCrystalPrices", prices, partySeed(bosses), "bosses")
    BY <1>0, <2>2, <2>4, GoesOnGood DEF PriceEnds
  <2> QED
    BY <2>1, <2>3, <2>4
<1>5. CASE SeedPrices(r)
  <2>1. OnBosses(r, "seedPrices", "crystalPrices", pricesSeed(bosses), SeedCodes)
    BY <1>5 DEF SeedPrices
  <2>2. EndsBosses(bosses, pricesSeed(bosses), {"none", "missing"})
    BY <1>0 DEF PriceEnds
  <2> QED
    BY <1>c, <2>1, <2>2, OnBossesGood
<1> QED
  BY <1>1, <1>2, <1>3, <1>4, <1>5

\* Completions by hand.  Whatever a request has read, the open row is looked for by the commit.
LEMMA ManualStep ==
  ASSUME GoodBosses(bosses, KnownItems), NEW r, Q(r) \in ManualRequests,
         OpenBoss(r) \/ CloseBoss(r)
  PROVE  /\ GoodBosses(bosses', KnownItems) /\ answer'.status \in Told
         /\ StackMoves(bosses.prices, bosses'.prices)
<1>t. /\ DOMAIN bosses = {"rules", "rows", "diffs", "drops", "prices", "manual"}
      /\ bosses.rules \in [{"limit", "party"} -> RuleValue]
      /\ BossesFit(bosses.rows, bosses.diffs) /\ DropsFit(bosses.drops, bosses.diffs, KnownItems)
      /\ PricesFit(bosses.prices, bosses.diffs) /\ ManualFits(bosses.manual)
  BY DEF GoodBosses
<1>k. \A e : EndsBosses(bosses, Failed(bosses, e), {e}) /\ EndsBosses(bosses, Unknown(bosses), {"unknown"})
  BY DEF EndsBosses, Unknown, Failed, StackMoves
<1>w. ASSUME NEW manual, ManualFits(manual), NEW new, new = [bosses EXCEPT !.manual = manual]
      PROVE  EndsBosses(bosses, Kept(new), {"none"})
  <2>1. /\ DOMAIN new = DOMAIN bosses /\ new.rules = bosses.rules /\ new.rows = bosses.rows
        /\ new.diffs = bosses.diffs /\ new.drops = bosses.drops /\ new.prices = bosses.prices
        /\ new.manual = manual
    BY <1>t, <1>w
  <2> QED
    BY <1>t, <1>w, <2>1, BossesWritten DEF StackMoves
<1>1. CASE OpenBoss(r)
  <2>1. PICK id \in Fresh(FewKeys, bosses.manual) :
          OnBosses(r, "openBoss", "none", manualOpen(Seen(r), bosses, Q(r), id),
                   [AlreadyOpen |-> 409])
    BY <1>1 DEF OpenBoss
  <2> DEFINE row == [boss |-> Q(r).key, open |-> TRUE]
             manual == Join(bosses.manual, One(id, row))
             new == [bosses EXCEPT !.manual = manual]
             out == manualOpen(Seen(r), bosses, Q(r), id)
  <2>2. \/ out \in {Unknown(bosses), Failed(bosses, "AlreadyOpen")}
        \/ OpenRows(bosses, Q(r).key) = {} /\ out = Kept(new)
    BY DEF manualOpen, Opening
  <2>3. Q(r).key \in FewKeys
    <3>1. Q(r).op = "openBoss"
      BY <2>1 DEF OnBosses, Asked, Q
    <3> QED
      BY <3>1 DEF ManualRequests
  <2>4. ASSUME OpenRows(bosses, Q(r).key) = {} PROVE EndsBosses(bosses, Kept(new), {"none"})
    <3>1. row \in ManualRow /\ row.boss = Q(r).key
      BY <2>3 DEF ManualRow
    <3>2. id \in FewKeys /\ id \notin DOMAIN bosses.manual
      BY DEF Fresh
    <3> HIDE DEF row
    <3>3. /\ DOMAIN manual = DOMAIN bosses.manual \cup {id} /\ manual[id] = row
          /\ \A i \in DOMAIN bosses.manual : manual[i] = bosses.manual[i]
      BY <3>2 DEF Join, One
    <3>4. \A i \in DOMAIN bosses.manual : bosses.manual[i].open => bosses.manual[i].boss # row.boss
      BY <2>4, <3>1 DEF OpenRows
    <3> HIDE DEF manual
    <3>5. ManualFits(manual)
      BY <1>t, <3>1, <3>2, <3>3, <3>4 DEF ManualFits, IsTable
    <3> QED
      BY <1>w, <3>5
  <2>5. EndsBosses(bosses, out, {"none", "unknown", "AlreadyOpen"})
    <3> HIDE DEF new, out
    <3> QED
      BY <1>k, <2>2, <2>4 DEF EndsBosses
  <2>6. \A e \in {"none", "unknown", "AlreadyOpen"} : Caught(e, [AlreadyOpen |-> 409])
    BY DEF Caught, Told
  <2> HIDE DEF out
  <2> QED
    BY <2>1, <2>5, <2>6, OnBossesGood DEF out
<1>2. CASE CloseBoss(r)
  <2> DEFINE id == Q(r).id
             row == [bosses.manual[id] EXCEPT !.open = FALSE]
             manual == [bosses.manual EXCEPT ![id] = row]
             new == [bosses EXCEPT !.manual = manual]
             out == manualClose(bosses, Q(r))
  <2>1. \/ out = Unknown(bosses)
        \/ id \in DOMAIN bosses.manual /\ out = Kept(new)
    BY DEF manualClose
  <2>2. ASSUME id \in DOMAIN bosses.manual PROVE EndsBosses(bosses, Kept(new), {"none"})
    <3>1. row \in ManualRow /\ row.open = FALSE
      BY <1>t, <2>2 DEF ManualFits, IsTable, ManualRow
    <3> HIDE DEF row
    <3>2. ManualFits(manual)
      BY <1>t, <2>2, <3>1 DEF ManualFits, IsTable
    <3> QED
      BY <1>w, <3>2
  <2>3. EndsBosses(bosses, out, {"none", "unknown"})
    <3> HIDE DEF new, out, id
    <3> QED
      BY <1>k, <2>1, <2>2 DEF EndsBosses
  <2>4. \A e \in {"none", "unknown"} : Caught(e, NoCodes)
    BY CodesTold DEF Caught
  <2>5. OnBosses(r, "closeBoss", "none", out, NoCodes)
    BY <1>2 DEF CloseBoss
  <2> HIDE DEF out
  <2> QED
    BY <2>3, <2>4, <2>5, OnBossesGood
<1> QED
  BY <1>1, <1>2

-----------------------------------------------------------------------------
(* Calls.  Of an administrator who works alone there is one at a time, so   *)
(* what it has read is what is there.                                       *)

\* A premise about the operators, not a promise of the code: nothing locks others out between the
\* read of a handler and its write.  What is proved from it may not hold when two work at once.
OneOperator == Together \subseteq {"manual", "pictures"}

WorksAlone == \A r \in Requests \ {Alone} : call[r] = NoCall

\* What was asked is of one kind, and the tables are as they were read.
Calls(c, t, asked) ==
  /\ DOMAIN c = Requests
  /\ \A r \in Requests : c[r] # NoCall =>
       {"q", "seen", "pictures"} \subseteq DOMAIN c[r] /\ c[r].q \in asked /\ c[r].seen = t

LEMMA Asking ==
  ASSUME NEW t, NEW asked, Calls(call, t, asked), NEW r \in Requests, NEW q \in asked, Ask(r, q, t)
  PROVE  Calls(call', t, asked) /\ answer'.status \in Told /\ assets' = assets
BY DEF Calls, Ask, NoAnswer, Told

\* After its commit there is no call left.
LEMMA Closing ==
  ASSUME NEW t, NEW asked, Calls(call, t, asked), WorksAlone, NEW r \in Requests, call[r] # NoCall,
         call' = [call EXCEPT ![r] = NoCall], NEW u, NEW more
  PROVE  Calls(call', u, more)
BY DEF Calls, WorksAlone

LEMMA Cutting ==
  ASSUME NEW t, NEW asked, Calls(call, t, asked), NEW r \in Requests, Cut(r)
  PROVE  Calls(call', t, asked) /\ answer'.status \in Told /\ assets' = assets
BY DEF Calls, Cut, NoAnswer, Told

LEMMA WorldsNextGood ==
  ASSUME GoodWorlds(worlds), Calls(call, worlds, WorldRequests), WorksAlone, WorldsNext
  PROVE  /\ GoodWorlds(worlds') /\ Calls(call', worlds', WorldRequests)
         /\ answer'.status \in Told /\ assets' = assets
<1>1. PICK r \in Requests :
     \/ AskWorlds(r)
     \/ CreateWorld(r) \/ UpdateWorld(r) \/ MoveWorld(r) \/ SeedWorlds(r)
  BY DEF WorldsNext
<1>2. CASE AskWorlds(r)
  BY <1>2, Asking DEF AskWorlds
<1>3. ASSUME CreateWorld(r) \/ UpdateWorld(r) \/ MoveWorld(r) \/ SeedWorlds(r)
      PROVE  /\ GoodWorlds(worlds') /\ Calls(call', worlds', WorldRequests)
             /\ answer'.status \in Told /\ assets' = assets
  <2>1. call[r] # NoCall /\ call' = [call EXCEPT ![r] = NoCall] /\ assets' = assets
    BY <1>3 DEF CreateWorld, UpdateWorld, MoveWorld, SeedWorlds, Worlds, Close, Asked
  <2>2. Q(r) \in WorldRequests /\ Seen(r) = worlds
    BY <2>1 DEF Calls, Q, Seen
  <2> QED
    BY <1>3, <2>1, <2>2, WorldsStep, Closing
<1> QED
  BY <1>1, <1>2, <1>3

LEMMA GradesNextGood ==
  ASSUME GoodGrades(mvpGrades), Calls(call, mvpGrades, GradeRequests), WorksAlone, GradesNext
  PROVE  /\ GoodGrades(mvpGrades') /\ Calls(call', mvpGrades', GradeRequests)
         /\ answer'.status \in Told /\ assets' = assets
<1>1. PICK r \in Requests :
     \/ AskGrades(r)
     \/ UpdateMvpGrade(r) \/ MoveMvpGrade(r) \/ SeedMvpGrades(r)
  BY DEF GradesNext
<1>2. CASE AskGrades(r)
  BY <1>2, Asking DEF AskGrades
<1>3. ASSUME UpdateMvpGrade(r) \/ MoveMvpGrade(r) \/ SeedMvpGrades(r)
      PROVE  /\ GoodGrades(mvpGrades') /\ Calls(call', mvpGrades', GradeRequests)
             /\ answer'.status \in Told /\ assets' = assets
  <2>1. call[r] # NoCall /\ call' = [call EXCEPT ![r] = NoCall] /\ assets' = assets
    BY <1>3 DEF UpdateMvpGrade, MoveMvpGrade, SeedMvpGrades, Grades, Close, Asked
  <2>2. Q(r) \in GradeRequests /\ Seen(r) = mvpGrades
    BY <2>1 DEF Calls, Q, Seen
  <2> QED
    BY <1>3, <2>1, <2>2, GradesStep, Closing
<1> QED
  BY <1>1, <1>2, <1>3

LEMMA LootNextGood ==
  ASSUME GoodLoot(huntLoot), Calls(call, huntLoot, LootRequests), WorksAlone, LootNext
  PROVE  /\ GoodLoot(huntLoot') /\ Calls(call', huntLoot', LootRequests)
         /\ answer'.status \in Told /\ assets' = assets
<1>1. PICK r \in Requests :
     \/ AskLoot(r)
     \/ CreateHuntLoot(r) \/ UpdateHuntLoot(r) \/ MoveHuntLoot(r) \/ SeedHuntLoot(r)
  BY DEF LootNext
<1>2. CASE AskLoot(r)
  BY <1>2, Asking DEF AskLoot
<1>3. ASSUME CreateHuntLoot(r) \/ UpdateHuntLoot(r) \/ MoveHuntLoot(r) \/ SeedHuntLoot(r)
      PROVE  /\ GoodLoot(huntLoot') /\ Calls(call', huntLoot', LootRequests)
             /\ answer'.status \in Told /\ assets' = assets
  <2>1. call[r] # NoCall /\ call' = [call EXCEPT ![r] = NoCall] /\ assets' = assets
    BY <1>3 DEF CreateHuntLoot, UpdateHuntLoot, MoveHuntLoot, SeedHuntLoot, Loot, Close,
                Asked
  <2>2. Q(r) \in LootRequests /\ Seen(r) = huntLoot
    BY <2>1 DEF Calls, Q, Seen
  <2> QED
    BY <1>3, <2>1, <2>2, LootStep, Closing
<1> QED
  BY <1>1, <1>2, <1>3

LEMMA CashbookNextGood ==
  ASSUME GoodCashbook(cashbook), Calls(call, cashbook, CashbookRequests), WorksAlone, CashbookNext
  PROVE  /\ GoodCashbook(cashbook') /\ Calls(call', cashbook', CashbookRequests)
         /\ answer'.status \in Told /\ assets' = assets
         /\ DOMAIN cashbook.spend \subseteq DOMAIN cashbook'.spend
<1>1. PICK r \in Requests :
     \/ AskCashbook(r)
     \/ CreateCashbookCategory(r) \/ UpdateCashbookCategory(r) \/ MoveCashbookCategory(r)
     \/ UpdateCashbookItemKind(r) \/ SeedCashbook(r)
  BY DEF CashbookNext
<1>2. CASE AskCashbook(r)
  BY <1>2, Asking DEF AskCashbook
<1>3. ASSUME
        \/ CreateCashbookCategory(r) \/ UpdateCashbookCategory(r) \/ MoveCashbookCategory(r)
        \/ UpdateCashbookItemKind(r) \/ SeedCashbook(r)
      PROVE  /\ GoodCashbook(cashbook') /\ Calls(call', cashbook', CashbookRequests)
             /\ answer'.status \in Told /\ assets' = assets
             /\ DOMAIN cashbook.spend \subseteq DOMAIN cashbook'.spend
  <2>1. call[r] # NoCall /\ call' = [call EXCEPT ![r] = NoCall] /\ assets' = assets
    BY <1>3 DEF CreateCashbookCategory, UpdateCashbookCategory, MoveCashbookCategory,
                UpdateCashbookItemKind, SeedCashbook, Cashbook, Close, Asked
  <2>2. Q(r) \in CashbookRequests /\ Seen(r) = cashbook
    BY <2>1 DEF Calls, Q, Seen
  <2> QED
    BY <1>3, <2>1, <2>2, CashbookStep, Closing
<1> QED
  BY <1>1, <1>2, <1>3

LEMMA FaqsNextGood ==
  ASSUME GoodFaqs(faqs), Calls(call, faqs, FaqRequests), WorksAlone, FaqsNext
  PROVE  /\ GoodFaqs(faqs') /\ Calls(call', faqs', FaqRequests)
         /\ answer'.status \in Told /\ assets' = assets
<1>1. PICK r \in Requests :
     \/ AskFaqs(r)
     \/ CreateFaqSheet(r) \/ UpdateFaqSheet(r) \/ RemoveFaqSheet(r) \/ MoveFaqSheet(r)
     \/ CreateFaqItem(r) \/ UpdateFaqItem(r) \/ RemoveFaqItem(r) \/ MoveFaqItem(r)
     \/ SeedFaqs(r)
  BY DEF FaqsNext
<1>2. CASE AskFaqs(r)
  BY <1>2, Asking DEF AskFaqs
<1>3. ASSUME
        \/ CreateFaqSheet(r) \/ UpdateFaqSheet(r) \/ RemoveFaqSheet(r) \/ MoveFaqSheet(r)
        \/ CreateFaqItem(r) \/ UpdateFaqItem(r) \/ RemoveFaqItem(r) \/ MoveFaqItem(r)
        \/ SeedFaqs(r)
      PROVE  /\ GoodFaqs(faqs') /\ Calls(call', faqs', FaqRequests)
             /\ answer'.status \in Told /\ assets' = assets
  <2>1. call[r] # NoCall /\ call' = [call EXCEPT ![r] = NoCall] /\ assets' = assets
    BY <1>3 DEF CreateFaqSheet, UpdateFaqSheet, RemoveFaqSheet, MoveFaqSheet,
                CreateFaqItem, UpdateFaqItem, RemoveFaqItem, MoveFaqItem, SeedFaqs, Faqs,
                Close, Asked
  <2>2. Q(r) \in FaqRequests /\ Seen(r) = faqs
    BY <2>1 DEF Calls, Q, Seen
  <2> QED
    BY <1>3, <2>1, <2>2, FaqsStep, Closing
<1> QED
  BY <1>1, <1>2, <1>3

LEMMA ContentsNextGood ==
  ASSUME GoodContents(contents), Calls(call, contents, ContentRequests), WorksAlone, ContentsNext
  PROVE  /\ GoodContents(contents') /\ Calls(call', contents', ContentRequests)
         /\ answer'.status \in Told /\ assets' = assets
<1>1. PICK r \in Requests :
     \/ AskContents(r)
     \/ UpdateContentCategory(r) \/ MoveContentCategory(r) \/ CreateContent(r)
     \/ UpdateContent(r) \/ MoveContent(r) \/ SeedContents(r)
  BY DEF ContentsNext
<1>2. CASE AskContents(r)
  BY <1>2, Asking DEF AskContents
<1>3. ASSUME
        \/ UpdateContentCategory(r) \/ MoveContentCategory(r) \/ CreateContent(r)
        \/ UpdateContent(r) \/ MoveContent(r) \/ SeedContents(r)
      PROVE  /\ GoodContents(contents') /\ Calls(call', contents', ContentRequests)
             /\ answer'.status \in Told /\ assets' = assets
  <2>1. call[r] # NoCall /\ call' = [call EXCEPT ![r] = NoCall] /\ assets' = assets
    BY <1>3 DEF UpdateContentCategory, MoveContentCategory, CreateContent, UpdateContent,
                MoveContent, SeedContents, OnContents, Close, Asked
  <2>2. Q(r) \in ContentRequests /\ Seen(r) = contents
    BY <2>1 DEF Calls, Q, Seen
  <2> QED
    BY <1>3, <2>1, <2>2, ContentsStep, Closing
<1> QED
  BY <1>1, <1>2, <1>3

LEMMA HuntingNextGood ==
  ASSUME GoodHunting(hunting), Calls(call, hunting, HuntingRequests), WorksAlone, HuntingNext
  PROVE  /\ GoodHunting(hunting') /\ Calls(call', hunting', HuntingRequests)
         /\ answer'.status \in Told /\ assets' = assets
<1>1. PICK r \in Requests :
     \/ AskHunting(r)
     \/ CreateHuntingRegion(r) \/ UpdateHuntingRegion(r) \/ MoveHuntingRegion(r)
     \/ CreateHuntingGround(r) \/ UpdateHuntingGround(r) \/ MoveHuntingGround(r)
     \/ SeedHuntingGrounds(r)
  BY DEF HuntingNext
<1>2. CASE AskHunting(r)
  BY <1>2, Asking DEF AskHunting
<1>3. ASSUME
        \/ CreateHuntingRegion(r) \/ UpdateHuntingRegion(r) \/ MoveHuntingRegion(r)
        \/ CreateHuntingGround(r) \/ UpdateHuntingGround(r) \/ MoveHuntingGround(r)
        \/ SeedHuntingGrounds(r)
      PROVE  /\ GoodHunting(hunting') /\ Calls(call', hunting', HuntingRequests)
             /\ answer'.status \in Told /\ assets' = assets
  <2>1. call[r] # NoCall /\ call' = [call EXCEPT ![r] = NoCall] /\ assets' = assets
    BY <1>3 DEF CreateHuntingRegion, UpdateHuntingRegion, MoveHuntingRegion,
                CreateHuntingGround, UpdateHuntingGround, MoveHuntingGround,
                SeedHuntingGrounds, Hunting, Close, Asked
  <2>2. Q(r) \in HuntingRequests /\ Seen(r) = hunting
    BY <2>1 DEF Calls, Q, Seen
  <2> QED
    BY <1>3, <2>1, <2>2, HuntingStep, Closing
<1> QED
  BY <1>1, <1>2, <1>3

LEMMA SymbolsNextGood ==
  ASSUME GoodSymbols(symbols), Calls(call, symbols, SymbolRequests \cup SymbolCostRequests), WorksAlone,
         NEW asked \in SUBSET (SymbolRequests \cup SymbolCostRequests), SymbolsNext(asked)
  PROVE  /\ GoodSymbols(symbols') /\ Calls(call', symbols', SymbolRequests \cup SymbolCostRequests)
         /\ answer'.status \in Told /\ assets' = assets
         /\ StackMoves(symbols.costs, symbols'.costs)
<1>1. PICK r \in Requests :
     \/ AskSymbols(r, asked)
     \/ CreateSymbolGroup(r) \/ UpdateSymbolGroup(r) \/ CreateSymbol(r) \/ UpdateSymbol(r)
     \/ MoveSymbol(r) \/ AddSymbolCosts(r) \/ RemoveSymbolCost(r) \/ SeedSymbolCosts(r)
  BY DEF SymbolsNext
<1>2. CASE AskSymbols(r, asked)
  BY <1>2, Asking DEF AskSymbols, StackMoves
<1>3. ASSUME
        \/ CreateSymbolGroup(r) \/ UpdateSymbolGroup(r) \/ CreateSymbol(r)
        \/ UpdateSymbol(r) \/ MoveSymbol(r) \/ AddSymbolCosts(r) \/ RemoveSymbolCost(r)
        \/ SeedSymbolCosts(r)
      PROVE  /\ GoodSymbols(symbols') /\ Calls(call', symbols', SymbolRequests \cup SymbolCostRequests)
             /\ answer'.status \in Told /\ assets' = assets
             /\ StackMoves(symbols.costs, symbols'.costs)
  <2>1. call[r] # NoCall /\ call' = [call EXCEPT ![r] = NoCall] /\ assets' = assets
    BY <1>3 DEF CreateSymbolGroup, UpdateSymbolGroup, CreateSymbol, UpdateSymbol,
                MoveSymbol, AddSymbolCosts, RemoveSymbolCost, SeedSymbolCosts, OnSymbols,
                Close, Asked
  <2>2. Q(r) \in SymbolRequests \cup SymbolCostRequests /\ Seen(r) = symbols
    BY <2>1 DEF Calls, Q, Seen
  <2> QED
    BY <1>3, <2>1, <2>2, SymbolsStep, Closing
<1> QED
  BY <1>1, <1>2, <1>3

LEMMA ItemsNextGood ==
  ASSUME GoodItems(items), Calls(call, items, ItemsAsked), WorksAlone,
         NEW asked \in SUBSET ItemsAsked, ItemsNext(asked)
  PROVE  /\ GoodItems(items') /\ Calls(call', items', ItemsAsked)
         /\ answer'.status \in Told /\ assets' = assets
         /\ DOMAIN items.items \subseteq DOMAIN items'.items
<1>1. PICK r \in Requests :
     \/ AskItems(r, asked)
     \/ CreateDropItem(r) \/ UpdateDropItem(r) \/ SeedDropItems(r) \/ CreateEquipment(r)
     \/ UpdateEquipment(r) \/ SeedEquipment(r) \/ CreateDropBox(r) \/ SetDropBoxLevels(r)
     \/ AddBoxContent(r) \/ RemoveBoxContent(r) \/ MoveBoxContent(r) \/ SeedDropBoxes(r)
  BY DEF ItemsNext
<1>2. CASE AskItems(r, asked)
  BY <1>2, Asking DEF AskItems
<1>3. ASSUME
        \/ CreateDropItem(r) \/ UpdateDropItem(r) \/ SeedDropItems(r) \/ CreateEquipment(r)
        \/ UpdateEquipment(r) \/ SeedEquipment(r) \/ CreateDropBox(r) \/ SetDropBoxLevels(r)
        \/ AddBoxContent(r) \/ RemoveBoxContent(r) \/ MoveBoxContent(r) \/ SeedDropBoxes(r)
      PROVE  /\ GoodItems(items') /\ Calls(call', items', ItemsAsked)
             /\ answer'.status \in Told /\ assets' = assets
             /\ DOMAIN items.items \subseteq DOMAIN items'.items
  <2>1. call[r] # NoCall /\ call' = [call EXCEPT ![r] = NoCall] /\ assets' = assets
    BY <1>3 DEF CreateDropItem, UpdateDropItem, SeedDropItems, CreateEquipment,
                UpdateEquipment, SeedEquipment, CreateDropBox, SetDropBoxLevels,
                AddBoxContent, RemoveBoxContent, MoveBoxContent, SeedDropBoxes, OnItems,
                Close, Asked
  <2>2. Q(r) \in ItemsAsked /\ Seen(r) = items
    BY <2>1 DEF Calls, Q, Seen
  <2> QED
    BY <1>3, <2>1, <2>2, ItemsStep, Closing
<1> QED
  BY <1>1, <1>2, <1>3

LEMMA EnhancementNextGood ==
  ASSUME GoodEnhancement(enhancement), Calls(call, enhancement, EnhancementAsked(enhancement)), WorksAlone, EnhancementNext
  PROVE  /\ GoodEnhancement(enhancement') /\ Calls(call', enhancement', EnhancementAsked(enhancement'))
         /\ answer'.status \in Told /\ assets' = assets
<1>1. PICK r \in Requests :
     \/ AskEnhancement(r) \/ SeedEnhancementRules(r)
     \/ SetEnhancementRules(r) \/ SetPotentialResetCost(r) \/ AddPotentialResetBand(r)
     \/ RemovePotentialResetBand(r) \/ SetSoulPotentialResetCost(r) \/ SetStarforceStep(r)
     \/ AddStarforceStep(r) \/ RemoveLastStarforceStep(r) \/ SeedEnhancementCosts(r)
  BY DEF EnhancementNext
<1>2. CASE AskEnhancement(r)
  BY <1>2, Asking DEF AskEnhancement, EnhancementAsked
<1>3. ASSUME
        \/ SetEnhancementRules(r) \/ SetPotentialResetCost(r) \/ AddPotentialResetBand(r)
        \/ RemovePotentialResetBand(r) \/ SetSoulPotentialResetCost(r)
        \/ SetStarforceStep(r) \/ AddStarforceStep(r) \/ RemoveLastStarforceStep(r)
        \/ SeedEnhancementCosts(r)
      PROVE  /\ GoodEnhancement(enhancement') /\ Calls(call', enhancement', EnhancementAsked(enhancement'))
             /\ answer'.status \in Told /\ assets' = assets
  <2>1. call[r] # NoCall /\ call' = [call EXCEPT ![r] = NoCall] /\ assets' = assets
    BY <1>3 DEF SetEnhancementRules, SetPotentialResetCost, AddPotentialResetBand,
                RemovePotentialResetBand, SetSoulPotentialResetCost, SetStarforceStep,
                AddStarforceStep, RemoveLastStarforceStep, SeedEnhancementCosts,
                OnEnhancement, Close, Asked
  <2>2. Q(r) \in EnhancementAsked(enhancement) /\ Seen(r) = enhancement
    BY <2>1 DEF Calls, Q, Seen
  <2> QED
    BY <1>3, <2>1, <2>2, EnhancementStep, Closing
<1>4. CASE SeedEnhancementRules(r)
  <2>1. call[r] # NoCall /\ assets' = assets
    BY <1>4 DEF SeedEnhancementRules, Asked
  <2>2. Q(r) \in EnhancementAsked(enhancement) /\ Seen(r) = enhancement
    BY <2>1 DEF Calls, Q, Seen
  <2>3. GoodEnhancement(enhancement') /\ answer'.status \in Told
    BY <1>4, <2>2, EnhancementGoesOn
  <2>4. call' = [call EXCEPT ![r].q = [op |-> "seedEnhancementCosts"], ![r].seen = enhancement']
    BY <1>4 DEF SeedEnhancementRules
  <2>5. Calls(call', enhancement', EnhancementAsked(enhancement'))
    BY <2>1, <2>4 DEF Calls, WorksAlone, EnhancementAsked
  <2> QED
    BY <2>1, <2>3, <2>5
<1> QED
  BY <1>1, <1>2, <1>3, <1>4

\* The call of a seeding asks for the rows once the rules are there.
LEMMA SeedSpendCalls ==
  ASSUME NEW q \in SpendAsked, q.op = "seedSpendCatalog"
  PROVE  [q EXCEPT !.op = "seedSpendRows"] \in SpendAsked
<1>1. q \notin SpendItemRequests
  BY DEF SpendItemRequests
<1>2. q # [op |-> "seedSpendRows"]
  OBVIOUS
<1>3. q = [op |-> "seedSpendCatalog"]
  <2>1. q \in SpendRequests
    BY <1>1, <1>2 DEF SpendAsked
  <2> QED
    BY <2>1 DEF SpendRequests
<1>4. [q EXCEPT !.op = "seedSpendRows"] = [op |-> "seedSpendRows"]
  BY <1>3
<1> QED
  BY <1>4 DEF SpendAsked

LEMMA SpendNextGood ==
  ASSUME GoodSpend(spend, SpendCategories), Calls(call, spend, SpendAsked), WorksAlone,
         SpendCategories \subseteq FewKeys, NEW asked \in SUBSET SpendAsked, SpendNext(asked)
  PROVE  /\ GoodSpend(spend', SpendCategories) /\ Calls(call', spend', SpendAsked)
         /\ answer'.status \in Told /\ assets' = assets
<1>1. PICK r \in Requests :
     \/ AskSpend(r, asked) \/ SeedSpendRules(r)
     \/ SetSpendRules(r) \/ CreateSpendGroup(r) \/ UpdateSpendGroup(r) \/ MoveSpendGroup(r)
     \/ UpdateSpendForm(r) \/ CreateSpendTile(r) \/ UpdateSpendTile(r) \/ CreateSpendItem(r)
     \/ UpdateSpendItem(r) \/ MoveSpendItem(r) \/ SeedSpendRows(r)
  BY DEF SpendNext
<1>2. CASE AskSpend(r, asked)
  BY <1>2, Asking DEF AskSpend
<1>3. ASSUME
        \/ SetSpendRules(r) \/ CreateSpendGroup(r) \/ UpdateSpendGroup(r)
        \/ MoveSpendGroup(r) \/ UpdateSpendForm(r) \/ CreateSpendTile(r)
        \/ UpdateSpendTile(r) \/ CreateSpendItem(r) \/ UpdateSpendItem(r)
        \/ MoveSpendItem(r) \/ SeedSpendRows(r)
      PROVE  /\ GoodSpend(spend', SpendCategories) /\ Calls(call', spend', SpendAsked)
             /\ answer'.status \in Told /\ assets' = assets
  <2>1. call[r] # NoCall /\ call' = [call EXCEPT ![r] = NoCall] /\ assets' = assets
    BY <1>3 DEF SetSpendRules, CreateSpendGroup, UpdateSpendGroup, MoveSpendGroup,
                UpdateSpendForm, CreateSpendTile, UpdateSpendTile, CreateSpendItem,
                UpdateSpendItem, MoveSpendItem, SeedSpendRows, Spending, Close, Asked
  <2>2. Q(r) \in SpendAsked /\ Seen(r) = spend
    BY <2>1 DEF Calls, Q, Seen
  <2> QED
    BY <1>3, <2>1, <2>2, SpendStep, Closing
<1>4. CASE SeedSpendRules(r)
  <2>1. call[r] # NoCall /\ assets' = assets /\ Q(r).op = "seedSpendCatalog"
    BY <1>4 DEF SeedSpendRules, Asked, Q
  <2>2. Q(r) \in SpendAsked /\ Seen(r) = spend
    BY <2>1 DEF Calls, Q, Seen
  <2>3. GoodSpend(spend', SpendCategories) /\ answer'.status \in Told
    BY <1>4, <2>2, SpendGoesOn
  <2>4. call' = [call EXCEPT ![r].q.op = "seedSpendRows", ![r].seen = spend']
    BY <1>4 DEF SeedSpendRules
  <2>5. /\ DOMAIN call' = Requests /\ DOMAIN call'[r] = DOMAIN call[r] /\ call'[r].seen = spend'
        /\ call'[r].q = [Q(r) EXCEPT !.op = "seedSpendRows"]
        /\ \A x \in Requests \ {r} : call'[x] = call[x]
    BY <2>1, <2>4 DEF Calls, Q
  <2>6. [Q(r) EXCEPT !.op = "seedSpendRows"] \in SpendAsked
    BY <2>1, <2>2, SeedSpendCalls
  <2>7. r = Alone /\ {"q", "seen", "pictures"} \subseteq DOMAIN call[r]
    BY <2>1 DEF Calls, WorksAlone
  <2>8. Calls(call', spend', SpendAsked)
    BY <2>5, <2>6, <2>7 DEF Calls, WorksAlone
  <2> QED
    BY <2>1, <2>3, <2>8
<1> QED
  BY <1>1, <1>2, <1>3, <1>4

LEMMA KindOps ==
  \A q \in KindRequests : q.op \in {"createHexaKind", "updateHexaKind", "replaceHexaCosts", "seedHexaMatrix"}
BY DEF KindRequests

LEMMA CoreOps ==
  \A q \in CoreRequests :
    q.op \in {"addHexaNameKind", "removeHexaNameKind", "createHexaJobCore", "updateHexaJobCore",
              "removeHexaJobCore", "moveHexaJobCore", "createHexaStat", "updateHexaStat"}
BY DEF CoreRequests

LEMMA KindsNextGood ==
  ASSUME KindsFirst(hexa), Calls(call, hexa, KindRequests), WorksAlone, HexaNext(KindRequests)
  PROVE  /\ KindsFirst(hexa') /\ Calls(call', hexa', KindRequests)
         /\ answer'.status \in Told /\ assets' = assets
<1>1. PICK r \in Requests :
     \/ AskHexa(r, KindRequests)
     \/ CreateHexaKind(r) \/ UpdateHexaKind(r) \/ ReplaceHexaCosts(r) \/ SeedHexaMatrix(r)
     \/ AddHexaNameKind(r) \/ RemoveHexaNameKind(r) \/ CreateHexaJobCore(r) \/ UpdateHexaJobCore(r)
     \/ RemoveHexaJobCore(r) \/ MoveHexaJobCore(r) \/ CreateHexaStat(r) \/ UpdateHexaStat(r)
  BY DEF HexaNext
<1>2. CASE AskHexa(r, KindRequests)
  BY <1>2, Asking DEF AskHexa
<1>3. ASSUME CreateHexaKind(r) \/ UpdateHexaKind(r) \/ ReplaceHexaCosts(r) \/ SeedHexaMatrix(r)
      PROVE  /\ KindsFirst(hexa') /\ Calls(call', hexa', KindRequests)
             /\ answer'.status \in Told /\ assets' = assets
  <2>1. call[r] # NoCall /\ call' = [call EXCEPT ![r] = NoCall] /\ assets' = assets
    BY <1>3 DEF CreateHexaKind, UpdateHexaKind, ReplaceHexaCosts, SeedHexaMatrix, OnHexa, Close,
                Asked
  <2>2. Q(r) \in KindRequests /\ Seen(r) = hexa
    BY <2>1 DEF Calls, Q, Seen
  <2> QED
    BY <1>3, <2>1, <2>2, KindsStep, Closing
<1>4. ASSUME \/ AddHexaNameKind(r) \/ RemoveHexaNameKind(r) \/ CreateHexaJobCore(r)
             \/ UpdateHexaJobCore(r) \/ RemoveHexaJobCore(r) \/ MoveHexaJobCore(r)
             \/ CreateHexaStat(r) \/ UpdateHexaStat(r)
      PROVE  FALSE
  <2>1. /\ call[r] # NoCall
        /\ call[r].q.op \in {"addHexaNameKind", "removeHexaNameKind", "createHexaJobCore",
                             "updateHexaJobCore", "removeHexaJobCore", "moveHexaJobCore",
                             "createHexaStat", "updateHexaStat"}
    BY <1>4 DEF AddHexaNameKind, RemoveHexaNameKind, CreateHexaJobCore, UpdateHexaJobCore,
                RemoveHexaJobCore, MoveHexaJobCore, CreateHexaStat, UpdateHexaStat, OnHexa, Asked
  <2> QED
    BY <2>1, KindOps DEF Calls
<1> QED
  BY <1>1, <1>2, <1>3, <1>4

LEMMA CoresNextGood ==
  ASSUME GoodHexa(hexa), Calls(call, hexa, CoreRequests), WorksAlone, HexaNext(CoreRequests)
  PROVE  /\ GoodHexa(hexa') /\ Calls(call', hexa', CoreRequests)
         /\ answer'.status \in Told /\ assets' = assets
<1>1. PICK r \in Requests :
     \/ AskHexa(r, CoreRequests)
     \/ CreateHexaKind(r) \/ UpdateHexaKind(r) \/ ReplaceHexaCosts(r) \/ SeedHexaMatrix(r)
     \/ AddHexaNameKind(r) \/ RemoveHexaNameKind(r) \/ CreateHexaJobCore(r) \/ UpdateHexaJobCore(r)
     \/ RemoveHexaJobCore(r) \/ MoveHexaJobCore(r) \/ CreateHexaStat(r) \/ UpdateHexaStat(r)
  BY DEF HexaNext
<1>2. CASE AskHexa(r, CoreRequests)
  BY <1>2, Asking DEF AskHexa
<1>3. ASSUME \/ AddHexaNameKind(r) \/ RemoveHexaNameKind(r) \/ CreateHexaJobCore(r)
             \/ UpdateHexaJobCore(r) \/ RemoveHexaJobCore(r) \/ MoveHexaJobCore(r)
             \/ CreateHexaStat(r) \/ UpdateHexaStat(r)
      PROVE  /\ GoodHexa(hexa') /\ Calls(call', hexa', CoreRequests)
             /\ answer'.status \in Told /\ assets' = assets
  <2>1. call[r] # NoCall /\ call' = [call EXCEPT ![r] = NoCall] /\ assets' = assets
    BY <1>3 DEF AddHexaNameKind, RemoveHexaNameKind, CreateHexaJobCore, UpdateHexaJobCore,
                RemoveHexaJobCore, MoveHexaJobCore, CreateHexaStat, UpdateHexaStat, OnHexa, Close,
                Asked
  <2>2. Q(r) \in CoreRequests /\ Seen(r) = hexa
    BY <2>1 DEF Calls, Q, Seen
  <2> QED
    BY <1>3, <2>1, <2>2, CoresStep, Closing
<1>4. ASSUME CreateHexaKind(r) \/ UpdateHexaKind(r) \/ ReplaceHexaCosts(r) \/ SeedHexaMatrix(r)
      PROVE  FALSE
  <2>1. /\ call[r] # NoCall
        /\ call[r].q.op \in {"createHexaKind", "updateHexaKind", "replaceHexaCosts", "seedHexaMatrix"}
    BY <1>4 DEF CreateHexaKind, UpdateHexaKind, ReplaceHexaCosts, SeedHexaMatrix, OnHexa, Asked
  <2> QED
    BY <2>1, CoreOps DEF Calls
<1> QED
  BY <1>1, <1>2, <1>3, <1>4

-----------------------------------------------------------------------------
(* Calls of bosses.  One that goes on reads nothing of what it read before. *)

BossCalls(c, t) ==
  /\ DOMAIN c = Requests
  /\ \A r \in Requests : c[r] # NoCall =>
       /\ {"q", "seen", "pictures"} \subseteq DOMAIN c[r] /\ c[r].q \in BossesAsked
       /\ c[r].q \in LaterRequests \/ c[r].seen = t

LEMMA BossOps ==
  \A q \in BossesAsked : q.op \notin {"openBoss", "closeBoss"}
<1>1. \A q \in BossRequests : q.op \notin {"openBoss", "closeBoss"}
  <2> SUFFICES ASSUME NEW q \in BossRequests PROVE q.op \notin {"openBoss", "closeBoss"}
    OBVIOUS
  <2>1. CASE q \in [op : {"setRules"}, text : {2}, left : {RuleFields}, seeding : {FALSE}]
    BY <2>1
  <2>2. CASE q \in [op : {"createBoss"}, key : FewKeys, cycle : {"weekly"}, text : {2},
                     diffs : {{1}, {1, 2}}]
    BY <2>2
  <2>3. CASE q \in [op : {"setBossAlias", "setBossPeriod"}, key : FewKeys, text : {2}]
    BY <2>3
  <2>4. CASE q = [op |-> "seedBosses"]
    BY <2>4
  <2> QED
    BY <2>1, <2>2, <2>3, <2>4 DEF BossRequests
<1>2. \A q \in DifficultyRequests : q.op \notin {"openBoss", "closeBoss"}
  BY DEF DifficultyRequests
<1>3. \A q \in PriceRequests : q.op \notin {"openBoss", "closeBoss"}
  BY DEF PriceRequests
<1>4. \A q \in DropRequests : q.op \notin {"openBoss", "closeBoss"}
  BY DEF DropRequests
<1> QED
  BY <1>1, <1>2, <1>3, <1>4, LaterOps DEF BossesAsked

LEMMA BossesNextGood ==
  ASSUME GoodBosses(bosses, KnownItems), BossCalls(call, bosses), WorksAlone,
         NEW asked \in SUBSET BossesAsked, BossesNext(asked)
  PROVE  /\ GoodBosses(bosses', KnownItems) /\ BossCalls(call', bosses')
         /\ answer'.status \in Told /\ UNCHANGED <<assets, items>>
         /\ StackMoves(bosses.prices, bosses'.prices)
<1> DEFINE goal ==
         /\ GoodBosses(bosses', KnownItems) /\ BossCalls(call', bosses')
         /\ answer'.status \in Told /\ UNCHANGED <<assets, items>>
         /\ StackMoves(bosses.prices, bosses'.prices)
<1>1. PICK r \in Requests :
     \/ AskBosses(r, asked) \/ OpenBoss(r) \/ CloseBoss(r) \/ CreateBoss(r) \/ CreateBossDrop(r)
     \/ SetBossPeriod(r) \/ SetBossAlias(r) \/ SetDifficultyPeriod(r) \/ SetMaxPartySize(r)
     \/ UpsertDifficulty(r) \/ DeleteDifficulty(r) \/ UpdateBossDrop(r) \/ DeleteBossDrop(r)
     \/ MoveBossDrop(r) \/ SeedBossDrops(r) \/ AddCrystalPrice(r) \/ RemoveCrystalPrice(r)
     \/ SetRule(r) \/ SeedBosses(r) \/ SeedNextBoss(r) \/ SeedPartySizes(r) \/ SeedPrices(r)
  BY DEF BossesNext
<1>2. CASE AskBosses(r, asked)
  <2>1. PICK q \in asked : Ask(r, q, bosses) /\ UNCHANGED <<bosses, items>>
    BY <1>2 DEF AskBosses
  <2>2. BossCalls(call', bosses)
    BY <2>1 DEF Ask, BossCalls
  <2> QED
    BY <2>1, <2>2 DEF Ask, NoAnswer, Told, StackMoves
<1>3. CASE OpenBoss(r) \/ CloseBoss(r)
  <2>1. call[r] # NoCall /\ call[r].q.op \in {"openBoss", "closeBoss"}
    BY <1>3 DEF OpenBoss, CloseBoss, OnBosses, Asked
  <2> QED
    BY <2>1, BossOps DEF BossCalls
<1>4. ASSUME call[r] # NoCall, call' = [call EXCEPT ![r] = NoCall] PROVE BossCalls(call', bosses')
  BY <1>4 DEF BossCalls, WorksAlone
<1>5. ASSUME \/ CreateBoss(r) \/ CreateBossDrop(r)
             \/ SetBossPeriod(r) \/ SetBossAlias(r) \/ SetDifficultyPeriod(r) \/ SetMaxPartySize(r)
             \/ UpsertDifficulty(r) \/ DeleteDifficulty(r) \/ UpdateBossDrop(r) \/ DeleteBossDrop(r)
             \/ MoveBossDrop(r) \/ SeedBossDrops(r) \/ AddCrystalPrice(r) \/ RemoveCrystalPrice(r)
      PROVE  goal
  <2>1. /\ call[r] # NoCall /\ call[r].q.op \notin {"setRules", "seedBoss", "seedPrices"}
        /\ call' = [call EXCEPT ![r] = NoCall] /\ UNCHANGED <<assets, items>>
    BY <1>5 DEF CreateBoss, CreateBossDrop, SetBossPeriod, SetBossAlias, SetDifficultyPeriod,
                SetMaxPartySize, UpsertDifficulty, DeleteDifficulty, UpdateBossDrop, DeleteBossDrop,
                MoveBossDrop, SeedBossDrops, AddCrystalPrice, RemoveCrystalPrice, OnBosses, Close,
                Asked
  <2>2. Q(r) \in BossesAsked /\ Seen(r) = bosses
    BY <2>1, LaterOps DEF BossCalls, Q, Seen
  <2>3. /\ GoodBosses(bosses', KnownItems) /\ answer'.status \in Told
        /\ StackMoves(bosses.prices, bosses'.prices)
    BY <1>5, <2>2, CreateBossStep, CreateBossDropStep, BossesStep
  <2> QED
    BY <1>4, <2>1, <2>3
<1>6. ASSUME SetRule(r) \/ SeedBosses(r) \/ SeedNextBoss(r) \/ SeedPartySizes(r) \/ SeedPrices(r)
      PROVE  goal
  <2>1. call[r] # NoCall
    BY <1>6 DEF SetRule, SeedBosses, SeedNextBoss, SeedPartySizes, SeedPrices, OnBosses, Asked
  <2>2. Q(r) \in BossesAsked
    BY <2>1 DEF BossCalls, Q
  <2>3. /\ GoodBosses(bosses', KnownItems) /\ answer'.status \in Told
        /\ StackMoves(bosses.prices, bosses'.prices) /\ UNCHANGED <<assets, items>>
        /\ \/ call' = [call EXCEPT ![r] = NoCall]
           \/ \E later \in LaterRequests : call' = [call EXCEPT ![r].q = later]
    BY <1>6, <2>2, BossesGoOn
  <2>4. ASSUME NEW later \in LaterRequests, call' = [call EXCEPT ![r].q = later]
        PROVE  BossCalls(call', bosses')
    <3>1. later \in BossesAsked
      BY DEF BossesAsked
    <3> QED
      BY <2>1, <2>4, <3>1 DEF BossCalls, WorksAlone
  <2> QED
    BY <1>4, <2>1, <2>3, <2>4
<1> QED
  BY <1>1, <1>2, <1>3, <1>5, <1>6

-----------------------------------------------------------------------------
(* Scenes of several operators: what a call has read is not relied on. *)

ManualCalls(c) ==
  DOMAIN c = Requests /\ \A r \in Requests : c[r] # NoCall => c[r].q \in ManualRequests

LEMMA ManualOps ==
  \A q \in ManualRequests : q.op \in {"openBoss", "closeBoss"}
BY DEF ManualRequests

LEMMA ManualNextGood ==
  ASSUME GoodBosses(bosses, KnownItems), ManualCalls(call), BossesNext(ManualRequests)
  PROVE  /\ GoodBosses(bosses', KnownItems) /\ ManualCalls(call')
         /\ answer'.status \in Told /\ UNCHANGED <<assets, items>>
         /\ StackMoves(bosses.prices, bosses'.prices)
<1>1. PICK r \in Requests :
     \/ AskBosses(r, ManualRequests) \/ OpenBoss(r) \/ CloseBoss(r) \/ CreateBoss(r)
     \/ CreateBossDrop(r) \/ SetBossPeriod(r) \/ SetBossAlias(r) \/ SetDifficultyPeriod(r)
     \/ SetMaxPartySize(r) \/ UpsertDifficulty(r) \/ DeleteDifficulty(r) \/ UpdateBossDrop(r)
     \/ DeleteBossDrop(r) \/ MoveBossDrop(r) \/ SeedBossDrops(r) \/ AddCrystalPrice(r)
     \/ RemoveCrystalPrice(r) \/ SetRule(r) \/ SeedBosses(r) \/ SeedNextBoss(r)
     \/ SeedPartySizes(r) \/ SeedPrices(r)
  BY DEF BossesNext
<1>2. CASE AskBosses(r, ManualRequests)
  <2>1. PICK q \in ManualRequests : Ask(r, q, bosses) /\ UNCHANGED <<bosses, items>>
    BY <1>2 DEF AskBosses
  <2>2. ManualCalls(call')
    BY <2>1 DEF Ask, ManualCalls
  <2> QED
    BY <2>1, <2>2 DEF Ask, NoAnswer, Told, StackMoves
<1>3. ASSUME OpenBoss(r) \/ CloseBoss(r)
      PROVE  /\ GoodBosses(bosses', KnownItems) /\ ManualCalls(call')
             /\ answer'.status \in Told /\ UNCHANGED <<assets, items>>
             /\ StackMoves(bosses.prices, bosses'.prices)
  <2>1. /\ call[r] # NoCall /\ call' = [call EXCEPT ![r] = NoCall]
        /\ UNCHANGED <<assets, items>>
    BY <1>3 DEF OpenBoss, CloseBoss, OnBosses, Close, Asked
  <2>2. Q(r) \in ManualRequests
    BY <2>1 DEF ManualCalls, Q
  <2>3. ManualCalls(call')
    BY <2>1 DEF ManualCalls
  <2> QED
    BY <1>3, <2>1, <2>2, <2>3, ManualStep
<1>4. ASSUME \/ CreateBoss(r) \/ CreateBossDrop(r) \/ SetBossPeriod(r) \/ SetBossAlias(r)
             \/ SetDifficultyPeriod(r) \/ SetMaxPartySize(r) \/ UpsertDifficulty(r)
             \/ DeleteDifficulty(r) \/ UpdateBossDrop(r) \/ DeleteBossDrop(r) \/ MoveBossDrop(r)
             \/ SeedBossDrops(r) \/ AddCrystalPrice(r) \/ RemoveCrystalPrice(r) \/ SetRule(r)
             \/ SeedBosses(r) \/ SeedNextBoss(r) \/ SeedPartySizes(r) \/ SeedPrices(r)
      PROVE  FALSE
  <2>1. call[r] # NoCall /\ call[r].q.op \notin {"openBoss", "closeBoss"}
    BY <1>4 DEF CreateBoss, CreateBossDrop, SetBossPeriod, SetBossAlias, SetDifficultyPeriod,
                SetMaxPartySize, UpsertDifficulty, DeleteDifficulty, UpdateBossDrop, DeleteBossDrop,
                MoveBossDrop, SeedBossDrops, AddCrystalPrice, RemoveCrystalPrice, SetRule,
                SeedBosses, SeedNextBoss, SeedPartySizes, SeedPrices, OnBosses, Asked
  <2> QED
    BY <2>1, ManualOps DEF ManualCalls
<1> QED
  BY <1>1, <1>2, <1>3, <1>4

\* The file of every picture an app is told of is there.
GoodPictures(table, stored, cut) ==
  /\ IsTable(table, Texts, Texts) /\ IsTable(cut, Texts, Texts) /\ stored \subseteq Texts
  /\ \A p \in DOMAIN table : table[p] \in stored

\* A request that has written its file relies on it: no file is ever removed.
PictureCalls(c, stored) ==
  /\ DOMAIN c = Requests
  /\ \A r \in Requests : c[r] # NoCall =>
       /\ {"q", "seen", "pictures"} \subseteq DOMAIN c[r]
       /\ c[r].q \in PictureRequests /\ "file" \in DOMAIN c[r].seen
       /\ c[r].q.op = "putFile" /\ c[r].seen.file => c[r].q.hash \in stored

LEMMA PicturesAsking ==
  ASSUME NEW q \in PictureRequests
  PROVE  /\ q.op = "putFile" => q.path \in Texts /\ q.hash \in Texts
         /\ q.op = "putCrop" => q.slug \in Texts /\ q.text \in Texts
BY DEF PictureRequests

LEMMA PicturesNextGood ==
  ASSUME GoodPictures(assets, files, crops), PictureCalls(call, files), PicturesNext,
         answer.status \in Told
  PROVE  GoodPictures(assets', files', crops') /\ PictureCalls(call', files')
         /\ answer'.status \in Told
<1> DEFINE goal == GoodPictures(assets', files', crops') /\ PictureCalls(call', files')
                   /\ answer'.status \in Told
<1>1. PICK r \in Requests :
        AskPictures(r) \/ WriteFile(r) \/ PutFile(r) \/ PutCrop(r) \/ RemoveCrop(r)
  BY DEF PicturesNext
<1>2. ASSUME call' = [call EXCEPT ![r] = NoCall], files' = files PROVE PictureCalls(call', files')
  BY <1>2 DEF PictureCalls
<1>c. Caught("none", NoCodes) /\ Caught("unknown", NoCodes)
  BY CodesTold DEF Caught
<1>3. CASE AskPictures(r)
  <2>1. PICK q \in PictureRequests : Ask(r, q, [file |-> FALSE]) /\ UNCHANGED <<files, crops>>
    BY <1>3 DEF AskPictures
  <2>2. PictureCalls(call', files)
    BY <2>1 DEF Ask, PictureCalls
  <2> QED
    BY <2>1, <2>2 DEF Ask, NoAnswer, Told
<1>4. ASSUME WriteFile(r) PROVE goal
  <2>1. /\ call[r] # NoCall /\ Q(r).op = "putFile" /\ files' = files \cup {Q(r).hash}
        /\ call' = [call EXCEPT ![r].seen.file = TRUE] /\ UNCHANGED <<answer, assets, crops>>
    BY <1>4 DEF WriteFile, Asked, Q
  <2>2. Q(r).hash \in Texts
    BY <2>1, PicturesAsking DEF PictureCalls, Q
  <2>3. GoodPictures(assets', files', crops')
    BY <2>1, <2>2 DEF GoodPictures
  <2>4. /\ DOMAIN call' = Requests /\ DOMAIN call'[r] = DOMAIN call[r] /\ call'[r].q = Q(r)
        /\ "file" \in DOMAIN call'[r].seen
        /\ \A x \in Requests \ {r} : call'[x] = call[x]
    BY <2>1 DEF PictureCalls, Q
  <2>5. PictureCalls(call', files')
    BY <2>1, <2>4 DEF PictureCalls, Q
  <2> QED
    BY <2>1, <2>3, <2>5
<1>5. ASSUME PutFile(r) PROVE goal
  <2> DEFINE q == Q(r)
             more == Join(assets, One(q.path, q.hash))
  <2>1. /\ call[r] # NoCall /\ q.op = "putFile" /\ call[r].seen.file
        /\ assets' = assetPut(assets, q).now /\ Close(r, "assets", assetPut(assets, q), NoCodes)
        /\ UNCHANGED <<files, crops>>
    BY <1>5 DEF PutFile, Asked, Q, Seen
  <2>2. q \in PictureRequests /\ q.hash \in files
    BY <2>1 DEF PictureCalls, Q
  <2> HIDE DEF q
  <2>3. q.path \in Texts /\ q.hash \in Texts
    BY <2>1, <2>2, PicturesAsking
  <2>4. (assets' = assets \/ assets' = more) /\ assetPut(assets, q).error = "none"
    BY <2>1 DEF assetPut, Kept, Wrote
  <2>5. GoodPictures(more, files, crops)
    BY <2>2, <2>3 DEF GoodPictures, IsTable, Join, One
  <2> HIDE DEF more
  <2> QED
    BY <1>2, <1>c, <2>1, <2>4, <2>5, CloseTells DEF Close
<1>6. ASSUME PutCrop(r) PROVE goal
  <2> DEFINE q == Q(r)
             more == Join(crops, One(q.slug, q.text))
  <2>1. /\ call[r] # NoCall /\ q.op = "putCrop" /\ crops' = more
        /\ Close(r, "imageCrops", cropPut(crops, q), NoCodes) /\ cropPut(crops, q).error = "none"
        /\ UNCHANGED <<assets, files>>
    BY <1>6 DEF PutCrop, Crops, Asked, Q, cropPut, Wrote
  <2>2. q \in PictureRequests
    BY <2>1 DEF PictureCalls, Q
  <2> HIDE DEF q
  <2>3. q.slug \in Texts /\ q.text \in Texts
    BY <2>1, <2>2, PicturesAsking
  <2>4. GoodPictures(assets, files, more)
    BY <2>3 DEF GoodPictures, IsTable, Join, One
  <2> HIDE DEF more
  <2> QED
    BY <1>2, <1>c, <2>1, <2>4, CloseTells DEF Close
<1>7. ASSUME RemoveCrop(r) PROVE goal
  <2> DEFINE q == Q(r)
             less == Without(crops, {q.slug})
  <2>1. /\ crops' \in {crops, less} /\ cropRemove(crops, q).error \in {"none", "unknown"}
        /\ Close(r, "imageCrops", cropRemove(crops, q), NoCodes) /\ UNCHANGED <<assets, files>>
    BY <1>7 DEF RemoveCrop, Crops, cropRemove, Wrote, Unknown, Failed
  <2>2. GoodPictures(assets, files, less)
    BY DEF GoodPictures, IsTable, Without
  <2> HIDE DEF less, q
  <2> QED
    BY <1>2, <1>c, <2>1, <2>2, CloseTells DEF Close
<1> QED
  BY <1>1, <1>3, <1>4, <1>5, <1>6, <1>7

-----------------------------------------------------------------------------
(* The invariant. *)

\* Every table keeps to what its handlers rely on.
TablesGood ==
  /\ GoodWorlds(worlds) /\ GoodGrades(mvpGrades) /\ GoodLoot(huntLoot) /\ GoodCashbook(cashbook)
  /\ GoodFaqs(faqs) /\ GoodPictures(assets, files, crops)
  /\ GoodContents(contents) /\ GoodHunting(hunting)
  /\ GoodSpend(spend, SpendCategories) /\ GoodHexa(hexa) /\ (scene = "hexa" => KindsFirst(hexa))
  /\ GoodSymbols(symbols) /\ GoodEnhancement(enhancement)
  /\ GoodItems(items) /\ GoodBosses(bosses, KnownItems)

\* A call of a scene asks what is asked there, and what it has read is what is there.
PlainCalls ==
  /\ scene = "worlds" => Calls(call, worlds, WorldRequests)
  /\ scene = "mvpGrades" => Calls(call, mvpGrades, GradeRequests)
  /\ scene = "huntLoot" => Calls(call, huntLoot, LootRequests)
  /\ scene = "cashbook" => Calls(call, cashbook, CashbookRequests)
  /\ scene = "faqs" => Calls(call, faqs, FaqRequests)
  /\ scene = "pictures" => PictureCalls(call, files)

GroupedCalls ==
  /\ scene = "contents" => Calls(call, contents, ContentRequests)
  /\ scene = "hunting" => Calls(call, hunting, HuntingRequests)
  /\ scene \in {"spend", "spendItems"} => Calls(call, spend, SpendAsked)
  /\ scene = "hexa" => Calls(call, hexa, KindRequests)
  /\ scene = "hexaCores" => Calls(call, hexa, CoreRequests)
  /\ scene \in {"symbols", "symbolCosts"} =>
       Calls(call, symbols, SymbolRequests \cup SymbolCostRequests)
  /\ scene = "enhancement" => Calls(call, enhancement, EnhancementAsked(enhancement))

DroppedCalls ==
  /\ scene \in {"items", "boxes"} => Calls(call, items, ItemsAsked)
  /\ scene \in {"bosses", "difficulties", "prices", "drops"} => BossCalls(call, bosses)
  /\ scene = "manual" => ManualCalls(call)

IInv ==
  /\ scene \in AllScenes /\ answer.status \in Told
  /\ TablesGood
  /\ PlainCalls /\ GroupedCalls /\ DroppedCalls
  /\ scene \in Together \/ WorksAlone

-----------------------------------------------------------------------------
(* The initial states. *)

\* A table without a row keeps to anything.
LEMMA NoRows ==
  /\ DOMAIN <<>> = {}
  /\ \A K, R : IsTable(<<>>, K, R) /\ Ordered(<<>>, K, R)
  /\ \A K, R, f : OrderedBy(<<>>, K, R, f)
<1>1. DOMAIN <<>> = {}
  OBVIOUS
<1> DEFINE none == <<>>
<1>2. DOMAIN none = {}
  BY <1>1
<1> HIDE DEF none
<1>3. /\ \A K, R : IsTable(none, K, R) /\ Ordered(none, K, R)
      /\ \A K, R, f : OrderedBy(none, K, R, f)
  BY <1>2 DEF IsTable, Ordered, OrderedBy, OrdersDiffer
<1> QED
  BY <1>2, <1>3 DEF none

LEMMA ListsStart ==
  ASSUME ListsInit, ContentsInit, CatalogueInit
  PROVE  /\ GoodWorlds(worlds) /\ GoodGrades(mvpGrades) /\ GoodLoot(huntLoot)
         /\ GoodCashbook(cashbook) /\ GoodFaqs(faqs) /\ GoodPictures(assets, files, crops)
         /\ GoodContents(contents) /\ GoodHunting(hunting)
<1> DEFINE none == <<>>
<1>0. /\ DOMAIN none = {}
      /\ \A K, R : IsTable(none, K, R) /\ Ordered(none, K, R)
      /\ \A K, R, f : OrderedBy(none, K, R, f)
  BY NoRows
<1>1. /\ worlds = none /\ mvpGrades = none /\ huntLoot = none
      /\ faqs = [sheets |-> none, items |-> none] /\ files = {1} /\ crops = none
      /\ contents = [categories |-> none, rows |-> none]
      /\ hunting = [regions |-> none, grounds |-> none]
  BY DEF ListsInit, ContentsInit
<1>2. PICK spending \in {none, One(1, [text |-> 1, order |-> 0])} :
        cashbook = [income |-> none, spend |-> spending, kinds |-> none]
  BY DEF ListsInit
<1>3. PICK paths \in {{1}, Texts} : assets = [p \in paths |-> 1]
  BY DEF CatalogueInit
<1> HIDE DEF none
<1>4. 1 \in FewKeys /\ {1, 2} \subseteq Texts
  BY SeedOrdered, CatalogueAssumption
<1>5. Ordered(spending, FewKeys, PlainRow)
  <2> DEFINE row == [text |-> 1, order |-> 0]
  <2>1. row \in PlainRow
    BY <1>4 DEF PlainRow
  <2> HIDE DEF row
  <2>2. Ordered(One(1, row), FewKeys, PlainRow)
    BY <1>4, <2>1 DEF Ordered, IsTable, OrdersDiffer, One
  <2>3. spending = none \/ spending = One(1, row)
    BY <1>2 DEF row
  <2> QED
    BY <1>0, <2>2, <2>3
<1>6. GoodCashbook(cashbook)
  <2>1. /\ DOMAIN cashbook = {"income", "spend", "kinds"}
        /\ cashbook.income = none /\ cashbook.spend = spending /\ cashbook.kinds = none
    BY <1>2
  <2>2. \A c \in {"income", "spend", "kinds"} : Ordered(cashbook[c], FewKeys, PlainRow)
    BY <1>0, <1>5, <2>1
  <2> QED
    BY <2>1, <2>2 DEF GoodCashbook, CashbookTables
<1>7. GoodPictures(assets, files, crops)
  BY <1>0, <1>1, <1>3, <1>4 DEF GoodPictures, IsTable
<1>8. /\ GoodFaqs(faqs) /\ GoodContents(contents) /\ GoodHunting(hunting)
  BY <1>0, <1>1 DEF GoodFaqs, GoodContents, ContentsFit, GoodHunting
<1> QED
  BY <1>0, <1>1, <1>6, <1>7, <1>8 DEF GoodWorlds, GoodGrades, GoodLoot

LEMMA HexaStarts ==
  KindsFirst(NoHexa) /\ GoodHexa(HexaReady(NoHexa))
<1> DEFINE none == <<>>
<1>0. /\ DOMAIN none = {}
      /\ \A K, R : Ordered(none, K, R)
      /\ \A K, R, f : OrderedBy(none, K, R, f)
  BY NoRows
<1>1. /\ DOMAIN NoHexa = {"kinds", "costs", "names", "cores", "stats"}
      /\ NoHexa.kinds = none /\ NoHexa.costs = none /\ NoHexa.names = none
      /\ NoHexa.cores = none /\ NoHexa.stats = none
  BY DEF NoHexa
<1> HIDE DEF none
<1>2. KindsFirst(NoHexa)
  BY <1>0, <1>1 DEF KindsFirst, GoodHexa, OneDefault, KindsPriced, NamesKnown
<1> DEFINE q == [op |-> "seedHexaMatrix"]
<1>3. q \in KindRequests
  BY DEF KindRequests
<1> HIDE DEF q
<1>4. KindsEnds(NoHexa, q)
  BY <1>2, <1>3, KindsOutcomes
<1>5. hexaSeed(NoHexa, NoHexa) = Wrote(HexaReady(NoHexa))
  BY <1>0, <1>1 DEF hexaSeed, JobHas, CoresOf
<1>6. hexaSeed(NoHexa, NoHexa).now = HexaReady(NoHexa)
  BY <1>5 DEF Wrote
<1> QED
  BY <1>2, <1>4, <1>6 DEF KindsEnds, EndsKinds, KindsFirst

LEMMA SymbolsStart ==
  GoodSymbols(NoSymbols) /\ GoodSymbols(SymbolsReady(0)) /\ GoodSymbols(SymbolsReady(2))
<1>1. GoodSymbols(NoSymbols)
  <2> DEFINE none == <<>>
  <2>0. /\ DOMAIN none = {}
        /\ \A K, R : Ordered(none, K, R)
        /\ \A K, R, f : OrderedBy(none, K, R, f)
    BY NoRows
  <2>1. /\ DOMAIN NoSymbols = {"groups", "symbols", "costs"}
        /\ NoSymbols.groups = none /\ NoSymbols.symbols = none /\ NoSymbols.costs = none
    BY DEF NoSymbols
  <2> HIDE DEF none
  <2> QED
    BY <2>0, <2>1 DEF GoodSymbols, Chains
<1>2. ASSUME NEW top \in {0, 2} PROVE GoodSymbols(SymbolsReady(top))
  <2> DEFINE group == [text |-> 1, max |-> 3, order |-> 0]
             symbol == [group |-> 1, text |-> 1, order |-> 0]
             first == {Row(None, None)}
             priced == {1} \X (1..top)
             costs == [p \in priced |-> first]
             t == SymbolsReady(top)
  <2>1. /\ DOMAIN t = {"groups", "symbols", "costs"} /\ t.groups = One(1, group)
        /\ t.symbols = One(1, symbol) /\ t.costs = costs
    BY DEF SymbolsReady
  <2>2. 1 \in FewKeys /\ {1, 2} \subseteq Texts
    BY SeedOrdered, CatalogueAssumption
  <2>3. /\ group \in SymbolGroupRow /\ group.max = 3
        /\ symbol \in SymbolRow /\ symbol.group = 1
    BY <2>2 DEF SymbolGroupRow, SymbolRow, TopLevels
  <2>4. Chain(first) /\ first # {}
    BY FirstIsChain
  <2>5. \A p : p \in priced <=> \E l \in 1..top : p = <<1, l>>
    OBVIOUS
  <2>6. DOMAIN costs = priced /\ \A p \in priced : costs[p] = first
    OBVIOUS
  <2> HIDE DEF group, symbol, first, priced, costs, t
  <2>7. /\ DOMAIN t.groups = {1} /\ t.groups[1] = group
        /\ DOMAIN t.symbols = {1} /\ t.symbols[1] = symbol
    BY <2>1 DEF One
  <2>8. Ordered(t.groups, FewKeys, SymbolGroupRow) /\ OrderedBy(t.symbols, FewKeys, SymbolRow, "group")
    BY <2>2, <2>3, <2>7 DEF Ordered, OrderedBy, IsTable, OrdersDiffer
  <2>9. CostsWhole(t.costs, 1, 3)
    <3>1. top + 1 \in 1..3 /\ \A l \in Levels : <<1, l>> \in priced <=> l < top + 1
      BY <2>5 DEF Levels
    <3> QED
      BY <3>1, <2>1, <2>6 DEF CostsWhole
  <2>10. DOMAIN t.costs \subseteq (DOMAIN t.symbols) \X Levels
    <3>1. 1..top \subseteq Levels
      BY DEF Levels
    <3> QED
      BY <3>1, <2>1, <2>5, <2>6, <2>7
  <2> QED
    BY <2>1, <2>3, <2>4, <2>6, <2>7, <2>8, <2>9, <2>10 DEF GoodSymbols, Chains, t
<1> QED
  BY <1>1, <1>2

LEMMA ItemsStart ==
  GoodItems(NoItems) /\ GoodItems(ItemsReady)
<1> DEFINE none == <<>>
<1>0. DOMAIN none = {} /\ \A K, R : IsTable(none, K, R)
  BY NoRows
<1>1. /\ DOMAIN NoItems = {"items", "boxes", "equipment"}
      /\ NoItems.items = none /\ NoItems.boxes = none /\ NoItems.equipment = none
  BY DEF NoItems
<1>2. /\ DOMAIN ItemsReady = {"items", "boxes", "equipment"}
      /\ ItemsReady.items = [k \in Keys |-> SeedItem(k)] /\ ItemsReady.boxes = none
      /\ ItemsReady.equipment = none
  BY DEF ItemsReady, NoItems
<1> HIDE DEF none
<1>3. IsTable([k \in Keys |-> SeedItem(k)], Keys, DropItemRow)
  <2>1. \A k \in Keys : SeedItem(k) \in DropItemRow
    BY CatalogueAssumption DEF SeedItem, DropItemRow
  <2> QED
    BY <2>1 DEF IsTable
<1> QED
  BY <1>0, <1>1, <1>2, <1>3 DEF GoodItems, BoxesFit, NamesDiffer

LEMMA BossesStart ==
  ASSUME NEW known
  PROVE  /\ GoodBosses(NoBosses, known)
         /\ \A K \in {{1}, {1, 2}} : GoodBosses(BossesReady(K), known)
<1> DEFINE none == <<>>
<1>0. /\ DOMAIN none = {}
      /\ \A K, R : IsTable(none, K, R) /\ Ordered(none, K, R)
      /\ \A K, R, f : OrderedBy(none, K, R, f)
  BY NoRows
<1>1. /\ DOMAIN NoBosses = {"rules", "rows", "diffs", "drops", "prices", "manual"}
      /\ NoBosses.rules = [f \in {"limit", "party"} |-> None]
      /\ NoBosses.rows = none /\ NoBosses.diffs = none /\ NoBosses.drops = none
      /\ NoBosses.prices = none /\ NoBosses.manual = none
  BY DEF NoBosses
<1> HIDE DEF none
<1>2. DropsFit(none, none, known) /\ PricesFit(none, none) /\ ManualFits(none)
  BY <1>0 DEF DropsFit, PricesFit, ManualFits, Chains
<1>3. GoodBosses(NoBosses, known)
  BY <1>0, <1>1, <1>2 DEF GoodBosses, BossesFit, RuleValue
<1>4. ASSUME NEW K \in {{1}, {1, 2}} PROVE GoodBosses(BossesReady(K), known)
  <2> DEFINE t == BossesReady(K)
             pairs == K \X Difficulties
             rows == [k \in K |-> SeedBoss(k)]
             diff == NewDifficulty(1)
             diffs == [p \in pairs |-> diff]
  <2>1. /\ DOMAIN t = {"rules", "rows", "diffs", "drops", "prices", "manual"}
        /\ t.rules = [f \in {"limit", "party"} |-> 1] /\ t.rows = rows /\ t.diffs = diffs
        /\ t.drops = none /\ t.prices = none /\ t.manual = none
    BY <1>1 DEF BossesReady
  <2>2. {1, 2} \subseteq FewKeys /\ {1, 2} \subseteq Texts
    BY ScenesAssumption, CatalogueAssumption
  <2>3. \A k \in K : SeedBoss(k) \in BossRow /\ SeedBoss(k).order = k - 1
    BY <2>2 DEF SeedBoss, BossRow
  <2>4. diff \in DifficultyRow
    BY <2>2 DEF NewDifficulty, DifficultyRow
  <2>5. \A p \in pairs : p[1] \in K /\ p \in FewKeys \X Difficulties
    BY <2>2
  <2>6. \A k \in K : \E p \in pairs : p[1] = k
    <3>1. \A k \in K : <<k, 1>> \in pairs /\ <<k, 1>>[1] = k
      BY DEF Difficulties
    <3> QED
      BY <3>1
  <2> HIDE DEF t, pairs, diff
  <2>7. Ordered(rows, FewKeys, BossRow)
    BY <2>2, <2>3 DEF Ordered, IsTable, OrdersDiffer
  <2>8. DOMAIN rows = K /\ DOMAIN diffs = pairs /\ \A p \in pairs : diffs[p] = diff
    OBVIOUS
  <2> HIDE DEF rows, diffs
  <2>9. BossesFit(rows, diffs)
    BY <2>4, <2>5, <2>6, <2>7, <2>8 DEF BossesFit, IsTable
  <2>10. DropsFit(none, diffs, known) /\ PricesFit(none, diffs)
    BY <1>0 DEF DropsFit, PricesFit, Chains
  <2>11. t.rules \in [{"limit", "party"} -> RuleValue]
    BY <2>1, <2>2 DEF RuleValue
  <2> QED
    BY <1>2, <2>1, <2>9, <2>10, <2>11 DEF GoodBosses, t
<1> QED
  BY <1>3, <1>4

LEMMA SpendStarts ==
  ASSUME NEW categories
  PROVE  GoodSpend(NoSpend, categories)
<1> DEFINE none == <<>>
<1>0. /\ DOMAIN none = {}
      /\ \A K, R : IsTable(none, K, R) /\ Ordered(none, K, R)
      /\ \A K, R, f : OrderedBy(none, K, R, f)
  BY NoRows
<1>1. /\ DOMAIN NoSpend = {"rules", "forms", "groups", "tiles", "items"} /\ NoSpend.rules = None
      /\ NoSpend.forms = none /\ NoSpend.groups = none /\ NoSpend.tiles = none
      /\ NoSpend.items = none
  BY DEF NoSpend
<1> HIDE DEF none
<1> QED
  BY <1>0, <1>1 DEF GoodSpend, ItemsFit

LEMMA EnhancementStarts ==
  GoodEnhancement(NoEnhancement)
<1> DEFINE none == <<>>
<1>0. DOMAIN none = {} /\ \A K, R : IsTable(none, K, R)
  BY NoRows
<1>1. /\ DOMAIN NoEnhancement = {"rules", "bands", "soul", "stars"}
      /\ NoEnhancement.rules = None /\ NoEnhancement.soul = None
      /\ NoEnhancement.bands = none /\ NoEnhancement.stars = none
  BY DEF NoEnhancement
<1>2. 0 \in 0..(MaxStar + 1) /\ 0..(0 - 1) = {}
  BY EnhancementAssumption
<1> HIDE DEF none
<1>3. StarsWhole(none)
  BY <1>0, <1>2 DEF StarsWhole
<1> QED
  BY <1>0, <1>1, <1>3 DEF GoodEnhancement

LEMMA InitGood ==
  ASSUME Init
  PROVE  IInv
<1>1. /\ GoodWorlds(worlds) /\ GoodGrades(mvpGrades) /\ GoodLoot(huntLoot)
      /\ GoodCashbook(cashbook) /\ GoodFaqs(faqs) /\ GoodPictures(assets, files, crops)
      /\ GoodContents(contents) /\ GoodHunting(hunting)
  BY ListsStart DEF Init
<1>2. scene \in AllScenes /\ answer.status \in Told
  BY ScenesAssumption DEF Init, CatalogueInit, NoAnswer, Told
<1>3. GoodEnhancement(enhancement) /\ GoodItems(items)
  BY EnhancementStarts, ItemsStart DEF Init
<1>4. GoodSymbols(symbols)
  BY SymbolsStart DEF Init
<1>5. GoodHexa(hexa) /\ (scene = "hexa" => KindsFirst(hexa))
  BY HexaStarts DEF Init, KindsFirst
<1>6. GoodBosses(bosses, KnownItems)
  <2>1. bosses \in {NoBosses, BossesReady({1}), BossesReady({1, 2})}
    BY DEF Init
  <2> QED
    BY <2>1, BossesStart
<1>7. GoodSpend(spend, SpendCategories)
  <2>1. CASE spend = NoSpend
    BY <2>1, SpendStarts
  <2>2. CASE scene = "spendItems"
    <3>1. /\ cashbook.spend # <<>>
          /\ \E spending \in {<<>>, One(1, [text |-> 1, order |-> 0])} : cashbook.spend = spending
      BY <2>2 DEF Init, ListsInit
    <3>2. DOMAIN cashbook.spend = {1}
      BY <3>1 DEF One
    <3>3. {1} \subseteq FewKeys /\ {1, 2} \subseteq FewKeys
      BY ScenesAssumption
    <3>4. spend = SpendReady({1}) \/ spend = SpendReady({1, 2})
      BY <2>2 DEF Init
    <3>5. GoodSpend(SpendReady({1}), {1}) /\ GoodSpend(SpendReady({1, 2}), {1})
      BY <3>3, SpendReadyGood
    <3> QED
      BY <3>2, <3>4, <3>5 DEF SpendCategories
  <2> QED
    BY <2>1, <2>2 DEF Init
<1>8. DOMAIN call = Requests /\ \A r \in Requests : call[r] = NoCall
  BY DEF Init, CatalogueInit
<1>9. WorksAlone /\ BossCalls(call, bosses) /\ ManualCalls(call) /\ PictureCalls(call, files)
  BY <1>8 DEF WorksAlone, BossCalls, ManualCalls, PictureCalls
<1>10. \A t, asked : Calls(call, t, asked)
  BY <1>8 DEF Calls
<1> QED
  BY <1>1, <1>2, <1>3, <1>4, <1>5, <1>6, <1>7, <1>9, <1>10
     DEF IInv, TablesGood, PlainCalls, GroupedCalls, DroppedCalls

-----------------------------------------------------------------------------
(* The steps. *)

\* What others rely on only grows: categories of spending and items are never deleted.
LEMMA CategoriesGrow ==
  ASSUME NEW t, NEW few, NEW more, few \subseteq more, GoodSpend(t, few)
  PROVE  GoodSpend(t, more)
BY DEF GoodSpend

LEMMA ItemsGrow ==
  ASSUME NEW t, NEW few, NEW more, few \subseteq more, GoodBosses(t, few)
  PROVE  GoodBosses(t, more)
BY DEF GoodBosses, DropsFit

\* A step that writes dated prices changes the tops of their stacks.
PricesMove ==
  \/ UNCHANGED <<symbols, bosses>>
  \/ UNCHANGED symbols /\ StackMoves(bosses.prices, bosses'.prices)
  \/ UNCHANGED bosses /\ StackMoves(symbols.costs, symbols'.costs)

StepGood ==
  /\ answer'.status \in Told /\ TablesGood'
  /\ PlainCalls' /\ GroupedCalls' /\ DroppedCalls' /\ PricesMove

LEMMA AloneThere ==
  ASSUME OneOperator, IInv, scene \notin {"manual", "pictures"}
  PROVE  WorksAlone
BY DEF OneOperator, IInv

LEMMA PlainStep ==
  ASSUME OneOperator, IInv, scene' = scene, InPlain, UNCHANGED <<grouped, dropped>>
  PROVE  StepGood
<1>0. /\ TablesGood /\ PlainCalls /\ answer.status \in Told
      /\ scene \notin {"manual", "pictures"} => WorksAlone
  BY AloneThere DEF IInv
<1>1. /\ UNCHANGED <<contents, hunting, spend, hexa, symbols, enhancement>>
      /\ UNCHANGED <<items, bosses>>
  BY DEF grouped, dropped
<1>2. CASE scene = "worlds"
  <2>1. InWorlds
    BY <1>2 DEF InPlain
  <2>2. /\ GoodWorlds(worlds') /\ Calls(call', worlds', WorldRequests)
        /\ answer'.status \in Told /\ assets' = assets
    BY <1>0, <1>2, <2>1, WorldsNextGood DEF InWorlds, TablesGood, PlainCalls
  <2>3. TablesGood'
    BY <1>0, <1>1, <1>2, <2>1, <2>2 DEF InWorlds, TablesGood, SpendCategories, KnownItems
  <2> QED
    BY <1>1, <1>2, <2>2, <2>3 DEF StepGood, PricesMove, PlainCalls, GroupedCalls, DroppedCalls
<1>3. CASE scene = "mvpGrades"
  <2>1. InGrades
    BY <1>3 DEF InPlain
  <2>2. /\ GoodGrades(mvpGrades') /\ Calls(call', mvpGrades', GradeRequests)
        /\ answer'.status \in Told /\ assets' = assets
    BY <1>0, <1>3, <2>1, GradesNextGood DEF InGrades, TablesGood, PlainCalls
  <2>3. TablesGood'
    BY <1>0, <1>1, <1>3, <2>1, <2>2 DEF InGrades, TablesGood, SpendCategories, KnownItems
  <2> QED
    BY <1>1, <1>3, <2>2, <2>3 DEF StepGood, PricesMove, PlainCalls, GroupedCalls, DroppedCalls
<1>4. CASE scene = "huntLoot"
  <2>1. InLoot
    BY <1>4 DEF InPlain
  <2>2. /\ GoodLoot(huntLoot') /\ Calls(call', huntLoot', LootRequests)
        /\ answer'.status \in Told /\ assets' = assets
    BY <1>0, <1>4, <2>1, LootNextGood DEF InLoot, TablesGood, PlainCalls
  <2>3. TablesGood'
    BY <1>0, <1>1, <1>4, <2>1, <2>2 DEF InLoot, TablesGood, SpendCategories, KnownItems
  <2> QED
    BY <1>1, <1>4, <2>2, <2>3 DEF StepGood, PricesMove, PlainCalls, GroupedCalls, DroppedCalls
<1>5. CASE scene = "cashbook"
  <2>1. InCashbook
    BY <1>5 DEF InPlain
  <2>2. /\ GoodCashbook(cashbook') /\ Calls(call', cashbook', CashbookRequests)
        /\ answer'.status \in Told /\ assets' = assets
        /\ DOMAIN cashbook.spend \subseteq DOMAIN cashbook'.spend
    BY <1>0, <1>5, <2>1, CashbookNextGood DEF InCashbook, TablesGood, PlainCalls
  <2>3. GoodSpend(spend', SpendCategories')
    BY <1>0, <1>1, <2>2, CategoriesGrow DEF TablesGood, SpendCategories
  <2>4. TablesGood'
    BY <1>0, <1>1, <1>5, <2>1, <2>2, <2>3 DEF InCashbook, TablesGood, KnownItems
  <2> QED
    BY <1>1, <1>5, <2>2, <2>4 DEF StepGood, PricesMove, PlainCalls, GroupedCalls, DroppedCalls
<1>6. CASE scene = "faqs"
  <2>1. InFaqs
    BY <1>6 DEF InPlain
  <2>2. /\ GoodFaqs(faqs') /\ Calls(call', faqs', FaqRequests)
        /\ answer'.status \in Told /\ assets' = assets
    BY <1>0, <1>6, <2>1, FaqsNextGood DEF InFaqs, TablesGood, PlainCalls
  <2>3. TablesGood'
    BY <1>0, <1>1, <1>6, <2>1, <2>2 DEF InFaqs, TablesGood, SpendCategories, KnownItems
  <2> QED
    BY <1>1, <1>6, <2>2, <2>3 DEF StepGood, PricesMove, PlainCalls, GroupedCalls, DroppedCalls
<1>7. CASE scene = "pictures"
  <2>1. InPictures
    BY <1>7 DEF InPlain
  <2>2. /\ GoodPictures(assets', files', crops') /\ PictureCalls(call', files')
        /\ answer'.status \in Told
    BY <1>0, <1>7, <2>1, PicturesNextGood DEF InPictures, TablesGood, PlainCalls
  <2>3. TablesGood'
    BY <1>0, <1>1, <1>7, <2>1, <2>2 DEF InPictures, TablesGood, SpendCategories, KnownItems
  <2> QED
    BY <1>1, <1>7, <2>2, <2>3 DEF StepGood, PricesMove, PlainCalls, GroupedCalls, DroppedCalls
<1> QED
  BY <1>2, <1>3, <1>4, <1>5, <1>6, <1>7 DEF InPlain

LEMMA GroupedStep ==
  ASSUME OneOperator, IInv, scene' = scene, InGrouped, UNCHANGED <<plain, dropped>>
  PROVE  StepGood
<1>0. /\ TablesGood /\ GroupedCalls /\ (scene \notin {"manual", "pictures"} => WorksAlone)
  BY AloneThere DEF IInv
<1>1. /\ UNCHANGED <<worlds, mvpGrades, huntLoot, cashbook, faqs, files, crops>>
      /\ UNCHANGED <<items, bosses>>
  BY DEF plain, dropped
<1>2. CASE scene = "contents"
  <2>1. InContents
    BY <1>2 DEF InGrouped
  <2>2. /\ GoodContents(contents') /\ Calls(call', contents', ContentRequests)
        /\ answer'.status \in Told /\ assets' = assets
    BY <1>0, <1>2, <2>1, ContentsNextGood DEF InContents, TablesGood, GroupedCalls
  <2>3. TablesGood'
    BY <1>0, <1>1, <1>2, <2>1, <2>2 DEF InContents, TablesGood, SpendCategories, KnownItems
  <2>4. PricesMove
    BY <1>1, <2>1 DEF InContents, PricesMove
  <2> QED
    BY <1>2, <2>2, <2>3, <2>4 DEF StepGood, PlainCalls, GroupedCalls, DroppedCalls
<1>3. CASE scene = "hunting"
  <2>1. InHunting
    BY <1>3 DEF InGrouped
  <2>2. /\ GoodHunting(hunting') /\ Calls(call', hunting', HuntingRequests)
        /\ answer'.status \in Told /\ assets' = assets
    BY <1>0, <1>3, <2>1, HuntingNextGood DEF InHunting, TablesGood, GroupedCalls
  <2>3. TablesGood'
    BY <1>0, <1>1, <1>3, <2>1, <2>2 DEF InHunting, TablesGood, SpendCategories, KnownItems
  <2>4. PricesMove
    BY <1>1, <2>1 DEF InHunting, PricesMove
  <2> QED
    BY <1>3, <2>2, <2>3, <2>4 DEF StepGood, PlainCalls, GroupedCalls, DroppedCalls
<1>4. CASE scene \in {"spend", "spendItems"}
  <2>1. PICK asked \in {SpendRequests, SpendItemRequests} : InSpend(asked)
    BY <1>4 DEF InGrouped
  <2>2. asked \in SUBSET SpendAsked
    BY <2>1 DEF SpendAsked
  <2>3. SpendCategories \subseteq FewKeys
    BY <1>0 DEF TablesGood, GoodCashbook, CashbookTables, Ordered, IsTable, SpendCategories
  <2>4. /\ GoodSpend(spend', SpendCategories) /\ Calls(call', spend', SpendAsked)
        /\ answer'.status \in Told /\ assets' = assets
    BY <1>0, <1>4, <2>1, <2>2, <2>3, SpendNextGood DEF InSpend, TablesGood, GroupedCalls
  <2>5. TablesGood'
    BY <1>0, <1>1, <1>4, <2>1, <2>4 DEF InSpend, TablesGood, SpendCategories, KnownItems
  <2>6. PricesMove
    BY <1>1, <2>1 DEF InSpend, PricesMove
  <2> QED
    BY <1>4, <2>4, <2>5, <2>6 DEF StepGood, PlainCalls, GroupedCalls, DroppedCalls
<1>5. CASE scene = "hexa"
  <2>1. InHexa(KindRequests)
    BY <1>5 DEF InGrouped
  <2>2. /\ KindsFirst(hexa') /\ Calls(call', hexa', KindRequests)
        /\ answer'.status \in Told /\ assets' = assets
    BY <1>0, <1>5, <2>1, KindsNextGood DEF InHexa, TablesGood, GroupedCalls
  <2>3. TablesGood'
    BY <1>0, <1>1, <1>5, <2>1, <2>2
       DEF InHexa, TablesGood, SpendCategories, KnownItems, KindsFirst
  <2>4. PricesMove
    BY <1>1, <2>1 DEF InHexa, PricesMove
  <2> QED
    BY <1>5, <2>2, <2>3, <2>4 DEF StepGood, PlainCalls, GroupedCalls, DroppedCalls
<1>6. CASE scene = "hexaCores"
  <2>1. InHexa(CoreRequests)
    BY <1>6 DEF InGrouped
  <2>2. /\ GoodHexa(hexa') /\ Calls(call', hexa', CoreRequests)
        /\ answer'.status \in Told /\ assets' = assets
    BY <1>0, <1>6, <2>1, CoresNextGood DEF InHexa, TablesGood, GroupedCalls
  <2>3. TablesGood'
    BY <1>0, <1>1, <1>6, <2>1, <2>2 DEF InHexa, TablesGood, SpendCategories, KnownItems
  <2>4. PricesMove
    BY <1>1, <2>1 DEF InHexa, PricesMove
  <2> QED
    BY <1>6, <2>2, <2>3, <2>4 DEF StepGood, PlainCalls, GroupedCalls, DroppedCalls
<1>7. CASE scene \in {"symbols", "symbolCosts"}
  <2>1. PICK asked \in {SymbolRequests, SymbolCostRequests} : InSymbols(asked)
    BY <1>7 DEF InGrouped
  <2>2. asked \in SUBSET (SymbolRequests \cup SymbolCostRequests)
    BY <2>1
  <2>3. /\ GoodSymbols(symbols')
        /\ Calls(call', symbols', SymbolRequests \cup SymbolCostRequests)
        /\ answer'.status \in Told /\ assets' = assets
        /\ StackMoves(symbols.costs, symbols'.costs)
    BY <1>0, <1>7, <2>1, <2>2, SymbolsNextGood DEF InSymbols, TablesGood, GroupedCalls
  <2>4. TablesGood'
    BY <1>0, <1>1, <1>7, <2>1, <2>3 DEF InSymbols, TablesGood, SpendCategories, KnownItems
  <2>5. PricesMove
    BY <1>1, <2>3 DEF PricesMove
  <2> QED
    BY <1>7, <2>3, <2>4, <2>5 DEF StepGood, PlainCalls, GroupedCalls, DroppedCalls
<1>8. CASE scene = "enhancement"
  <2>1. InEnhancement
    BY <1>8 DEF InGrouped
  <2>2. /\ GoodEnhancement(enhancement')
        /\ Calls(call', enhancement', EnhancementAsked(enhancement'))
        /\ answer'.status \in Told /\ assets' = assets
    BY <1>0, <1>8, <2>1, EnhancementNextGood DEF InEnhancement, TablesGood, GroupedCalls
  <2>3. TablesGood'
    BY <1>0, <1>1, <1>8, <2>1, <2>2 DEF InEnhancement, TablesGood, SpendCategories, KnownItems
  <2>4. PricesMove
    BY <1>1, <2>1 DEF InEnhancement, PricesMove
  <2> QED
    BY <1>8, <2>2, <2>3, <2>4 DEF StepGood, PlainCalls, GroupedCalls, DroppedCalls
<1> QED
  BY <1>2, <1>3, <1>4, <1>5, <1>6, <1>7, <1>8 DEF InGrouped

LEMMA DroppedStep ==
  ASSUME OneOperator, IInv, scene' = scene, InDropped, UNCHANGED <<plain, grouped>>
  PROVE  StepGood
<1>0. /\ TablesGood /\ DroppedCalls /\ (scene \notin {"manual", "pictures"} => WorksAlone)
  BY AloneThere DEF IInv
<1>1. /\ UNCHANGED <<worlds, mvpGrades, huntLoot, cashbook, faqs, files, crops>>
      /\ UNCHANGED <<contents, hunting, spend, hexa, symbols, enhancement>>
  BY DEF plain, grouped
<1>2. CASE scene \in {"items", "boxes"}
  <2>1. PICK asked \in {ItemRequests, BoxRequests} : InItems(asked)
    BY <1>2 DEF InDropped
  <2>2. asked \in SUBSET ItemsAsked
    BY <2>1 DEF ItemsAsked
  <2>3. /\ GoodItems(items') /\ Calls(call', items', ItemsAsked)
        /\ answer'.status \in Told /\ assets' = assets
        /\ DOMAIN items.items \subseteq DOMAIN items'.items
    BY <1>0, <1>2, <2>1, <2>2, ItemsNextGood DEF InItems, TablesGood, DroppedCalls
  <2>4. GoodBosses(bosses', KnownItems')
    BY <1>0, <2>1, <2>3, ItemsGrow DEF InItems, TablesGood, KnownItems
  <2>5. TablesGood'
    BY <1>0, <1>1, <1>2, <2>3, <2>4 DEF TablesGood, SpendCategories
  <2>6. PricesMove
    BY <1>1, <2>1 DEF InItems, PricesMove
  <2> QED
    BY <1>2, <2>3, <2>5, <2>6 DEF StepGood, PlainCalls, GroupedCalls, DroppedCalls
<1>3. CASE scene \in {"bosses", "difficulties", "prices", "drops"}
  <2>1. PICK asked \in {BossRequests, DifficultyRequests, PriceRequests, DropRequests} :
          BossesNext(asked)
    BY <1>3 DEF InDropped
  <2>2. asked \in SUBSET BossesAsked
    BY <2>1 DEF BossesAsked
  <2>3. /\ GoodBosses(bosses', KnownItems) /\ BossCalls(call', bosses')
        /\ answer'.status \in Told /\ UNCHANGED <<assets, items>>
        /\ StackMoves(bosses.prices, bosses'.prices)
    BY <1>0, <1>3, <2>1, <2>2, BossesNextGood DEF TablesGood, DroppedCalls
  <2>4. TablesGood'
    BY <1>0, <1>1, <1>3, <2>3 DEF TablesGood, SpendCategories, KnownItems
  <2>5. PricesMove
    BY <1>1, <2>3 DEF PricesMove
  <2> QED
    BY <1>3, <2>3, <2>4, <2>5 DEF StepGood, PlainCalls, GroupedCalls, DroppedCalls
<1>4. CASE scene = "manual"
  <2>1. BossesNext(ManualRequests)
    BY <1>4 DEF InDropped
  <2>2. /\ GoodBosses(bosses', KnownItems) /\ ManualCalls(call')
        /\ answer'.status \in Told /\ UNCHANGED <<assets, items>>
        /\ StackMoves(bosses.prices, bosses'.prices)
    BY <1>0, <1>4, <2>1, ManualNextGood DEF TablesGood, DroppedCalls
  <2>3. TablesGood'
    BY <1>0, <1>1, <1>4, <2>2 DEF TablesGood, SpendCategories, KnownItems
  <2>4. PricesMove
    BY <1>1, <2>2 DEF PricesMove
  <2> QED
    BY <1>4, <2>2, <2>3, <2>4 DEF StepGood, PlainCalls, GroupedCalls, DroppedCalls
<1> QED
  BY <1>2, <1>3, <1>4 DEF InDropped

\* A call that is cut leaves no call behind and the tables as they are.
LEMMA CutStep ==
  ASSUME IInv, scene' = scene, NEW r \in Requests, Cut(r), UNCHANGED <<plain, grouped, dropped>>
  PROVE  StepGood
<1>0. TablesGood /\ PlainCalls /\ GroupedCalls /\ DroppedCalls
  BY DEF IInv
<1>1. /\ UNCHANGED <<worlds, mvpGrades, huntLoot, cashbook, faqs, files, crops>>
      /\ UNCHANGED <<contents, hunting, spend, hexa, symbols, enhancement>>
      /\ UNCHANGED <<items, bosses>> /\ UNCHANGED assets
      /\ answer' = NoAnswer /\ call' = [call EXCEPT ![r] = NoCall]
  BY DEF plain, grouped, dropped, Cut
<1>2. \A t, asked : Calls(call, t, asked) => Calls(call', t, asked)
  BY <1>1 DEF Calls
<1>3. /\ BossCalls(call, bosses) => BossCalls(call', bosses)
      /\ ManualCalls(call) => ManualCalls(call')
      /\ PictureCalls(call, files) => PictureCalls(call', files)
  BY <1>1 DEF BossCalls, ManualCalls, PictureCalls
<1>4. TablesGood'
  BY <1>0, <1>1 DEF TablesGood, SpendCategories, KnownItems
<1>5. answer'.status \in Told /\ PricesMove
  BY <1>1 DEF NoAnswer, Told, PricesMove
<1>6. PlainCalls'
  BY <1>0, <1>1, <1>2, <1>3 DEF PlainCalls
<1>7. GroupedCalls'
  BY <1>0, <1>1, <1>2 DEF GroupedCalls
<1>8. DroppedCalls'
  BY <1>0, <1>1, <1>2, <1>3 DEF DroppedCalls
<1> QED
  BY <1>4, <1>5, <1>6, <1>7, <1>8 DEF StepGood

LEMMA NextGood ==
  ASSUME OneOperator, IInv, Next
  PROVE  IInv' /\ PricesMove
<1>1. scene' = scene
  BY DEF Next
<1>2. StepGood
  BY <1>1, PlainStep, GroupedStep, DroppedStep, CutStep DEF Next
<1>3. scene' \in Together \/ WorksAlone'
  BY <1>1 DEF Next, WorksAlone
<1> QED
  BY <1>1, <1>2, <1>3 DEF IInv, StepGood

LEMMA StutterGood ==
  ASSUME IInv, UNCHANGED vars
  PROVE  IInv'
<1>1. /\ UNCHANGED <<worlds, mvpGrades, huntLoot, cashbook, faqs, files, crops>>
      /\ UNCHANGED <<contents, hunting, spend, hexa, symbols, enhancement>>
      /\ UNCHANGED <<items, bosses>> /\ UNCHANGED <<assets, call, answer, scene>>
  BY DEF vars, base, tables, plain, grouped, dropped
<1>2. TablesGood'
  BY <1>1 DEF IInv, TablesGood, SpendCategories, KnownItems
<1>3. PlainCalls' /\ GroupedCalls' /\ DroppedCalls' /\ (scene' \in Together \/ WorksAlone')
  BY <1>1 DEF IInv, PlainCalls, GroupedCalls, DroppedCalls, WorksAlone
<1> QED
  BY <1>1, <1>2, <1>3 DEF IInv

\* Every table is good in itself, with what it refers to (the repositories under src/src/modules),
\* and a call under way has read what its tables still hold.  The latter rests on OneOperator: one
\* operator works at a time, which the code does not enforce, and several on pictures and completions
\* by hand, where less is needed.
THEOREM Invariant ==
  ASSUME OneOperator
  PROVE  Spec => []IInv
<1>1. Init => IInv
  BY InitGood
<1>2. IInv /\ [Next]_vars => IInv'
  BY NextGood, StutterGood
<1> QED
  BY <1>1, <1>2, PTL DEF Spec

-----------------------------------------------------------------------------
(* What the invariant says of the properties. *)

\* Every table holds rows of its columns (src/src/database/schema.ts), whatever a request left
\* out or said NULL for.  One operator works at a time, which the code does not enforce, and several
\* on pictures and completions by hand (OneOperator), as in all that follows.
THEOREM TypeCorrect ==
  ASSUME OneOperator
  PROVE  Spec => []TypeOK
<1>1. IInv => TypeOK
  <2> SUFFICES ASSUME IInv PROVE TypeOK
    OBVIOUS
  <2>0. TablesGood /\ answer.status \in Told
    BY DEF IInv
  <2>1. ListsTypeOK
    <3>1. /\ IsTable(worlds, Keys, WorldRow) /\ IsTable(mvpGrades, Keys, GradeRow)
          /\ IsTable(huntLoot, Keys, LootRow)
      BY <2>0 DEF TablesGood, GoodWorlds, GoodGrades, GoodLoot, Ordered
    <3>2. \A c \in CashbookTables : IsTable(cashbook[c], FewKeys, PlainRow)
      BY <2>0 DEF TablesGood, GoodCashbook, Ordered
    <3>3. /\ IsTable(cashbook.income, FewKeys, CategoryRow)
          /\ IsTable(cashbook.spend, FewKeys, CategoryRow)
          /\ IsTable(cashbook.kinds, FewKeys, ItemKindRow)
      BY <3>2 DEF CashbookTables, CategoryRow, ItemKindRow
    <3>4. IsTable(faqs.sheets, FewKeys, FaqSheetRow) /\ IsTable(faqs.items, FewKeys, FaqItemRow)
      BY <2>0 DEF TablesGood, GoodFaqs, Ordered, OrderedBy
    <3>5. IsTable(assets, Texts, Texts) /\ IsTable(crops, Texts, Texts) /\ files \subseteq Texts
      BY <2>0 DEF TablesGood, GoodPictures
    <3> QED
      BY <3>1, <3>3, <3>4, <3>5 DEF ListsTypeOK
  <2>2. ContentsTypeOK
    BY <2>0 DEF TablesGood, GoodContents, GoodHunting, Ordered, OrderedBy, ContentsTypeOK
  <2>3. SpendTypeOK
    BY <2>0 DEF TablesGood, GoodSpend, Ordered, OrderedBy, SpendTypeOK
  <2>4. HexaTypeOK
    <3>1. /\ IsTable(hexa.kinds, FewKeys, KindRow) /\ DOMAIN hexa.costs = DOMAIN hexa.kinds
          /\ IsTable(hexa.cores, Keys, CoreRow) /\ IsTable(hexa.stats, {1}, StatRow)
      BY <2>0 DEF TablesGood, GoodHexa, KindsPriced, Ordered, OrderedBy
    <3>2. IsTable(hexa.names, {1}, NameRow)
      BY <2>0, <3>1 DEF TablesGood, GoodHexa, NamesKnown, IsTable, NameRow
    <3>3. \A k \in DOMAIN hexa.kinds : hexa.costs[k] \in CostRow
      <4> TAKE k \in DOMAIN hexa.kinds
      <4>1. hexa.kinds[k].max \in {1, 2}
        BY <3>1 DEF IsTable, KindRow, MaxLevels
      <4>2. PICK n \in 0..hexa.kinds[k].max : hexa.costs[k] = CostLevels(n)
        BY <2>0 DEF TablesGood, GoodHexa, KindsPriced
      <4>3. 0..(n - 1) \subseteq 0..1
        BY <4>1
      <4> QED
        BY <4>2, <4>3 DEF CostLevels, CostRow
    <3> QED
      BY <3>1, <3>2, <3>3 DEF HexaTypeOK, IsTable
  <2>5. SymbolsTypeOK
    <3>1. /\ IsTable(symbols.groups, FewKeys, SymbolGroupRow)
          /\ IsTable(symbols.symbols, FewKeys, SymbolRow)
          /\ DOMAIN symbols.costs \subseteq (DOMAIN symbols.symbols) \X Levels
      BY <2>0 DEF TablesGood, GoodSymbols, Ordered, OrderedBy
    <3>2. DOMAIN symbols.symbols \subseteq FewKeys
      BY <3>1 DEF IsTable
    <3>3. DOMAIN symbols.costs \subseteq FewKeys \X Levels
      BY <3>1, <3>2
    <3>4. \A p \in DOMAIN symbols.costs : symbols.costs[p] \in (SUBSET LevelCostRow) \ {{}}
      BY <2>0 DEF TablesGood, GoodSymbols, Chains, Chain, DatedRow, LevelCostRow
    <3> QED
      BY <3>1, <3>3, <3>4 DEF SymbolsTypeOK, IsTable
  <2>6. EnhancementTypeOK
    <3>1. PICK n \in 0..(MaxStar + 1) : DOMAIN enhancement.stars = 0..(n - 1)
      BY <2>0 DEF TablesGood, GoodEnhancement, StarsWhole
    <3>2. 0..(n - 1) \subseteq 0..(MaxStar + 1)
      BY EnhancementAssumption
    <3> QED
      BY <2>0, <3>1, <3>2 DEF TablesGood, GoodEnhancement, StarsWhole, EnhancementTypeOK, IsTable
  <2>7. ItemsTypeOK
    BY <2>0 DEF TablesGood, GoodItems, BoxesFit, GoodBox, Ordered, ItemsTypeOK
  <2>8. BossesTypeOK
    <3>1. /\ bosses.rules \in [{"limit", "party"} -> RuleValue]
          /\ IsTable(bosses.rows, FewKeys, BossRow)
          /\ IsTable(bosses.diffs, FewKeys \X Difficulties, DifficultyRow)
          /\ IsTable(bosses.drops, Keys, BossDropRow) /\ IsTable(bosses.manual, FewKeys, ManualRow)
      BY <2>0 DEF TablesGood, GoodBosses, BossesFit, DropsFit, ManualFits, Ordered, OrderedBy
    <3>2. IsTable(bosses.prices, FewKeys \X Difficulties, SUBSET CrystalRow)
      BY <2>0, <3>1
         DEF TablesGood, GoodBosses, PricesFit, Chains, Chain, DatedRow, CrystalRow, IsTable
    <3> QED
      BY <3>1, <3>2 DEF BossesTypeOK
  <2> QED
    BY <2>0, <2>1, <2>2, <2>3, <2>4, <2>5, <2>6, <2>7, <2>8 DEF TypeOK, Told
<1> QED
  BY <1>1, Invariant, PTL

\* An administrator who works alone is told what is wrong with a request: whatever a repository
\* throws, the handler's catch clauses (admin.controller.ts) have an answer for it, and no check
\* of the database is left to end it as an error of the server.
THEOREM NoErrorOfTheServer ==
  ASSUME OneOperator
  PROVE  Spec => []NoServerError
<1>1. IInv => NoServerError
  BY DEF IInv, Told, NoServerError
<1> QED
  BY <1>1, Invariant, PTL

\* Siblings have different places after every create, move, delete and seeding, so the order of a
\* list is the administrator's and nothing else's.  Of one operator at a time (OneOperator), which
\* the code does not enforce: two may both take the place they counted.
THEOREM PlacesStayApart ==
  ASSUME OneOperator
  PROVE  Spec => []PlacesDiffer
<1>1. IInv => PlacesDiffer
  <2> SUFFICES ASSUME IInv PROVE PlacesDiffer
    OBVIOUS
  <2>0. TablesGood
    BY DEF IInv
  <2>1. \A c \in CashbookTables : OrdersDiffer(cashbook[c], DOMAIN cashbook[c])
    BY <2>0 DEF TablesGood, GoodCashbook, Ordered
  <2>2. /\ OrdersDiffer(worlds, DOMAIN worlds) /\ OrdersDiffer(mvpGrades, DOMAIN mvpGrades)
        /\ OrdersDiffer(huntLoot, DOMAIN huntLoot)
        /\ OrdersDiffer(cashbook.income, DOMAIN cashbook.income)
        /\ OrdersDiffer(cashbook.spend, DOMAIN cashbook.spend)
        /\ OrdersDiffer(faqs.sheets, DOMAIN faqs.sheets)
        /\ OrdersDiffer(contents.categories, DOMAIN contents.categories)
    BY <2>0, <2>1 DEF TablesGood, GoodWorlds, GoodGrades, GoodLoot, CashbookTables, GoodFaqs,
                      GoodContents, Ordered
  <2>3. /\ OrdersDiffer(hunting.regions, DOMAIN hunting.regions)
        /\ OrdersDiffer(spend.groups, DOMAIN spend.groups)
        /\ OrdersDiffer(hexa.kinds, DOMAIN hexa.kinds) /\ OrdersDiffer(hexa.stats, DOMAIN hexa.stats)
        /\ OrdersDiffer(symbols.groups, DOMAIN symbols.groups)
        /\ OrdersDiffer(bosses.rows, DOMAIN bosses.rows)
    BY <2>0 DEF TablesGood, GoodHunting, GoodSpend, GoodHexa, GoodSymbols, GoodBosses, BossesFit,
                Ordered
  <2>4. \A sheet \in DOMAIN faqs.sheets : OrdersDiffer(faqs.items, ItemsOf(faqs, sheet))
    BY <2>0 DEF TablesGood, GoodFaqs, OrderedBy, OrdersDiffer, ItemsOf
  <2>5. \A section \in Sections : OrdersDiffer(contents.rows, InSection(contents, section))
    BY <2>0 DEF TablesGood, GoodContents, OrderedBy, OrdersDiffer, InSection
  <2>6. \A region \in DOMAIN hunting.regions :
          OrdersDiffer(hunting.grounds, GroundsOf(hunting, region))
    BY <2>0 DEF TablesGood, GoodHunting, OrderedBy, OrdersDiffer, GroundsOf
  <2>7. \A group \in DOMAIN spend.groups : OrdersDiffer(spend.items, ItemsOfGroup(spend, group))
    BY <2>0 DEF TablesGood, GoodSpend, OrderedBy, OrdersDiffer, ItemsOfGroup
  <2>8. \A i \in DOMAIN hexa.cores : OrdersDiffer(hexa.cores, CoresOf(hexa, hexa.cores[i].job))
    BY <2>0 DEF TablesGood, GoodHexa, OrderedBy, OrdersDiffer, CoresOf
  <2>9. \A group \in DOMAIN symbols.groups :
          OrdersDiffer(symbols.symbols, SymbolsOf(symbols, group))
    BY <2>0 DEF TablesGood, GoodSymbols, OrderedBy, OrdersDiffer, SymbolsOf
  <2>10. \A box \in DOMAIN items.boxes : OrdersDiffer(Held(items, box), DOMAIN Held(items, box))
    BY <2>0 DEF TablesGood, GoodItems, BoxesFit, GoodBox, Ordered, Held
  <2>11. \A p \in DOMAIN bosses.diffs : OrdersDiffer(bosses.drops, DropsOf(bosses, p))
    BY <2>0 DEF TablesGood, GoodBosses, DropsFit, OrderedBy, OrdersDiffer, DropsOf
  <2> QED
    BY <2>2, <2>3, <2>4, <2>5, <2>6, <2>7, <2>8, <2>9, <2>10, <2>11 DEF PlacesDiffer
<1> QED
  BY <1>1, Invariant, PTL

\* What an app looks up by a name, a default or a tier finds one row.  Of one operator at a time,
\* which the code does not enforce, and of several on completions by hand: names are compared
\* without spaces by the code alone, before it writes (equipment-items.repository.ts).
THEOREM OneRowIsFound ==
  ASSUME OneOperator
  PROVE  Spec => []OneRowFound
<1>1. IInv => OneRowFound
  <2> SUFFICES ASSUME IInv PROVE OneRowFound
    OBVIOUS
  <2>0. TablesGood
    BY DEF IInv
  <2>1. \A a, b \in DOMAIN contents.rows :
          Comparable(contents.rows[a].text) = Comparable(contents.rows[b].text) => a = b
    BY <2>0 DEF TablesGood, GoodContents, ContentsFit
  <2>2. \A a, b \in DOMAIN items.equipment :
          Comparable(items.equipment[a]) = Comparable(items.equipment[b]) => a = b
    BY <2>0 DEF TablesGood, GoodItems, NamesDiffer
  <2>3. OneDefault(hexa.kinds)
    BY <2>0 DEF TablesGood, GoodHexa
  <2>4. \A a, b \in DOMAIN spend.items :
          a # b /\ spend.items[a].tile = spend.items[b].tile =>
            ToldApart(spend.items[a], spend.items[a].group, spend.items[b])
    BY <2>0 DEF TablesGood, GoodSpend, ItemsFit
  <2>5. ManualFits(bosses.manual)
    BY <2>0 DEF TablesGood, GoodBosses
  <2> QED
    BY <2>1, <2>2, <2>3, <2>4, <2>5 DEF OneRowFound, OneDefault, ManualFits
<1> QED
  BY <1>1, Invariant, PTL

\* Nothing points at a row that is not there, and no boss is left without a difficulty.  Of one
\* operator at a time, which the code does not enforce, and of several on pictures: two requests may
\* both count two difficulties (bosses.repository.ts) and each delete one.
THEOREM ReferencesStay ==
  ASSUME OneOperator
  PROVE  Spec => []ReferencesResolve
<1>1. IInv => ReferencesResolve
  <2> SUFFICES ASSUME IInv PROVE ReferencesResolve
    OBVIOUS
  <2>0. TablesGood
    BY DEF IInv
  <2>1. /\ \A p \in DOMAIN assets : assets[p] \in files
        /\ \A i \in DOMAIN faqs.items : faqs.items[i].sheet \in DOMAIN faqs.sheets
        /\ \A k \in DOMAIN contents.rows : contents.rows[k].category \in DOMAIN contents.categories
        /\ \A k \in DOMAIN hunting.grounds : hunting.grounds[k].region \in DOMAIN hunting.regions
    BY <2>0 DEF TablesGood, GoodPictures, GoodFaqs, GoodContents, ContentsFit, GoodHunting
  <2>2. /\ \A k \in DOMAIN spend.groups : spend.groups[k].category \in SpendCategories
        /\ \A k \in DOMAIN spend.items :
             /\ spend.items[k].group \in DOMAIN spend.groups
             /\ spend.items[k].tile \in DOMAIN spend.tiles
             /\ FormsKnown(spend, spend.items[k])
    BY <2>0 DEF TablesGood, GoodSpend, ItemsFit, FormsKnown
  <2>3. /\ \A name \in DOMAIN hexa.names : hexa.names[name] \in DOMAIN hexa.kinds
        /\ \A k \in DOMAIN symbols.symbols : symbols.symbols[k].group \in DOMAIN symbols.groups
        /\ \A p \in DOMAIN symbols.costs : p[1] \in DOMAIN symbols.symbols
    BY <2>0 DEF TablesGood, GoodHexa, NamesKnown, GoodSymbols
  <2>4. \A box \in DOMAIN items.boxes :
          {box} \cup DOMAIN Held(items, box) \subseteq DOMAIN items.items
    BY <2>0 DEF TablesGood, GoodItems, BoxesFit, GoodBox, Held
  <2>5. /\ \A p \in DOMAIN bosses.diffs : p[1] \in DOMAIN bosses.rows
        /\ \A key \in DOMAIN bosses.rows : DiffsOf(bosses, key) # {}
        /\ DOMAIN bosses.prices \subseteq DOMAIN bosses.diffs
        /\ \A i \in DOMAIN bosses.drops :
             bosses.drops[i].pair \in DOMAIN bosses.diffs /\ bosses.drops[i].item \in DOMAIN items.items
    BY <2>0 DEF TablesGood, GoodBosses, BossesFit, PricesFit, DropsFit, DiffsOf, KnownItems
  <2> QED
    BY <2>1, <2>2, <2>3, <2>4, <2>5 DEF ReferencesResolve
<1> QED
  BY <1>1, Invariant, PTL

\* There is no gap below a level that has a cost: of hexa kinds, of symbols, of star force.  Of one
\* operator at a time, which the code does not enforce: one may add a step above the step another
\* takes back.
THEOREM CostsWithoutGap ==
  ASSUME OneOperator
  PROVE  Spec => []NoGapInCosts
<1>1. IInv => NoGapInCosts
  <2> SUFFICES ASSUME IInv PROVE NoGapInCosts
    OBVIOUS
  <2>0. TablesGood
    BY DEF IInv
  <2>1. \A k \in DOMAIN hexa.costs : \E n \in 0..hexa.kinds[k].max : hexa.costs[k] = CostLevels(n)
    BY <2>0 DEF TablesGood, GoodHexa, KindsPriced
  <2>2. ASSUME NEW k \in DOMAIN symbols.symbols
        PROVE  \E n \in 1..symbols.groups[symbols.symbols[k].group].max :
                 StandingLevels(symbols, k) = 1..(n - 1)
    <3> DEFINE group == symbols.symbols[k].group
               max == symbols.groups[group].max
    <3>1. group \in DOMAIN symbols.groups /\ CostsWhole(symbols.costs, k, max)
      BY <2>0 DEF TablesGood, GoodSymbols
    <3>2. max \in TopLevels
      BY <2>0, <3>1 DEF TablesGood, GoodSymbols, Ordered, IsTable, SymbolGroupRow
    <3>3. PICK n \in 1..max : \A l \in Levels : <<k, l>> \in DOMAIN symbols.costs <=> l < n
      BY <3>1 DEF CostsWhole
    <3>4. \A p \in DOMAIN symbols.costs : Standing(symbols.costs[p]) # {}
      BY <2>0 DEF TablesGood, GoodSymbols, Chains, Chain
    <3>5. Standing({}) = {}
      BY DEF Standing
    <3>6. \A l \in Levels : l \in StandingLevels(symbols, k) <=> l < n
      BY <3>3, <3>4, <3>5 DEF StandingLevels, RowsOf
    <3>7. n \in 1..3
      BY <3>2, <3>3 DEF TopLevels
    <3>8. StandingLevels(symbols, k) \subseteq Levels
      BY DEF StandingLevels
    <3>9. StandingLevels(symbols, k) = 1..(n - 1)
      <4> DEFINE standing == StandingLevels(symbols, k)
      <4> HIDE DEF standing
      <4>1. \A l : l \in standing <=> l \in Levels /\ l < n
        BY <3>6, <3>8 DEF standing
      <4>2. \A l : l \in 1..(n - 1) <=> l \in Levels /\ l < n
        BY <3>7 DEF Levels
      <4>3. standing = 1..(n - 1)
        BY <4>1, <4>2
      <4> QED
        BY <4>3 DEF standing
    <3> QED
      BY <3>9
  <2>3. \E n \in 0..(MaxStar + 1) : DOMAIN enhancement.stars = 0..(n - 1)
    BY <2>0 DEF TablesGood, GoodEnhancement, StarsWhole
  <2> QED
    BY <2>1, <2>2, <2>3 DEF NoGapInCosts
<1> QED
  BY <1>1, Invariant, PTL

\* On every day from the first price of a thing on, one price is in force and no more.  Of one
\* operator at a time, which the code does not enforce: two may both read the price of now and
\* each put one in its place (crystal-prices.repository.ts).
THEOREM OnePriceADay ==
  ASSUME OneOperator
  PROVE  Spec => []OnePriceInForce
<1>1. IInv => OnePriceInForce
  BY ChainFollows
     DEF IInv, TablesGood, GoodBosses, PricesFit, GoodSymbols, Chains, OnePriceInForce
<1> QED
  BY <1>1, Invariant, PTL

-----------------------------------------------------------------------------
(* The tables of prices implement stacks. *)

PriceStacks == [thing \in Things |-> Starts(PriceRows(thing))]

\* The prices of a kind of things are those of one table.
LEMMA StacksOfTables ==
  /\ Things = ({"crystal"} \X FewKeys \X Difficulties) \cup ({"symbol"} \X FewKeys \X Levels)
  /\ \A thing \in Things :
       /\ thing[1] = "crystal" =>
            PriceStacks[thing] = StartsAt(bosses.prices, <<thing[2], thing[3]>>)
       /\ thing[1] = "symbol" =>
            PriceStacks[thing] = StartsAt(symbols.costs, <<thing[2], thing[3]>>)
BY DEF Things, PriceStacks, PriceRows, PricesOf, RowsOf, StartsAt, RowsAt

\* A thing is told by its kind and the place of its rows in their table.
LEMMA ThingsTold ==
  ASSUME NEW kind, NEW K, NEW thing \in {kind} \X FewKeys \X K, NEW p \in FewKeys \X K,
         <<thing[2], thing[3]>> = p
  PROVE  thing = <<kind, p[1], p[2]>>
OBVIOUS

\* Rows of a chain start on days there are.
LEMMA StartsAreDays ==
  ASSUME NEW t, Chains(t), NEW p
  PROVE  StartsAt(t, p) \subseteq {0} \cup Days
<1>1. Chain(RowsAt(t, p))
  BY RowsAtChain
<1>2. \A x \in RowsAt(t, p) : x.from \in Days \cup {None}
  BY <1>1 DEF Chain, DatedRow
<1> QED
  BY <1>2 DEF StartsAt, Starts, StartOf

\* What may become of the stacks of all things in a step.
StacksStep(all, before, after) ==
  \/ \A t \in all : after[t] = before[t]
  \/ \E day \in {0} \cup Days : \A t \in all :
       \/ after[t] = before[t]
       \/ (\A below \in before[t] : below < day) /\ after[t] = before[t] \cup {day}
  \/ \E t \in all : \E top \in before[t] :
       /\ \A below \in before[t] : below <= top
       /\ after[t] = before[t] \ {top}
       /\ \A other \in all \ {t} : after[other] = before[other]
  \/ \E t \in all : after[t] = {} /\ \A other \in all \ {t} : after[other] = before[other]
  \/ \A t \in all :
       after[t] = before[t] \/ (before[t] = {} /\ after[t] \subseteq {0} \cup Days)

\* Of all things those of one kind have their rows at K in a table, and only that table changes.
IsKind(all, kind, K) ==
  /\ {kind} \X FewKeys \X K \subseteq all
  /\ \A thing \in all : thing[1] = kind => thing \in {kind} \X FewKeys \X K
OnlyKind(all, kind, old, new, before, after) ==
  \A thing \in all :
    IF thing[1] = kind
    THEN /\ before[thing] = StartsAt(old, <<thing[2], thing[3]>>)
         /\ after[thing] = StartsAt(new, <<thing[2], thing[3]>>)
    ELSE after[thing] = before[thing]

\* A move of the table of one kind of things is a step of all stacks.
LEMMA MovesAreSteps ==
  ASSUME NEW kind, NEW K, NEW all, IsKind(all, kind, K),
         NEW old, NEW new, StackMoves(old, new), Chains(new),
         DOMAIN old \subseteq FewKeys \X K, DOMAIN new \subseteq FewKeys \X K,
         NEW before, NEW after, OnlyKind(all, kind, old, new, before, after)
  PROVE  StacksStep(all, before, after)
<1> DEFINE at(t) == <<t[2], t[3]>>
<1>1. \A t \in all : t[1] = kind => at(t) \in FewKeys \X K
  BY DEF IsKind
<1>2. \A p \in FewKeys \X K :
        LET t == <<kind, p[1], p[2]>>
        IN /\ t \in all /\ t[1] = kind /\ at(t) = p
           /\ \A other \in all \ {t} : other[1] = kind => at(other) # p
  <2> TAKE p \in FewKeys \X K
  <2> DEFINE t == <<kind, p[1], p[2]>>
  <2>1. t \in {kind} \X FewKeys \X K /\ t[1] = kind /\ at(t) = p
    OBVIOUS
  <2>2. ASSUME NEW other \in all, other[1] = kind, at(other) = p PROVE other = t
    BY <2>2, ThingsTold DEF IsKind
  <2> QED
    BY <2>1, <2>2 DEF IsKind
<1>3. \A p : p \notin DOMAIN old => StartsAt(old, p) = {}
  BY DEF StartsAt, RowsAt, Starts
<1>4. \A p : p \notin DOMAIN new => StartsAt(new, p) = {}
  BY DEF StartsAt, RowsAt, Starts
<1>5. \A t \in all :
        /\ t[1] = kind => before[t] = StartsAt(old, at(t)) /\ after[t] = StartsAt(new, at(t))
        /\ t[1] # kind => after[t] = before[t]
  BY DEF OnlyKind
<1> HIDE DEF at
<1>6. CASE new = old
  BY <1>5, <1>6 DEF StacksStep
<1>7. CASE Pushed(old, new)
  <2>1. PICK day \in {0} \cup Days : \A p \in DOMAIN old \cup DOMAIN new :
          \/ StartsAt(new, p) = StartsAt(old, p)
          \/ /\ \A below \in StartsAt(old, p) : below < day
             /\ StartsAt(new, p) = StartsAt(old, p) \cup {day}
    BY <1>7 DEF Pushed
  <2>2. \A p :
          \/ StartsAt(new, p) = StartsAt(old, p)
          \/ /\ \A below \in StartsAt(old, p) : below < day
             /\ StartsAt(new, p) = StartsAt(old, p) \cup {day}
    BY <2>1, <1>3, <1>4
  <2>3. \A t \in all :
              \/ after[t] = before[t]
              \/ (\A below \in before[t] : below < day) /\ after[t] = before[t] \cup {day}
    BY <1>5, <2>2
  <2> QED
    BY <2>3 DEF StacksStep
<1>8. CASE Popped(old, new)
  <2>1. PICK p \in DOMAIN old : \E top \in StartsAt(old, p) :
          /\ \A below \in StartsAt(old, p) : below <= top
          /\ StartsAt(new, p) = StartsAt(old, p) \ {top}
          /\ \A other \in (DOMAIN old \cup DOMAIN new) \ {p} :
               StartsAt(new, other) = StartsAt(old, other)
    BY <1>8 DEF Popped
  <2>2. PICK top \in StartsAt(old, p) :
          /\ \A below \in StartsAt(old, p) : below <= top
          /\ StartsAt(new, p) = StartsAt(old, p) \ {top}
          /\ \A other \in (DOMAIN old \cup DOMAIN new) \ {p} :
               StartsAt(new, other) = StartsAt(old, other)
    BY <2>1
  <2>3. \A other : other # p => StartsAt(new, other) = StartsAt(old, other)
    BY <2>2, <1>3, <1>4
  <2> DEFINE t == <<kind, p[1], p[2]>>
  <2>4. /\ t \in all /\ t[1] = kind /\ at(t) = p
        /\ \A other \in all \ {t} : other[1] = kind => at(other) # p
    BY <1>2
  <2> HIDE DEF t
  <2>5. /\ top \in before[t] /\ (\A below \in before[t] : below <= top)
        /\ after[t] = before[t] \ {top}
    BY <1>5, <2>2, <2>4
  <2>6. \A other \in all \ {t} : after[other] = before[other]
    BY <1>5, <2>3, <2>4
  <2> QED
    BY <2>4, <2>5, <2>6 DEF StacksStep
<1>9. CASE Cleared(old, new)
  <2>1. PICK p \in DOMAIN old : new = Without(old, {p})
    BY <1>9 DEF Cleared
  <2>2. /\ StartsAt(new, p) = {}
        /\ \A other : other # p => StartsAt(new, other) = StartsAt(old, other)
    BY <2>1, <1>4 DEF Without, StartsAt, RowsAt
  <2> DEFINE t == <<kind, p[1], p[2]>>
  <2>3. /\ t \in all /\ t[1] = kind /\ at(t) = p
        /\ \A other \in all \ {t} : other[1] = kind => at(other) # p
    BY <1>2
  <2> HIDE DEF t
  <2>4. after[t] = {} /\ \A other \in all \ {t} : after[other] = before[other]
    BY <1>5, <2>2, <2>3
  <2> QED
    BY <2>3, <2>4 DEF StacksStep
<1>10. CASE \A p \in DOMAIN old : old[p] = {}
  <2>1. \A p : StartsAt(old, p) = {}
    BY <1>3, <1>10 DEF StartsAt, RowsAt, Starts
  <2>2. \A p : StartsAt(new, p) \subseteq {0} \cup Days
    BY StartsAreDays
  <2>3. \A t \in all :
          after[t] = before[t] \/ (before[t] = {} /\ after[t] \subseteq {0} \cup Days)
    BY <1>5, <2>1, <2>2
  <2> QED
    BY <2>3 DEF StacksStep
<1> QED
  BY <1>6, <1>7, <1>8, <1>9, <1>10 DEF StackMoves

\* Two instances of one lemma, for crystals and for the levels of symbols.
LEMMA StepOfStacks ==
  ASSUME IInv, IInv', PricesMove
  PROVE  [Stack!Next]_PriceStacks
<1> DEFINE before == PriceStacks
           after == PriceStacks'
<1>1. /\ Things = ({"crystal"} \X FewKeys \X Difficulties) \cup ({"symbol"} \X FewKeys \X Levels)
      /\ DOMAIN before = Things /\ DOMAIN after = Things
  BY DEF Things, PriceStacks
<1>2. \A thing \in Things :
        /\ thing[1] = "crystal" => before[thing] = StartsAt(bosses.prices, <<thing[2], thing[3]>>)
        /\ thing[1] = "symbol" => before[thing] = StartsAt(symbols.costs, <<thing[2], thing[3]>>)
  BY StacksOfTables
<1>3. \A thing \in Things :
        /\ thing[1] = "crystal" => after[thing] = StartsAt(bosses'.prices, <<thing[2], thing[3]>>)
        /\ thing[1] = "symbol" => after[thing] = StartsAt(symbols'.costs, <<thing[2], thing[3]>>)
  BY DEF Things, PriceStacks, PriceRows, PricesOf, RowsOf, StartsAt, RowsAt
<1>4. /\ Chains(bosses'.prices) /\ Chains(symbols'.costs)
      /\ DOMAIN bosses.prices \subseteq FewKeys \X Difficulties
      /\ DOMAIN bosses'.prices \subseteq FewKeys \X Difficulties
      /\ DOMAIN symbols.costs \subseteq FewKeys \X Levels
      /\ DOMAIN symbols'.costs \subseteq FewKeys \X Levels
  <2>1. \A t, known : GoodBosses(t, known) =>
          Chains(t.prices) /\ DOMAIN t.prices \subseteq FewKeys \X Difficulties
    BY DEF GoodBosses, PricesFit, BossesFit, IsTable
  <2>2. \A t : GoodSymbols(t) => Chains(t.costs) /\ DOMAIN t.costs \subseteq FewKeys \X Levels
    <3> SUFFICES ASSUME NEW t, GoodSymbols(t)
                 PROVE  Chains(t.costs) /\ DOMAIN t.costs \subseteq FewKeys \X Levels
      OBVIOUS
    <3>1. DOMAIN t.symbols \subseteq FewKeys /\ DOMAIN t.costs \subseteq (DOMAIN t.symbols) \X Levels
      BY DEF GoodSymbols, OrderedBy, IsTable
    <3> QED
      BY <3>1 DEF GoodSymbols
  <2> QED
    BY <2>1, <2>2 DEF IInv, TablesGood
<1>5. \A thing \in Things :
        /\ thing[1] = "crystal" => thing \in {"crystal"} \X FewKeys \X Difficulties
        /\ thing[1] = "symbol" => thing \in {"symbol"} \X FewKeys \X Levels
        /\ thing[1] \in {"crystal", "symbol"}
  BY <1>1
<1> HIDE DEF before, after
<1>6. StacksStep(Things, before, after)
  <2>1. CASE UNCHANGED <<symbols, bosses>>
    <3>1. \A thing \in Things : after[thing] = before[thing]
      BY <1>2, <1>3, <1>5, <2>1
    <3> QED
      BY <3>1 DEF StacksStep
  <2>2. CASE UNCHANGED symbols /\ StackMoves(bosses.prices, bosses'.prices)
    <3>1. OnlyKind(Things, "crystal", bosses.prices, bosses'.prices, before, after)
      BY <1>2, <1>3, <1>5, <2>2 DEF OnlyKind
    <3>2. IsKind(Things, "crystal", Difficulties)
      BY <1>1, <1>5 DEF IsKind
    <3> QED
      BY <1>4, <2>2, <3>1, <3>2, MovesAreSteps
  <2>3. CASE UNCHANGED bosses /\ StackMoves(symbols.costs, symbols'.costs)
    <3>1. OnlyKind(Things, "symbol", symbols.costs, symbols'.costs, before, after)
      BY <1>2, <1>3, <1>5, <2>3 DEF OnlyKind
    <3>2. IsKind(Things, "symbol", Levels)
      BY <1>1, <1>5 DEF IsKind
    <3> QED
      BY <1>4, <2>3, <3>1, <3>2, MovesAreSteps
  <2> QED
    BY <2>1, <2>2, <2>3 DEF PricesMove
<1>7. (\A t \in Things : after[t] = before[t]) => after = before
  BY <1>1 DEF before, after, PriceStacks
<1>8. StacksStep(Things, before, after) => (after = before \/ Stack!Next)
  BY <1>7 DEF StacksStep, before, after, PriceStacks, Stack!Next, Stack!Push, Stack!Pop, Stack!Clear,
               Stack!Fill, Stack!Same, Stack!AllDays
<1> QED
  BY <1>6, <1>8 DEF before, after

\* The tables of prices implement stacks of which only the top changes (crystal-prices.repository
\* and symbol-costs.repository): the days before the start of the latest price keep what they read.
\* Of one operator at a time, which the code does not enforce.
THEOREM PricesImplementStacks ==
  ASSUME OneOperator
  PROVE  Spec => PricesAreStacks
<1>1. IInv => Stack!Init
  <2> SUFFICES ASSUME IInv PROVE Stack!Init
    OBVIOUS
  <2>1. \A thing \in Things : Starts(PriceRows(thing)) \subseteq {0} \cup Days
    <3>1. Chains(bosses.prices) /\ Chains(symbols.costs)
      BY DEF IInv, TablesGood, GoodBosses, PricesFit, GoodSymbols
    <3>2. \A p : /\ StartsAt(bosses.prices, p) \subseteq {0} \cup Days
                 /\ StartsAt(symbols.costs, p) \subseteq {0} \cup Days
      BY <3>1, StartsAreDays
    <3> QED
      BY <3>2 DEF Things, PriceRows, PricesOf, RowsOf, StartsAt, RowsAt
  <2> QED
    BY <2>1 DEF Stack!Init, Stack!AllDays
<1>2. Init => Stack!Init
  BY <1>1, InitGood
<1>3. IInv /\ IInv' /\ [Next]_vars => [Stack!Next]_PriceStacks
  <2>1. ASSUME IInv, IInv', Next PROVE [Stack!Next]_PriceStacks
    BY <2>1, NextGood, StepOfStacks
  <2>2. ASSUME UNCHANGED vars PROVE PriceStacks' = PriceStacks
    <3>1. UNCHANGED <<symbols, bosses>>
      BY <2>2 DEF vars, tables, grouped, dropped
    <3> QED
      BY <3>1 DEF PriceStacks, PriceRows, PricesOf, RowsOf
  <2> QED
    BY <2>1, <2>2
<1>4. Spec => []IInv
  BY Invariant
<1>5. IInv /\ IInv' /\ [Next]_vars => [Stack!Next]_([thing \in Things |-> Starts(PriceRows(thing))])
  BY <1>3 DEF PriceStacks
<1> QED
  BY <1>2, <1>4, <1>5, PTL DEF Spec, PricesAreStacks, Stack!Spec


-----------------------------------------------------------------------------
(* Seedings.  What a deploy finds it leaves: where it writes, there was     *)
(* nothing, and what refers to rows that are not there is not there either. *)

SeedingNow == \E r \in Requests : call[r] # NoCall /\ Q(r).op \in Seeding

\* While a seeding is at work it is what works.
LEMMA SeedingAlone ==
  ASSUME WorksAlone, SeedingNow, NEW r \in Requests, call[r] # NoCall
  PROVE  call[r].q.op \in Seeding
BY DEF WorksAlone, SeedingNow, Q

LEMMA SameIsKept ==
  /\ \A t : KeepsRows(t, t) /\ KeepsTables(t, t)
  /\ \A x : KeepsValue(x, x)
BY DEF KeepsRows, KeepsTables, KeepsValue

LEMMA JoinKeeps ==
  ASSUME NEW t, NEW u, DOMAIN t \cap DOMAIN u = {}
  PROVE  KeepsRows(t, Join(t, u))
BY DEF KeepsRows, Join

LEMMA EmptyIsKept ==
  ASSUME NEW t, NEW u, DOMAIN t = {}
  PROVE  KeepsRows(t, u)
BY DEF KeepsRows

LEMMA SeededKeeps ==
  ASSUME NEW t, NEW rows, NEW e
  PROVE  KeepsRows(t, Inserted(t, rows, e).now) /\ KeepsRows(t, Seeded(t, t, rows).now)
<1>1. KeepsRows(t, Inserted(t, rows, e).now) /\ KeepsRows(t, Inserted(t, rows, "unique").now)
  BY JoinKeeps, SameIsKept DEF Inserted, Failed, Wrote
<1> QED
  BY <1>1, SameIsKept DEF Seeded, Kept

LEMMA WorldsKept ==
  ASSUME Calls(call, worlds, WorldRequests), WorksAlone, SeedingNow, WorldsNext
  PROVE  KeepsRows(worlds, worlds')
<1>1. PICK r \in Requests :
        AskWorlds(r) \/ CreateWorld(r) \/ UpdateWorld(r) \/ MoveWorld(r) \/ SeedWorlds(r)
  BY DEF WorldsNext
<1>2. CASE AskWorlds(r)
  BY <1>2, SameIsKept DEF AskWorlds
<1>3. CASE CreateWorld(r) \/ UpdateWorld(r) \/ MoveWorld(r)
  BY <1>3, SeedingAlone DEF CreateWorld, UpdateWorld, MoveWorld, Worlds, Asked, Seeding
<1>4. CASE SeedWorlds(r)
  BY <1>4, SeededKeeps DEF SeedWorlds, worldSeed, Worlds, Asked, Calls, Seen
<1> QED
  BY <1>1, <1>2, <1>3, <1>4

LEMMA GradesKept ==
  ASSUME Calls(call, mvpGrades, GradeRequests), WorksAlone, SeedingNow, GradesNext
  PROVE  KeepsRows(mvpGrades, mvpGrades')
<1>1. PICK r \in Requests :
        AskGrades(r) \/ UpdateMvpGrade(r) \/ MoveMvpGrade(r) \/ SeedMvpGrades(r)
  BY DEF GradesNext
<1>2. CASE AskGrades(r)
  BY <1>2, SameIsKept DEF AskGrades
<1>3. CASE UpdateMvpGrade(r) \/ MoveMvpGrade(r)
  BY <1>3, SeedingAlone DEF UpdateMvpGrade, MoveMvpGrade, Grades, Asked, Seeding
<1>4. CASE SeedMvpGrades(r)
  BY <1>4, SeededKeeps DEF SeedMvpGrades, gradeSeed, Grades, Asked, Calls, Seen
<1> QED
  BY <1>1, <1>2, <1>3, <1>4

LEMMA LootKept ==
  ASSUME Calls(call, huntLoot, LootRequests), WorksAlone, SeedingNow, LootNext
  PROVE  KeepsRows(huntLoot, huntLoot')
<1>1. PICK r \in Requests :
        AskLoot(r) \/ CreateHuntLoot(r) \/ UpdateHuntLoot(r) \/ MoveHuntLoot(r) \/ SeedHuntLoot(r)
  BY DEF LootNext
<1>2. CASE AskLoot(r)
  BY <1>2, SameIsKept DEF AskLoot
<1>3. CASE CreateHuntLoot(r) \/ UpdateHuntLoot(r) \/ MoveHuntLoot(r)
  BY <1>3, SeedingAlone DEF CreateHuntLoot, UpdateHuntLoot, MoveHuntLoot, Loot, Asked, Seeding
<1>4. CASE SeedHuntLoot(r)
  BY <1>4, SeededKeeps DEF SeedHuntLoot, lootSeed, Loot, Asked, Calls, Seen
<1> QED
  BY <1>1, <1>2, <1>3, <1>4

LEMMA CashbookKept ==
  ASSUME GoodCashbook(cashbook), Calls(call, cashbook, CashbookRequests), WorksAlone, SeedingNow,
         CashbookNext
  PROVE  KeepsTables(cashbook, cashbook')
<1>1. PICK r \in Requests :
        \/ AskCashbook(r) \/ CreateCashbookCategory(r) \/ UpdateCashbookCategory(r)
        \/ MoveCashbookCategory(r) \/ UpdateCashbookItemKind(r) \/ SeedCashbook(r)
  BY DEF CashbookNext
<1>2. CASE AskCashbook(r)
  BY <1>2, SameIsKept DEF AskCashbook
<1>3. CASE \/ CreateCashbookCategory(r) \/ UpdateCashbookCategory(r)
           \/ MoveCashbookCategory(r) \/ UpdateCashbookItemKind(r)
  BY <1>3, SeedingAlone DEF CreateCashbookCategory, UpdateCashbookCategory, MoveCashbookCategory,
     UpdateCashbookItemKind, Cashbook, Asked, Seeding
<1>4. CASE SeedCashbook(r)
  <2>1. cashbook' = cashbookSeed(cashbook, cashbook).now
    BY <1>4 DEF SeedCashbook, Cashbook, Asked, Calls, Seen
  <2> DEFINE noCategories == DOMAIN cashbook.income \cup DOMAIN cashbook.spend = {}
             noKinds == DOMAIN cashbook.kinds = {}
             fill(t, empty) == IF empty THEN Inserted(t, PlainSeed, "unique") ELSE Kept(t)
             parts == [income |-> fill(cashbook.income, noCategories),
                       spend |-> fill(cashbook.spend, noCategories),
                       kinds |-> fill(cashbook.kinds, noKinds)]
  <2>2. \A t, empty : KeepsRows(t, fill(t, empty).now)
    BY SeededKeeps, SameIsKept DEF Kept
  <2>3. \/ cashbook' = cashbook
        \/ cashbook' = [t \in DOMAIN cashbook |-> parts[t].now]
    BY <2>1 DEF cashbookSeed, Kept, Failed, Wrote
  <2> HIDE DEF fill
  <2>4. \A t \in DOMAIN cashbook : KeepsRows(cashbook[t], parts[t].now)
    BY <2>2 DEF GoodCashbook, CashbookTables
  <2> HIDE DEF parts
  <2>5. CASE cashbook' = [t \in DOMAIN cashbook |-> parts[t].now]
    BY <2>4, <2>5 DEF KeepsTables
  <2> QED
    BY <2>3, <2>5, SameIsKept
<1> QED
  BY <1>1, <1>2, <1>3, <1>4

LEMMA FaqsKept ==
  ASSUME GoodFaqs(faqs), Calls(call, faqs, FaqRequests), WorksAlone, SeedingNow, FaqsNext
  PROVE  KeepsTables(faqs, faqs')
<1>1. PICK r \in Requests :
        \/ AskFaqs(r) \/ CreateFaqSheet(r) \/ UpdateFaqSheet(r) \/ RemoveFaqSheet(r)
        \/ MoveFaqSheet(r) \/ CreateFaqItem(r) \/ UpdateFaqItem(r) \/ RemoveFaqItem(r)
        \/ MoveFaqItem(r) \/ SeedFaqs(r)
  BY DEF FaqsNext
<1>2. CASE AskFaqs(r)
  BY <1>2, SameIsKept DEF AskFaqs
<1>3. CASE \/ CreateFaqSheet(r) \/ UpdateFaqSheet(r) \/ RemoveFaqSheet(r) \/ MoveFaqSheet(r)
           \/ CreateFaqItem(r) \/ UpdateFaqItem(r) \/ RemoveFaqItem(r) \/ MoveFaqItem(r)
  BY <1>3, SeedingAlone DEF CreateFaqSheet, UpdateFaqSheet, RemoveFaqSheet, MoveFaqSheet,
     CreateFaqItem, UpdateFaqItem, RemoveFaqItem, MoveFaqItem, Faqs, Asked, Seeding
<1>4. CASE SeedFaqs(r)
  <2>1. faqs' = faqSeed(faqs, faqs).now
    BY <1>4 DEF SeedFaqs, Faqs, Asked, Calls, Seen
  <2>2. CASE DOMAIN faqs.sheets = {} /\ faqs' # faqs
    <3>1. DOMAIN faqs.items = {} /\ DOMAIN faqs = {"sheets", "items"}
      BY <2>2 DEF GoodFaqs
    <3> QED
      BY <2>2, <3>1 DEF KeepsTables, KeepsRows
  <2> QED
    BY <2>1, <2>2, SameIsKept DEF faqSeed, Kept
<1> QED
  BY <1>1, <1>2, <1>3, <1>4

LEMMA ContentsKept ==
  ASSUME GoodContents(contents), Calls(call, contents, ContentRequests), WorksAlone, SeedingNow,
         ContentsNext
  PROVE  KeepsTables(contents, contents')
<1>1. PICK r \in Requests :
        \/ AskContents(r) \/ UpdateContentCategory(r) \/ MoveContentCategory(r) \/ CreateContent(r)
        \/ UpdateContent(r) \/ MoveContent(r) \/ SeedContents(r)
  BY DEF ContentsNext
<1>2. CASE AskContents(r)
  BY <1>2, SameIsKept DEF AskContents
<1>3. CASE \/ UpdateContentCategory(r) \/ MoveContentCategory(r) \/ CreateContent(r)
           \/ UpdateContent(r) \/ MoveContent(r)
  BY <1>3, SeedingAlone DEF UpdateContentCategory, MoveContentCategory, CreateContent,
     UpdateContent, MoveContent, OnContents, Asked, Seeding
<1>4. CASE SeedContents(r)
  <2>1. contents' = contentSeed(contents, contents).now
    BY <1>4 DEF SeedContents, OnContents, Asked, Calls, Seen
  <2>2. CASE DOMAIN contents.categories = {} /\ contents' # contents
    <3>1. DOMAIN contents.rows = {} /\ DOMAIN contents = {"categories", "rows"}
      BY <2>2 DEF GoodContents, ContentsFit
    <3> QED
      BY <2>2, <3>1 DEF KeepsTables, KeepsRows
  <2> QED
    BY <2>1, <2>2, SameIsKept DEF contentSeed, Kept
<1> QED
  BY <1>1, <1>2, <1>3, <1>4

LEMMA HuntingKept ==
  ASSUME GoodHunting(hunting), Calls(call, hunting, HuntingRequests), WorksAlone, SeedingNow,
         HuntingNext
  PROVE  KeepsTables(hunting, hunting')
<1>1. PICK r \in Requests :
        \/ AskHunting(r) \/ CreateHuntingRegion(r) \/ UpdateHuntingRegion(r) \/ MoveHuntingRegion(r)
        \/ CreateHuntingGround(r) \/ UpdateHuntingGround(r) \/ MoveHuntingGround(r)
        \/ SeedHuntingGrounds(r)
  BY DEF HuntingNext
<1>2. CASE AskHunting(r)
  BY <1>2, SameIsKept DEF AskHunting
<1>3. CASE \/ CreateHuntingRegion(r) \/ UpdateHuntingRegion(r) \/ MoveHuntingRegion(r)
           \/ CreateHuntingGround(r) \/ UpdateHuntingGround(r) \/ MoveHuntingGround(r)
  BY <1>3, SeedingAlone DEF CreateHuntingRegion, UpdateHuntingRegion, MoveHuntingRegion,
     CreateHuntingGround, UpdateHuntingGround, MoveHuntingGround, Hunting, Asked, Seeding
<1>4. CASE SeedHuntingGrounds(r)
  <2>1. hunting' = huntingSeed(hunting, hunting).now
    BY <1>4 DEF SeedHuntingGrounds, Hunting, Asked, Calls, Seen
  <2>2. CASE DOMAIN hunting.regions = {} /\ hunting' # hunting
    <3>1. DOMAIN hunting.grounds = {} /\ DOMAIN hunting = {"regions", "grounds"}
      BY <2>2 DEF GoodHunting
    <3> QED
      BY <2>2, <3>1 DEF KeepsTables, KeepsRows
  <2> QED
    BY <2>1, <2>2, SameIsKept DEF huntingSeed, Kept
<1> QED
  BY <1>1, <1>2, <1>3, <1>4

LEMMA SymbolsKept ==
  ASSUME GoodSymbols(symbols), Calls(call, symbols, SymbolRequests \cup SymbolCostRequests),
         WorksAlone, SeedingNow, NEW asked, SymbolsNext(asked)
  PROVE  KeepsTables(symbols, symbols')
<1>1. PICK r \in Requests :
        \/ AskSymbols(r, asked) \/ CreateSymbolGroup(r) \/ UpdateSymbolGroup(r) \/ CreateSymbol(r)
        \/ UpdateSymbol(r) \/ MoveSymbol(r) \/ AddSymbolCosts(r) \/ RemoveSymbolCost(r)
        \/ SeedSymbolCosts(r)
  BY DEF SymbolsNext
<1>2. CASE AskSymbols(r, asked)
  BY <1>2, SameIsKept DEF AskSymbols
<1>3. CASE \/ CreateSymbolGroup(r) \/ UpdateSymbolGroup(r) \/ CreateSymbol(r) \/ UpdateSymbol(r)
           \/ MoveSymbol(r) \/ AddSymbolCosts(r) \/ RemoveSymbolCost(r)
  BY <1>3, SeedingAlone DEF CreateSymbolGroup, UpdateSymbolGroup, CreateSymbol, UpdateSymbol,
     MoveSymbol, AddSymbolCosts, RemoveSymbolCost, OnSymbols, Asked, Seeding
<1>4. CASE SeedSymbolCosts(r)
  <2>1. symbols' = symbolsSeed(symbols, symbols).now
    BY <1>4 DEF SeedSymbolCosts, OnSymbols, Asked, Calls, Seen
  <2>2. CASE DOMAIN symbols.groups = {} /\ symbols' # symbols
    <3>1. DOMAIN symbols.symbols = {} /\ DOMAIN symbols = {"groups", "symbols", "costs"}
      BY <2>2 DEF GoodSymbols
    <3>2. DOMAIN symbols.costs = {}
      BY <3>1 DEF GoodSymbols
    <3> QED
      BY <2>2, <3>1, <3>2 DEF KeepsTables, KeepsRows
  <2> QED
    BY <2>1, <2>2, SameIsKept DEF symbolsSeed, Kept
<1> QED
  BY <1>1, <1>2, <1>3, <1>4

LEMMA HexaKept ==
  ASSUME KindsFirst(hexa), Calls(call, hexa, KindRequests), WorksAlone, SeedingNow,
         NEW asked, HexaNext(asked)
  PROVE  KeepsTables(hexa, hexa')
<1>1. PICK r \in Requests :
        \/ AskHexa(r, asked) \/ CreateHexaKind(r) \/ UpdateHexaKind(r) \/ ReplaceHexaCosts(r)
        \/ AddHexaNameKind(r) \/ RemoveHexaNameKind(r) \/ CreateHexaJobCore(r)
        \/ UpdateHexaJobCore(r) \/ RemoveHexaJobCore(r) \/ MoveHexaJobCore(r)
        \/ CreateHexaStat(r) \/ UpdateHexaStat(r) \/ SeedHexaMatrix(r)
  BY DEF HexaNext
<1>2. CASE AskHexa(r, asked)
  BY <1>2, SameIsKept DEF AskHexa
<1>3. CASE \/ CreateHexaKind(r) \/ UpdateHexaKind(r) \/ ReplaceHexaCosts(r) \/ AddHexaNameKind(r)
           \/ RemoveHexaNameKind(r) \/ CreateHexaJobCore(r) \/ UpdateHexaJobCore(r)
           \/ RemoveHexaJobCore(r) \/ MoveHexaJobCore(r) \/ CreateHexaStat(r) \/ UpdateHexaStat(r)
  BY <1>3, SeedingAlone DEF CreateHexaKind, UpdateHexaKind, ReplaceHexaCosts, AddHexaNameKind,
     RemoveHexaNameKind, CreateHexaJobCore, UpdateHexaJobCore, RemoveHexaJobCore, MoveHexaJobCore,
     CreateHexaStat, UpdateHexaStat, OnHexa, Asked, Seeding
<1>4. CASE SeedHexaMatrix(r)
  <2>1. hexa' = hexaSeed(hexa, hexa).now
    BY <1>4 DEF SeedHexaMatrix, OnHexa, Asked, Calls, Seen
  <2>2. CASE hexa' = hexa
    BY <2>2, SameIsKept
  <2>3. CASE hexa' # hexa
    <3>1. /\ DOMAIN hexa.kinds = {} /\ 1 \notin DOMAIN hexa.names /\ 1 \notin DOMAIN hexa.stats
          /\ hexa' = HexaReady(hexa)
      BY <2>1, <2>3 DEF hexaSeed, Kept, Failed, Wrote
    <3>2. /\ DOMAIN hexa = {"kinds", "costs", "names", "cores", "stats"}
          /\ DOMAIN hexa.costs = {} /\ DOMAIN hexa.cores = {}
      BY <3>1 DEF KindsFirst, GoodHexa, KindsPriced
    <3>3. KeepsRows(hexa.names, hexa'.names) /\ KeepsRows(hexa.stats, hexa'.stats)
      BY <3>1, JoinKeeps DEF HexaReady, One
    <3> QED
      BY <3>1, <3>2, <3>3, EmptyIsKept DEF KeepsTables
  <2> QED
    BY <2>2, <2>3
<1> QED
  BY <1>1, <1>2, <1>3, <1>4

LEMMA CoresKept ==
  ASSUME Calls(call, hexa, CoreRequests), WorksAlone, SeedingNow, NEW asked, HexaNext(asked)
  PROVE  KeepsTables(hexa, hexa')
<1>1. \A r \in Requests : call[r] = NoCall
  BY SeedingAlone, CoreOps DEF Calls, Seeding
<1> QED
  BY <1>1 DEF SeedingNow

LEMMA ItemsKept ==
  ASSUME GoodItems(items), Calls(call, items, ItemsAsked), WorksAlone, SeedingNow,
         NEW asked, ItemsNext(asked)
  PROVE  KeepsTables(items, items')
<1>1. PICK r \in Requests :
        \/ AskItems(r, asked) \/ CreateDropItem(r) \/ UpdateDropItem(r) \/ SeedDropItems(r)
        \/ CreateEquipment(r) \/ UpdateEquipment(r) \/ SeedEquipment(r) \/ CreateDropBox(r)
        \/ SetDropBoxLevels(r) \/ AddBoxContent(r) \/ RemoveBoxContent(r) \/ MoveBoxContent(r)
        \/ SeedDropBoxes(r)
  BY DEF ItemsNext
<1>2. CASE AskItems(r, asked)
  BY <1>2, SameIsKept DEF AskItems
<1>3. CASE \/ CreateDropItem(r) \/ UpdateDropItem(r) \/ CreateEquipment(r) \/ UpdateEquipment(r)
           \/ CreateDropBox(r) \/ SetDropBoxLevels(r) \/ AddBoxContent(r) \/ RemoveBoxContent(r)
           \/ MoveBoxContent(r)
  BY <1>3, SeedingAlone DEF CreateDropItem, UpdateDropItem, CreateEquipment, UpdateEquipment,
     CreateDropBox, SetDropBoxLevels, AddBoxContent, RemoveBoxContent, MoveBoxContent, OnItems,
     Asked, Seeding
<1>4. ASSUME NEW t, t \in DOMAIN items, NEW out, KeepsRows(items[t], out.now),
             items' = In(items, t, out).now
      PROVE  KeepsTables(items, items')
  <2>1. items' = [items EXCEPT ![t] = out.now]
    BY <1>4 DEF In
  <2> QED
    BY <1>4, <2>1, SameIsKept DEF KeepsTables
<1>5. DOMAIN items = {"items", "boxes", "equipment"}
  BY DEF GoodItems
<1>6. CASE SeedDropItems(r)
  BY <1>4, <1>5, <1>6, SeededKeeps DEF SeedDropItems, OnItems, Asked, Calls, Seen
<1>7. CASE SeedEquipment(r)
  BY <1>4, <1>5, <1>7, SeededKeeps DEF SeedEquipment, OnItems, Asked, Calls, Seen
<1>8. CASE SeedDropBoxes(r)
  <2>1. items' = boxesSeed(items, items).now
    BY <1>8 DEF SeedDropBoxes, OnItems, Asked, Calls, Seen
  <2> DEFINE rows == One(1, [text |-> 1, contents |-> One(2, [order |-> 0])])
             out == Inserted(items.boxes, rows, "unique")
  <2>2. items' = items \/ items' = In(items, "boxes", out).now
    BY <2>1 DEF boxesSeed, Kept, Failed
  <2>3. KeepsRows(items.boxes, out.now)
    BY SeededKeeps
  <2> HIDE DEF out
  <2> QED
    BY <1>4, <1>5, <2>2, <2>3, SameIsKept
<1> QED
  BY <1>1, <1>2, <1>3, <1>6, <1>7, <1>8

\* What a seeding keeps of the sections that have values beside their rows.
SpendStays(old, new) ==
  /\ \A t \in {"forms", "groups", "tiles", "items"} : KeepsRows(old[t], new[t])
  /\ KeepsValue(old.rules, new.rules)

EnhancementStays(old, new) ==
  /\ KeepsRows(old.bands, new.bands) /\ KeepsRows(old.stars, new.stars)
  /\ KeepsValue(old.rules, new.rules) /\ KeepsValue(old.soul, new.soul)

BossesStay(old, new) ==
  /\ \A t \in {"rows", "drops", "manual"} : KeepsRows(old[t], new[t])
  /\ \A p \in DOMAIN old.prices : old.prices[p] \subseteq PricesOf(new, p)
  /\ \A f \in DOMAIN old.rules : KeepsValue(old.rules[f], new.rules[f])
  /\ \A p \in DOMAIN old.diffs :
       KeepsValue(old.diffs[p].party, new.diffs[p].party) /\ new.diffs[p].level = old.diffs[p].level

LEMMA SameStays ==
  \A t : SpendStays(t, t) /\ EnhancementStays(t, t) /\ BossesStay(t, t)
BY SameIsKept DEF SpendStays, EnhancementStays, BossesStay, PricesOf

LEMMA SpendKept ==
  ASSUME GoodSpend(spend, SpendCategories), Calls(call, spend, SpendAsked), WorksAlone, SeedingNow,
         NEW asked, SpendNext(asked)
  PROVE  SpendStays(spend, spend')
<1>0. DOMAIN spend = {"rules", "forms", "groups", "tiles", "items"}
  BY DEF GoodSpend
<1>1. PICK r \in Requests :
        \/ AskSpend(r, asked) \/ SetSpendRules(r) \/ CreateSpendGroup(r) \/ UpdateSpendGroup(r)
        \/ MoveSpendGroup(r) \/ UpdateSpendForm(r) \/ CreateSpendTile(r) \/ UpdateSpendTile(r)
        \/ CreateSpendItem(r) \/ UpdateSpendItem(r) \/ MoveSpendItem(r)
        \/ SeedSpendRules(r) \/ SeedSpendRows(r)
  BY DEF SpendNext
<1>2. CASE AskSpend(r, asked)
  BY <1>2, SameStays DEF AskSpend
<1>3. CASE \/ SetSpendRules(r) \/ CreateSpendGroup(r) \/ UpdateSpendGroup(r) \/ MoveSpendGroup(r)
           \/ UpdateSpendForm(r) \/ CreateSpendTile(r) \/ UpdateSpendTile(r)
           \/ CreateSpendItem(r) \/ UpdateSpendItem(r) \/ MoveSpendItem(r)
  BY <1>3, SeedingAlone DEF SetSpendRules, CreateSpendGroup, UpdateSpendGroup, MoveSpendGroup,
     UpdateSpendForm, CreateSpendTile, UpdateSpendTile, CreateSpendItem, UpdateSpendItem,
     MoveSpendItem, Spending, Asked, Seeding
<1>4. CASE SeedSpendRules(r)
  <2>1. /\ spend'.rules = IF spend.rules = None THEN 1 ELSE spend.rules
        /\ \A t \in {"forms", "groups", "tiles", "items"} : spend'[t] = spend[t]
    BY <1>0, <1>4 DEF SeedSpendRules
  <2> QED
    BY <2>1, SameIsKept DEF SpendStays, KeepsValue
<1>5. CASE SeedSpendRows(r)
  <2>1. spend' = spendSeed(spend, spend).now
    BY <1>5 DEF SeedSpendRows, Spending, Asked, Calls, Seen
  <2>2. CASE spend' = spend
    BY <2>2, SameStays
  <2>3. CASE spend' # spend
    <3> DEFINE forms == IF DOMAIN spend.forms = {} THEN One(1, 1) ELSE spend.forms
    <3>1. /\ DOMAIN spend.groups = {} /\ DOMAIN spend.tiles = {} /\ DOMAIN spend.items = {}
          /\ spend' = [SpendReady(SeedKeys) EXCEPT !.rules = spend.rules, !.forms = forms]
      BY <2>1, <2>3 DEF spendSeed, Kept, Failed, Wrote
    <3>2. spend'.rules = spend.rules /\ spend'.forms = forms
      BY <3>1 DEF SpendReady
    <3>3. KeepsRows(spend.forms, forms)
      BY EmptyIsKept, SameIsKept
    <3> QED
      BY <3>1, <3>2, <3>3, EmptyIsKept, SameIsKept DEF SpendStays
  <2> QED
    BY <2>2, <2>3
<1> QED
  BY <1>1, <1>2, <1>3, <1>4, <1>5

LEMMA EnhancementKept ==
  ASSUME GoodEnhancement(enhancement), WorksAlone, SeedingNow, EnhancementNext,
         Calls(call, enhancement, EnhancementAsked(enhancement))
  PROVE  EnhancementStays(enhancement, enhancement')
<1>0. DOMAIN enhancement = {"rules", "bands", "soul", "stars"}
  BY DEF GoodEnhancement
<1>1. PICK r \in Requests :
        \/ AskEnhancement(r) \/ SetEnhancementRules(r) \/ SetPotentialResetCost(r)
        \/ AddPotentialResetBand(r) \/ RemovePotentialResetBand(r) \/ SetSoulPotentialResetCost(r)
        \/ SetStarforceStep(r) \/ AddStarforceStep(r) \/ RemoveLastStarforceStep(r)
        \/ SeedEnhancementRules(r) \/ SeedEnhancementCosts(r)
  BY DEF EnhancementNext
<1>2. CASE AskEnhancement(r)
  BY <1>2, SameStays DEF AskEnhancement
<1>3. CASE \/ SetEnhancementRules(r) \/ SetPotentialResetCost(r)
           \/ AddPotentialResetBand(r) \/ RemovePotentialResetBand(r)
           \/ SetSoulPotentialResetCost(r) \/ SetStarforceStep(r) \/ AddStarforceStep(r)
           \/ RemoveLastStarforceStep(r)
  BY <1>3, SeedingAlone DEF SetEnhancementRules, SetPotentialResetCost, AddPotentialResetBand,
     RemovePotentialResetBand, SetSoulPotentialResetCost, SetStarforceStep, AddStarforceStep,
     RemoveLastStarforceStep, OnEnhancement, Asked, Seeding
<1>4. CASE SeedEnhancementRules(r)
  <2>1. enhancement' = IF enhancement.rules = None THEN [enhancement EXCEPT !.rules = 1]
                       ELSE enhancement
    BY <1>4 DEF SeedEnhancementRules, rulesSeed, Kept
  <2>2. CASE enhancement' = enhancement
    BY <2>2, SameStays
  <2>3. CASE enhancement' # enhancement
    BY <1>0, <2>1, <2>3, SameIsKept DEF EnhancementStays, KeepsValue
  <2> QED
    BY <2>2, <2>3
<1>5. CASE SeedEnhancementCosts(r)
  <2>1. enhancement' = costsSeed(enhancement, enhancement).now
    BY <1>5 DEF SeedEnhancementCosts, OnEnhancement, Asked, Calls, Seen
  <2>2. CASE enhancement' = enhancement
    BY <2>2, SameStays
  <2>3. CASE enhancement' # enhancement
    <3>1. /\ DOMAIN enhancement.bands = {} /\ DOMAIN enhancement.stars = {}
          /\ enhancement.soul = None /\ enhancement'.rules = enhancement.rules
      BY <1>0, <2>1, <2>3 DEF costsSeed, Kept, Failed, Wrote
    <3> QED
      BY <3>1, EmptyIsKept, SameIsKept DEF EnhancementStays, KeepsValue
  <2> QED
    BY <2>2, <2>3
<1> QED
  BY <1>1, <1>2, <1>3, <1>4, <1>5

\* Difficulties come with their boss and drops with their difficulty, so a boss that is new has none.
LEMMA BossesKept ==
  ASSUME GoodBosses(bosses, KnownItems), BossCalls(call, bosses), WorksAlone, SeedingNow,
         NEW asked, BossesNext(asked)
  PROVE  BossesStay(bosses, bosses')
<1>0. /\ DOMAIN bosses = {"rules", "rows", "diffs", "drops", "prices", "manual"}
      /\ DOMAIN bosses.rules = {"limit", "party"}
  BY DEF GoodBosses
<1>1. PICK r \in Requests :
        \/ AskBosses(r, asked) \/ CreateBoss(r) \/ SetBossPeriod(r) \/ SetBossAlias(r)
        \/ SetDifficultyPeriod(r) \/ SetMaxPartySize(r) \/ UpsertDifficulty(r) \/ DeleteDifficulty(r)
        \/ CreateBossDrop(r) \/ UpdateBossDrop(r) \/ DeleteBossDrop(r) \/ MoveBossDrop(r)
        \/ SeedBossDrops(r) \/ AddCrystalPrice(r) \/ RemoveCrystalPrice(r) \/ OpenBoss(r)
        \/ CloseBoss(r) \/ SetRule(r) \/ SeedBosses(r) \/ SeedNextBoss(r) \/ SeedPartySizes(r)
        \/ SeedPrices(r)
  BY DEF BossesNext
<1>2. CASE AskBosses(r, asked)
  BY <1>2, SameStays DEF AskBosses
<1>3. CASE \/ CreateBoss(r) \/ SetBossPeriod(r) \/ SetBossAlias(r) \/ SetDifficultyPeriod(r)
           \/ SetMaxPartySize(r) \/ UpsertDifficulty(r) \/ DeleteDifficulty(r)
           \/ CreateBossDrop(r) \/ UpdateBossDrop(r) \/ DeleteBossDrop(r) \/ MoveBossDrop(r)
           \/ AddCrystalPrice(r) \/ RemoveCrystalPrice(r) \/ OpenBoss(r) \/ CloseBoss(r)
           \/ SetRule(r)
  BY <1>3, SeedingAlone DEF CreateBoss, SetBossPeriod, SetBossAlias, SetDifficultyPeriod,
     SetMaxPartySize, UpsertDifficulty, DeleteDifficulty, CreateBossDrop, UpdateBossDrop,
     DeleteBossDrop, MoveBossDrop, AddCrystalPrice, RemoveCrystalPrice, OpenBoss, CloseBoss, SetRule,
     OnBosses, Asked, Seeding
<1>4. CASE SeedBosses(r)
  BY <1>4, SameStays DEF SeedBosses, OnBosses, GoesOn, Kept
<1>5. CASE SeedBossDrops(r)
  <2>1. call[r] # NoCall /\ call[r].q.op = "seedBossDrops"
    BY <1>5 DEF SeedBossDrops, OnBosses, Asked
  <2>2. Seen(r) = bosses
    BY <2>1, LaterOps DEF BossCalls, Seen
  <2> DEFINE rows == [k \in SeedKeys |-> [pair |-> <<k, 1>>, item |-> 1, from |-> None,
                                          text |-> 1, order |-> 0]]
             out == Inserted(bosses.drops, rows, "unique")
  <2>3. bosses' = bosses \/ bosses' = In(bosses, "drops", out).now
    BY <1>5, <2>2 DEF SeedBossDrops, OnBosses, dropsSeed, Kept, Failed
  <2>4. KeepsRows(bosses.drops, out.now)
    BY SeededKeeps
  <2> HIDE DEF out
  <2>5. CASE bosses' = In(bosses, "drops", out).now
    <3>1. /\ bosses'.drops = out.now
          /\ \A t \in DOMAIN bosses \ {"drops"} : bosses'[t] = bosses[t]
      BY <1>0, <2>5 DEF In
    <3>2. /\ bosses'.rules = bosses.rules /\ bosses'.rows = bosses.rows
          /\ bosses'.diffs = bosses.diffs /\ bosses'.prices = bosses.prices
          /\ bosses'.manual = bosses.manual
      BY <1>0, <3>1
    <3> QED
      BY <2>4, <3>1, <3>2, SameIsKept DEF BossesStay, PricesOf
  <2> QED
    BY <2>3, <2>5, SameStays
<1>6. CASE SeedNextBoss(r)
  <2> DEFINE key == Q(r).key
             row == [SeedBoss(key) EXCEPT !.order = NextOrder(bosses.rows, DOMAIN bosses.rows)]
             new == [p \in {key} \X Difficulties |-> NewDifficulty(1)]
  <2>1. bosses' = bossCreate(bosses, key, SeedBoss(key), Difficulties, 1).now
    BY <1>6 DEF SeedNextBoss, GoesOn, OnBosses
  <2>2. \/ bosses' = bosses
        \/ /\ key \notin DOMAIN bosses.rows
           /\ bosses' = [bosses EXCEPT !.rows = Join(bosses.rows, One(key, row)),
                                       !.diffs = Join(bosses.diffs, new)]
    BY <2>1 DEF bossCreate, Failed, Wrote
  <2> HIDE DEF key, row, new
  <2>3. CASE /\ key \notin DOMAIN bosses.rows
             /\ bosses' = [bosses EXCEPT !.rows = Join(bosses.rows, One(key, row)),
                                         !.diffs = Join(bosses.diffs, new)]
    <3>1. /\ bosses'.rules = bosses.rules /\ bosses'.rows = Join(bosses.rows, One(key, row))
          /\ bosses'.diffs = Join(bosses.diffs, new) /\ bosses'.prices = bosses.prices
          /\ bosses'.manual = bosses.manual /\ bosses'.drops = bosses.drops
      BY <1>0, <2>3
    <3>2. KeepsRows(bosses.rows, Join(bosses.rows, One(key, row)))
      BY <2>3, JoinKeeps DEF One
    <3>3. DOMAIN bosses.diffs \cap DOMAIN new = {}
      BY <2>3 DEF new, GoodBosses, BossesFit
    <3>4. \A p \in DOMAIN bosses.diffs : bosses'.diffs[p] = bosses.diffs[p]
      BY <3>1, <3>3, JoinKeeps DEF KeepsRows
    <3> QED
      BY <3>1, <3>2, <3>4, SameIsKept DEF BossesStay, PricesOf
  <2> QED
    BY <2>2, <2>3, SameStays
<1>7. CASE SeedPartySizes(r)
  <2>1. bosses' = bosses \/ bosses' = partySeed(bosses).now
    BY <1>7 DEF SeedPartySizes, OnBosses, GoesOn, Failed
  <2>2. CASE bosses' = partySeed(bosses).now
    <3>1. /\ bosses'.rows = bosses.rows /\ bosses'.drops = bosses.drops
          /\ bosses'.manual = bosses.manual /\ bosses'.prices = bosses.prices
          /\ bosses'.diffs = [p \in DOMAIN bosses.diffs |->
                                IF p \in SeedKeys \X {1} /\ bosses.diffs[p].party = None
                                THEN [bosses.diffs[p] EXCEPT !.party = 1] ELSE bosses.diffs[p]]
          /\ bosses'.rules = [bosses.rules EXCEPT !["party"] =
                                IF bosses.rules["party"] = None THEN 1 ELSE bosses.rules["party"]]
      BY <1>0, <2>2 DEF partySeed
    <3>2. \A p \in DOMAIN bosses.diffs : {"level", "party"} \subseteq DOMAIN bosses.diffs[p]
      BY DEF GoodBosses, BossesFit, IsTable, DifficultyRow
    <3>3. \A p \in DOMAIN bosses.diffs :
            /\ KeepsValue(bosses.diffs[p].party, bosses'.diffs[p].party)
            /\ bosses'.diffs[p].level = bosses.diffs[p].level
      BY <3>1, <3>2 DEF KeepsValue
    <3>4. \A f \in DOMAIN bosses.rules : KeepsValue(bosses.rules[f], bosses'.rules[f])
      BY <1>0, <3>1 DEF KeepsValue
    <3> QED
      BY <3>1, <3>3, <3>4, SameIsKept DEF BossesStay, PricesOf
  <2> QED
    BY <2>1, <2>2, SameStays
<1>8. CASE SeedPrices(r)
  <2> DEFINE first == [p \in SeedKeys \X {1} |-> {Row(None, 1), Row(1, None)}]
  <2>1. \/ bosses' = bosses
        \/ /\ \A p \in DOMAIN bosses.prices : bosses.prices[p] = {}
           /\ bosses' = [bosses EXCEPT !.prices = Join(bosses.prices, first)]
    BY <1>8 DEF SeedPrices, OnBosses, pricesSeed, Kept, Failed, Wrote
  <2> HIDE DEF first
  <2>2. CASE /\ \A p \in DOMAIN bosses.prices : bosses.prices[p] = {}
             /\ bosses' = [bosses EXCEPT !.prices = Join(bosses.prices, first)]
    <3>1. /\ bosses'.rules = bosses.rules /\ bosses'.rows = bosses.rows
          /\ bosses'.diffs = bosses.diffs /\ bosses'.drops = bosses.drops
          /\ bosses'.manual = bosses.manual
      BY <1>0, <2>2
    <3> QED
      BY <2>2, <3>1, SameIsKept DEF BossesStay
  <2> QED
    BY <2>1, <2>2, SameStays
<1> QED
  BY <1>1, <1>2, <1>3, <1>4, <1>5, <1>6, <1>7, <1>8

LEMMA ManualKept ==
  ASSUME ManualCalls(call)
  PROVE  ~SeedingNow
BY ManualOps DEF ManualCalls, SeedingNow, Seeding, Q

LEMMA PicturesKept ==
  ASSUME PictureCalls(call, files)
  PROVE  ~SeedingNow
<1>1. \A q \in PictureRequests : q.op \in {"putFile", "putCrop", "removeCrop"}
  BY DEF PictureRequests
<1> QED
  BY <1>1 DEF PictureCalls, SeedingNow, Seeding, Q

RowsStay ==
  /\ KeepsRows(worlds, worlds') /\ KeepsRows(mvpGrades, mvpGrades') /\ KeepsRows(huntLoot, huntLoot')
  /\ KeepsTables(cashbook, cashbook') /\ KeepsTables(faqs, faqs')
  /\ KeepsTables(contents, contents') /\ KeepsTables(hunting, hunting')
  /\ KeepsTables(hexa, hexa') /\ KeepsTables(symbols, symbols') /\ KeepsTables(items, items')
  /\ SpendStays(spend, spend') /\ EnhancementStays(enhancement, enhancement')
  /\ BossesStay(bosses, bosses')

LEMMA UnchangedStays ==
  ASSUME UNCHANGED <<plain, grouped, dropped>>
  PROVE  RowsStay
<1>1. /\ UNCHANGED <<worlds, mvpGrades, huntLoot, cashbook, faqs>>
      /\ UNCHANGED <<contents, hunting, spend, hexa, symbols, enhancement, items, bosses>>
  BY DEF plain, grouped, dropped
<1> QED
  BY <1>1, SameIsKept, SameStays DEF RowsStay

LEMMA PlainStays ==
  ASSUME OneOperator, IInv, SeedingNow, InPlain, UNCHANGED <<grouped, dropped>>
  PROVE  RowsStay
<1>0. TablesGood /\ PlainCalls /\ (scene \notin {"manual", "pictures"} => WorksAlone)
  BY AloneThere DEF IInv
<1>1. UNCHANGED <<contents, hunting, spend, hexa, symbols, enhancement, items, bosses>>
  BY DEF grouped, dropped
<1>2. scene # "pictures"
  BY <1>0, PicturesKept DEF PlainCalls
<1>3. CASE scene = "worlds"
  BY <1>0, <1>1, <1>3, WorldsKept, SameIsKept, SameStays
     DEF InPlain, InWorlds, TablesGood, PlainCalls, RowsStay
<1>4. CASE scene = "mvpGrades"
  BY <1>0, <1>1, <1>4, GradesKept, SameIsKept, SameStays
     DEF InPlain, InGrades, TablesGood, PlainCalls, RowsStay
<1>5. CASE scene = "huntLoot"
  BY <1>0, <1>1, <1>5, LootKept, SameIsKept, SameStays
     DEF InPlain, InLoot, TablesGood, PlainCalls, RowsStay
<1>6. CASE scene = "cashbook"
  BY <1>0, <1>1, <1>6, CashbookKept, SameIsKept, SameStays
     DEF InPlain, InCashbook, TablesGood, PlainCalls, RowsStay
<1>7. CASE scene = "faqs"
  BY <1>0, <1>1, <1>7, FaqsKept, SameIsKept, SameStays
     DEF InPlain, InFaqs, TablesGood, PlainCalls, RowsStay
<1> QED
  BY <1>2, <1>3, <1>4, <1>5, <1>6, <1>7 DEF InPlain

LEMMA GroupedStays ==
  ASSUME OneOperator, IInv, SeedingNow, InGrouped, UNCHANGED <<plain, dropped>>
  PROVE  RowsStay
<1>0. TablesGood /\ GroupedCalls /\ (scene \notin {"manual", "pictures"} => WorksAlone)
  BY AloneThere DEF IInv
<1>1. UNCHANGED <<worlds, mvpGrades, huntLoot, cashbook, faqs, items, bosses>>
  BY DEF plain, dropped
<1>2. CASE scene = "contents"
  BY <1>0, <1>1, <1>2, ContentsKept, SameIsKept, SameStays
     DEF InGrouped, InContents, TablesGood, GroupedCalls, RowsStay
<1>3. CASE scene = "hunting"
  BY <1>0, <1>1, <1>3, HuntingKept, SameIsKept, SameStays
     DEF InGrouped, InHunting, TablesGood, GroupedCalls, RowsStay
<1>4. CASE scene \in {"spend", "spendItems"}
  BY <1>0, <1>1, <1>4, SpendKept, SameIsKept, SameStays
     DEF InGrouped, InSpend, TablesGood, GroupedCalls, RowsStay
<1>5. CASE scene = "hexa"
  BY <1>0, <1>1, <1>5, HexaKept, SameIsKept, SameStays
     DEF InGrouped, InHexa, TablesGood, GroupedCalls, RowsStay
<1>6. CASE scene = "hexaCores"
  BY <1>0, <1>1, <1>6, CoresKept, SameIsKept, SameStays
     DEF InGrouped, InHexa, TablesGood, GroupedCalls, RowsStay
<1>7. CASE scene \in {"symbols", "symbolCosts"}
  BY <1>0, <1>1, <1>7, SymbolsKept, SameIsKept, SameStays
     DEF InGrouped, InSymbols, TablesGood, GroupedCalls, RowsStay
<1>8. CASE scene = "enhancement"
  BY <1>0, <1>1, <1>8, EnhancementKept, SameIsKept, SameStays
     DEF InGrouped, InEnhancement, TablesGood, GroupedCalls, RowsStay
<1> QED
  BY <1>2, <1>3, <1>4, <1>5, <1>6, <1>7, <1>8 DEF InGrouped

LEMMA DroppedStays ==
  ASSUME OneOperator, IInv, SeedingNow, InDropped, UNCHANGED <<plain, grouped>>
  PROVE  RowsStay
<1>0. TablesGood /\ DroppedCalls /\ (scene \notin {"manual", "pictures"} => WorksAlone)
  BY AloneThere DEF IInv
<1>1. /\ UNCHANGED <<worlds, mvpGrades, huntLoot, cashbook, faqs>>
      /\ UNCHANGED <<contents, hunting, spend, hexa, symbols, enhancement>>
  BY DEF plain, grouped
<1>2. scene # "manual"
  BY <1>0, ManualKept DEF DroppedCalls
<1>3. CASE scene \in {"items", "boxes"}
  <2>1. PICK asked \in {ItemRequests, BoxRequests} : InItems(asked)
    BY <1>3 DEF InDropped
  <2> QED
    BY <1>0, <1>1, <1>3, <2>1, ItemsKept, SameIsKept, SameStays
       DEF InItems, TablesGood, DroppedCalls, RowsStay
<1>4. CASE scene \in {"bosses", "difficulties", "prices", "drops"}
  <2>1. PICK asked \in {BossRequests, DifficultyRequests, PriceRequests, DropRequests} :
          BossesNext(asked)
    BY <1>4 DEF InDropped
  <2>2. asked \in SUBSET BossesAsked
    BY <2>1 DEF BossesAsked
  <2>3. UNCHANGED items
    BY <1>0, <1>4, <2>1, <2>2, BossesNextGood DEF TablesGood, DroppedCalls
  <2> QED
    BY <1>0, <1>1, <1>4, <2>1, <2>3, BossesKept, SameIsKept, SameStays
       DEF TablesGood, DroppedCalls, RowsStay
<1> QED
  BY <1>2, <1>3, <1>4 DEF InDropped

\* Deploying again keeps every row an administrator may have written (the seed* functions of
\* src/src/cli/seed-game-data.ts): a seeding adds rows to tables it found empty and fills values
\* nobody has set.  That no operator comes between what it has read and what it writes is assumed
\* (OneOperator); the code does not enforce it.
THEOREM SeedingsKeepRows ==
  ASSUME OneOperator
  PROVE  Spec => SeedingKeepsRows
<1>1. IInv /\ [Next]_vars => (SeedingNow => RowsStay)
  <2>1. ASSUME IInv, SeedingNow, Next PROVE RowsStay
    BY <2>1, PlainStays, GroupedStays, DroppedStays, UnchangedStays DEF Next
  <2>2. ASSUME UNCHANGED vars PROVE RowsStay
    BY <2>2, UnchangedStays DEF vars, tables
  <2> QED
    BY <2>1, <2>2
<1>2. Spec => []IInv
  BY Invariant
<1>3. IInv /\ [Next]_vars => [SeedingNow => RowsStay]_vars
  BY <1>1
<1>4. Spec => [][SeedingNow => RowsStay]_vars
  BY <1>2, <1>3, PTL DEF Spec
<1>5. (SeedingNow => RowsStay) =>
        ((\E r \in Requests : call[r] # NoCall /\ Q(r).op \in Seeding) =>
           /\ KeepsRows(worlds, worlds') /\ KeepsRows(mvpGrades, mvpGrades')
           /\ KeepsRows(huntLoot, huntLoot')
           /\ KeepsTables(cashbook, cashbook') /\ KeepsTables(faqs, faqs')
           /\ KeepsTables(contents, contents') /\ KeepsTables(hunting, hunting')
           /\ KeepsTables(hexa, hexa') /\ KeepsTables(symbols, symbols') /\ KeepsTables(items, items')
           /\ \A t \in {"forms", "groups", "tiles", "items"} : KeepsRows(spend[t], spend'[t])
           /\ KeepsValue(spend.rules, spend.rules')
           /\ KeepsRows(enhancement.bands, enhancement.bands')
           /\ KeepsRows(enhancement.stars, enhancement.stars')
           /\ KeepsValue(enhancement.rules, enhancement.rules')
           /\ KeepsValue(enhancement.soul, enhancement.soul')
           /\ \A t \in {"rows", "drops", "manual"} : KeepsRows(bosses[t], bosses'[t])
           /\ \A p \in DOMAIN bosses.prices : bosses.prices[p] \subseteq PricesOf(bosses, p)'
           /\ \A f \in DOMAIN bosses.rules : KeepsValue(bosses.rules[f], bosses.rules'[f])
           /\ \A p \in DOMAIN bosses.diffs :
                /\ KeepsValue(bosses.diffs[p].party, bosses.diffs'[p].party)
                /\ bosses.diffs'[p].level = bosses.diffs[p].level)
  BY DEF SeedingNow, RowsStay, SpendStays, EnhancementStays, BossesStay, PricesOf
<1> QED
  BY <1>4, <1>5, PTL DEF SeedingKeepsRows

-----------------------------------------------------------------------------
(* The time of a section.  A transaction that does not move it leaves what  *)
(* there was.                                                               *)

Honest(now, out) == IsOut(out) /\ (out.touched \/ out.now = now)

SameTables(old, new) == DOMAIN new = DOMAIN old /\ \A t \in DOMAIN old : new[t] = old[t]
HonestOf(now, out) == IsOut(out) /\ (out.touched \/ SameTables(now, out.now))

LEMMA OutsAreHonest ==
  ASSUME NEW now, NEW e
  PROVE  /\ \A new : Honest(now, Wrote(new)) /\ HonestOf(now, Wrote(new))
         /\ Honest(now, Kept(now)) /\ Honest(now, Failed(now, e)) /\ Honest(now, Unknown(now))
         /\ HonestOf(now, Kept(now)) /\ HonestOf(now, Failed(now, e)) /\ HonestOf(now, Unknown(now))
BY DEF Honest, HonestOf, SameTables, IsOut, Wrote, Kept, Failed, Unknown

LEMMA WritesAreHonest ==
  ASSUME NEW now
  PROVE  /\ \A rows, e : Honest(now, Inserted(now, rows, e))
         /\ \A seen, S, k, dir : Honest(now, Moved(seen, now, S, k, dir))
         /\ \A seen, rows : Honest(now, Seeded(seen, now, rows))
<1>1. \A rows, e : Honest(now, Inserted(now, rows, e))
  BY OutsAreHonest DEF Inserted
<1>2. ASSUME NEW seen, NEW S, NEW k, NEW dir
      PROVE  Honest(now, Moved(seen, now, S, k, dir))
  <2> DEFINE other == CHOOSE n \in Neighbours(seen, S, k, dir) : TRUE
             order(x) == IF x = k THEN seen[other].order ELSE seen[k].order
             new == [x \in DOMAIN now |->
                       IF x \in {k, other} THEN [now[x] EXCEPT !.order = order(x)] ELSE now[x]]
             out == Moved(seen, now, S, k, dir)
  <2>1. out = Unknown(now) \/ out = Kept(now) \/ out = Wrote(new)
    BY DEF Moved
  <2> HIDE DEF out, new
  <2> QED
    BY <2>1, OutsAreHonest DEF out
<1>3. \A seen, rows : Honest(now, Seeded(seen, now, rows))
  BY <1>1, OutsAreHonest DEF Seeded
<1> QED
  BY <1>1, <1>2, <1>3

\* So does one on one of several tables.
LEMMA InIsHonest ==
  ASSUME NEW now, NEW t, NEW out, Honest(now[t], out)
  PROVE  HonestOf(now, In(now, t, out))
<1> DEFINE new == [now EXCEPT ![t] = out.now]
<1>1. /\ IsOut(In(now, t, out)) /\ In(now, t, out).touched = out.touched
      /\ In(now, t, out).now = new
  BY DEF Honest, In, IsOut
<1>2. out.now = now[t] => SameTables(now, new)
  BY DEF SameTables
<1> QED
  BY <1>1, <1>2 DEF Honest, HonestOf

LEMMA PicturedIsHonest ==
  ASSUME NEW r, NEW text, NEW now, NEW out
  PROVE  /\ Honest(now, out) => Honest(now, Pictured(r, text, now, out))
         /\ HonestOf(now, out) => HonestOf(now, Pictured(r, text, now, out))
BY OutsAreHonest DEF Pictured

LEMMA CloseIsTold ==
  ASSUME NEW r, NEW section, NEW out, NEW codes, Close(r, section, out, codes), out.touched
  PROVE  section \in answer'.touched
BY DEF Close

LEMMA WorldsTold ==
  ASSUME WorldsNext
  PROVE  WorldsSection' = WorldsSection \/ "worlds" \in answer'.touched
<1>1. PICK r \in Requests :
        AskWorlds(r) \/ CreateWorld(r) \/ UpdateWorld(r) \/ MoveWorld(r) \/ SeedWorlds(r)
  BY DEF WorldsNext
<1>0. ASSUME NEW op, NEW out, NEW codes, Worlds(r, op, out, codes), Honest(worlds, out)
      PROVE  worlds' = worlds \/ "worlds" \in answer'.touched
  BY <1>0, CloseIsTold DEF Worlds, Honest
<1>2. CASE AskWorlds(r)
  BY <1>2 DEF AskWorlds, WorldsSection
<1>3. CASE CreateWorld(r)
  BY <1>0, <1>3, WritesAreHonest, PicturedIsHonest DEF CreateWorld, worldCreate, WorldsSection
<1>4. CASE UpdateWorld(r)
  <2>1. Honest(worlds, worldUpdate(worlds, Q(r)))
    BY OutsAreHonest DEF worldUpdate, Updated
  <2> QED
    BY <1>0, <1>4, <2>1, PicturedIsHonest DEF UpdateWorld, WorldsSection
<1>5. CASE MoveWorld(r) \/ SeedWorlds(r)
  BY <1>0, <1>5, WritesAreHonest DEF MoveWorld, worldMove, SeedWorlds, worldSeed, WorldsSection
<1> QED
  BY <1>1, <1>2, <1>3, <1>4, <1>5

LEMMA GradesTold ==
  ASSUME GradesNext
  PROVE  GradesSection' = GradesSection \/ "mvpGrades" \in answer'.touched
<1>0. ASSUME NEW r, NEW op, NEW out, Grades(r, op, out), Honest(mvpGrades, out)
      PROVE  mvpGrades' = mvpGrades \/ "mvpGrades" \in answer'.touched
  BY <1>0, CloseIsTold DEF Grades, Honest
<1>1. PICK r \in Requests :
        AskGrades(r) \/ UpdateMvpGrade(r) \/ MoveMvpGrade(r) \/ SeedMvpGrades(r)
  BY DEF GradesNext
<1>2. CASE AskGrades(r)
  BY <1>2 DEF AskGrades, GradesSection
<1>3. CASE UpdateMvpGrade(r)
  <2>1. Honest(mvpGrades, gradeUpdate(mvpGrades, Q(r)))
    BY OutsAreHonest DEF gradeUpdate, Updated
  <2> QED
    BY <1>0, <1>3, <2>1 DEF UpdateMvpGrade, GradesSection
<1>4. CASE MoveMvpGrade(r) \/ SeedMvpGrades(r)
  BY <1>0, <1>4, WritesAreHonest
     DEF MoveMvpGrade, gradeMove, SeedMvpGrades, gradeSeed, GradesSection
<1> QED
  BY <1>1, <1>2, <1>3, <1>4

LEMMA LootTold ==
  ASSUME LootNext
  PROVE  LootSection' = LootSection \/ "huntLoot" \in answer'.touched
<1>0. ASSUME NEW r, NEW op, NEW out, NEW codes, Loot(r, op, out, codes), Honest(huntLoot, out)
      PROVE  huntLoot' = huntLoot \/ "huntLoot" \in answer'.touched
  BY <1>0, CloseIsTold DEF Loot, Honest
<1>1. PICK r \in Requests :
        AskLoot(r) \/ CreateHuntLoot(r) \/ UpdateHuntLoot(r) \/ MoveHuntLoot(r) \/ SeedHuntLoot(r)
  BY DEF LootNext
<1>2. CASE AskLoot(r)
  BY <1>2 DEF AskLoot, LootSection
<1>3. CASE CreateHuntLoot(r)
  BY <1>0, <1>3, WritesAreHonest, PicturedIsHonest DEF CreateHuntLoot, lootCreate, LootSection
<1>4. CASE UpdateHuntLoot(r)
  <2>1. Honest(huntLoot, lootUpdate(huntLoot, Q(r)))
    BY OutsAreHonest DEF lootUpdate, Updated
  <2> QED
    BY <1>0, <1>4, <2>1, PicturedIsHonest DEF UpdateHuntLoot, LootSection
<1>5. CASE MoveHuntLoot(r) \/ SeedHuntLoot(r)
  BY <1>0, <1>5, WritesAreHonest DEF MoveHuntLoot, lootMove, SeedHuntLoot, lootSeed, LootSection
<1> QED
  BY <1>1, <1>2, <1>3, <1>4, <1>5

LEMMA CashbookHonest ==
  ASSUME NEW t, NEW seen, NEW q
  PROVE  /\ HonestOf(t, categoryCreate(seen, t, q)) /\ HonestOf(t, categoryUpdate(t, q))
         /\ HonestOf(t, categoryMove(seen, t, q)) /\ HonestOf(t, itemKindUpdate(t, q))
         /\ HonestOf(t, cashbookSeed(seen, t))
<1>1. HonestOf(t, categoryCreate(seen, t, q)) /\ HonestOf(t, categoryMove(seen, t, q))
  BY WritesAreHonest, InIsHonest DEF categoryCreate, categoryMove
<1>2. HonestOf(t, categoryUpdate(t, q)) /\ HonestOf(t, itemKindUpdate(t, q))
  BY OutsAreHonest, InIsHonest DEF categoryUpdate, itemKindUpdate, Updated
<1>3. HonestOf(t, cashbookSeed(seen, t))
  BY OutsAreHonest DEF cashbookSeed
<1> QED
  BY <1>1, <1>2, <1>3

LEMMA CashbookTold ==
  ASSUME CashbookNext
  PROVE  CashbookSection' = CashbookSection \/ "cashbookCategories" \in answer'.touched
<1> SUFFICES SameTables(cashbook, cashbook') \/ "cashbookCategories" \in answer'.touched
  BY DEF SameTables, CashbookSection
<1>0. ASSUME NEW r, NEW op, NEW out, NEW codes, Cashbook(r, op, out, codes), HonestOf(cashbook, out)
      PROVE  SameTables(cashbook, cashbook') \/ "cashbookCategories" \in answer'.touched
  BY <1>0, CloseIsTold DEF Cashbook, HonestOf
<1>1. PICK r \in Requests :
        \/ AskCashbook(r) \/ CreateCashbookCategory(r) \/ UpdateCashbookCategory(r)
        \/ MoveCashbookCategory(r) \/ UpdateCashbookItemKind(r) \/ SeedCashbook(r)
  BY DEF CashbookNext
<1>2. CASE AskCashbook(r)
  BY <1>2 DEF AskCashbook, SameTables
<1>3. CASE \/ CreateCashbookCategory(r) \/ UpdateCashbookCategory(r) \/ MoveCashbookCategory(r)
           \/ UpdateCashbookItemKind(r) \/ SeedCashbook(r)
  BY <1>0, <1>3, CashbookHonest, PicturedIsHonest
     DEF CreateCashbookCategory, UpdateCashbookCategory, MoveCashbookCategory,
         UpdateCashbookItemKind, SeedCashbook
<1> QED
  BY <1>1, <1>2, <1>3

LEMMA FaqsHonest ==
  ASSUME NEW t, NEW seen, NEW q, NEW id
  PROVE  /\ HonestOf(t, sheetCreate(seen, t, q)) /\ HonestOf(t, sheetUpdate(t, q))
         /\ HonestOf(t, sheetRemove(t, q)) /\ HonestOf(t, sheetMove(seen, t, q))
         /\ HonestOf(t, faqCreate(seen, t, q, id)) /\ HonestOf(t, faqUpdate(t, q))
         /\ HonestOf(t, faqRemove(t, q)) /\ HonestOf(t, faqMove(seen, t, q))
         /\ HonestOf(t, faqSeed(seen, t))
<1>1. HonestOf(t, sheetCreate(seen, t, q)) /\ HonestOf(t, sheetMove(seen, t, q))
  BY WritesAreHonest, InIsHonest DEF sheetCreate, sheetMove
<1>2. HonestOf(t, faqCreate(seen, t, q, id)) /\ HonestOf(t, faqMove(seen, t, q))
  BY OutsAreHonest, WritesAreHonest, InIsHonest DEF faqCreate, faqMove
<1>3. HonestOf(t, sheetUpdate(t, q)) /\ HonestOf(t, faqUpdate(t, q))
  BY OutsAreHonest, InIsHonest DEF sheetUpdate, faqUpdate, Updated
<1>4. HonestOf(t, sheetRemove(t, q)) /\ HonestOf(t, faqRemove(t, q)) /\ HonestOf(t, faqSeed(seen, t))
  BY OutsAreHonest DEF sheetRemove, faqRemove, faqSeed
<1> QED
  BY <1>1, <1>2, <1>3, <1>4

LEMMA FaqsTold ==
  ASSUME GoodFaqs(faqs), FaqsNext
  PROVE  FaqsSection' = FaqsSection \/ "faqs" \in answer'.touched
<1> SUFFICES SameTables(faqs, faqs') \/ "faqs" \in answer'.touched
  <2>1. SameTables(faqs, faqs') => faqs'.sheets = faqs.sheets /\ faqs'.items = faqs.items
    BY DEF SameTables, GoodFaqs
  <2> QED
    BY <2>1 DEF FaqsSection, ItemsOf
<1>0. ASSUME NEW r, NEW op, NEW out, NEW codes, Faqs(r, op, out, codes), HonestOf(faqs, out)
      PROVE  SameTables(faqs, faqs') \/ "faqs" \in answer'.touched
  BY <1>0, CloseIsTold DEF Faqs, HonestOf
<1>1. PICK r \in Requests :
        \/ AskFaqs(r) \/ CreateFaqSheet(r) \/ UpdateFaqSheet(r) \/ RemoveFaqSheet(r)
        \/ MoveFaqSheet(r) \/ CreateFaqItem(r) \/ UpdateFaqItem(r) \/ RemoveFaqItem(r)
        \/ MoveFaqItem(r) \/ SeedFaqs(r)
  BY DEF FaqsNext
<1>2. CASE AskFaqs(r)
  BY <1>2 DEF AskFaqs, SameTables
<1>3. CASE \/ CreateFaqSheet(r) \/ UpdateFaqSheet(r) \/ RemoveFaqSheet(r) \/ MoveFaqSheet(r)
           \/ CreateFaqItem(r) \/ UpdateFaqItem(r) \/ RemoveFaqItem(r) \/ MoveFaqItem(r)
           \/ SeedFaqs(r)
  BY <1>0, <1>3, FaqsHonest
     DEF CreateFaqSheet, UpdateFaqSheet, RemoveFaqSheet, MoveFaqSheet, CreateFaqItem, UpdateFaqItem,
         RemoveFaqItem, MoveFaqItem, SeedFaqs
<1> QED
  BY <1>1, <1>2, <1>3

\* The same picture under the same path is what an app has.
LEMMA PicturesTold ==
  ASSUME PicturesNext
  PROVE  /\ AssetsSection' = AssetsSection \/ "assets" \in answer'.touched
         /\ ImageCropsSection' = ImageCropsSection \/ "imageCrops" \in answer'.touched
<1>1. PICK r \in Requests :
        AskPictures(r) \/ WriteFile(r) \/ PutFile(r) \/ PutCrop(r) \/ RemoveCrop(r)
  BY DEF PicturesNext
<1>2. CASE AskPictures(r)
  BY <1>2 DEF AskPictures, Ask, AssetsSection, ImageCropsSection
<1>3. CASE WriteFile(r)
  BY <1>3 DEF WriteFile, AssetsSection, ImageCropsSection
<1>4. CASE PutFile(r)
  <2>1. Honest(assets, assetPut(assets, Q(r)))
    BY OutsAreHonest DEF assetPut
  <2>2. /\ assets' = assetPut(assets, Q(r)).now /\ crops' = crops
        /\ Close(r, "assets", assetPut(assets, Q(r)), NoCodes)
    BY <1>4 DEF PutFile
  <2> QED
    BY <2>1, <2>2, CloseIsTold DEF Honest, AssetsSection, ImageCropsSection
<1>5. CASE PutCrop(r) \/ RemoveCrop(r)
  <2>1. Honest(crops, cropPut(crops, Q(r))) /\ Honest(crops, cropRemove(crops, Q(r)))
    BY OutsAreHonest DEF cropPut, cropRemove
  <2>2. PICK out \in {cropPut(crops, Q(r)), cropRemove(crops, Q(r))} :
          assets' = assets /\ crops' = out.now /\ Close(r, "imageCrops", out, NoCodes)
    BY <1>5 DEF PutCrop, RemoveCrop, Crops
  <2> QED
    BY <2>1, <2>2, CloseIsTold DEF Honest, AssetsSection, ImageCropsSection
<1> QED
  BY <1>1, <1>2, <1>3, <1>4, <1>5

LEMMA ContentsHonest ==
  ASSUME NEW t, NEW seen, NEW q
  PROVE  /\ HonestOf(t, contentCategoryUpdate(t, q)) /\ HonestOf(t, contentCategoryMove(seen, t, q))
         /\ HonestOf(t, contentCreate(seen, t, q)) /\ HonestOf(t, contentUpdate(seen, t, q))
         /\ HonestOf(t, contentMove(seen, t, q)) /\ HonestOf(t, contentSeed(seen, t))
<1>1. HonestOf(t, contentCategoryUpdate(t, q)) /\ HonestOf(t, contentUpdate(seen, t, q))
  BY OutsAreHonest, InIsHonest DEF contentCategoryUpdate, contentUpdate, Updated
<1>2. /\ HonestOf(t, contentCategoryMove(seen, t, q)) /\ HonestOf(t, contentCreate(seen, t, q))
      /\ HonestOf(t, contentMove(seen, t, q))
  BY OutsAreHonest, WritesAreHonest, InIsHonest DEF contentCategoryMove, contentCreate, contentMove
<1>3. HonestOf(t, contentSeed(seen, t))
  BY OutsAreHonest DEF contentSeed
<1> QED
  BY <1>1, <1>2, <1>3

LEMMA ContentsTold ==
  ASSUME GoodContents(contents), ContentsNext
  PROVE  ContentsSection' = ContentsSection \/ "contents" \in answer'.touched
<1> SUFFICES SameTables(contents, contents') \/ "contents" \in answer'.touched
  <2>1. SameTables(contents, contents') =>
          contents'.categories = contents.categories /\ contents'.rows = contents.rows
    BY DEF SameTables, GoodContents
  <2> QED
    BY <2>1 DEF ContentsSection, InSection
<1>0. ASSUME NEW r, NEW op, NEW out, NEW codes, OnContents(r, op, out, codes), HonestOf(contents, out)
      PROVE  SameTables(contents, contents') \/ "contents" \in answer'.touched
  BY <1>0, CloseIsTold DEF OnContents, HonestOf
<1>1. PICK r \in Requests :
        \/ AskContents(r) \/ UpdateContentCategory(r) \/ MoveContentCategory(r) \/ CreateContent(r)
        \/ UpdateContent(r) \/ MoveContent(r) \/ SeedContents(r)
  BY DEF ContentsNext
<1>2. CASE AskContents(r)
  BY <1>2 DEF AskContents, SameTables
<1>3. CASE \/ UpdateContentCategory(r) \/ MoveContentCategory(r) \/ CreateContent(r)
           \/ UpdateContent(r) \/ MoveContent(r) \/ SeedContents(r)
  BY <1>0, <1>3, ContentsHonest, PicturedIsHonest
     DEF UpdateContentCategory, MoveContentCategory, CreateContent, UpdateContent, MoveContent,
         SeedContents
<1> QED
  BY <1>1, <1>2, <1>3

LEMMA HuntingHonest ==
  ASSUME NEW t, NEW seen, NEW q
  PROVE  /\ HonestOf(t, regionCreate(seen, t, q)) /\ HonestOf(t, regionUpdate(t, q))
         /\ HonestOf(t, regionMove(seen, t, q)) /\ HonestOf(t, groundCreate(seen, t, q))
         /\ HonestOf(t, groundUpdate(seen, t, q)) /\ HonestOf(t, groundMove(seen, t, q))
         /\ HonestOf(t, huntingSeed(seen, t))
<1>1. HonestOf(t, regionUpdate(t, q)) /\ HonestOf(t, groundUpdate(seen, t, q))
  BY OutsAreHonest, InIsHonest DEF regionUpdate, groundUpdate, Updated
<1>2. /\ HonestOf(t, regionCreate(seen, t, q)) /\ HonestOf(t, regionMove(seen, t, q))
      /\ HonestOf(t, groundCreate(seen, t, q)) /\ HonestOf(t, groundMove(seen, t, q))
  BY OutsAreHonest, WritesAreHonest, InIsHonest DEF regionCreate, regionMove, groundCreate, groundMove
<1>3. HonestOf(t, huntingSeed(seen, t))
  BY OutsAreHonest DEF huntingSeed
<1> QED
  BY <1>1, <1>2, <1>3

LEMMA HuntingTold ==
  ASSUME GoodHunting(hunting), HuntingNext
  PROVE  HuntingSection' = HuntingSection \/ "huntingGrounds" \in answer'.touched
<1> SUFFICES SameTables(hunting, hunting') \/ "huntingGrounds" \in answer'.touched
  <2>1. SameTables(hunting, hunting') =>
          hunting'.regions = hunting.regions /\ hunting'.grounds = hunting.grounds
    BY DEF SameTables, GoodHunting
  <2> QED
    BY <2>1 DEF HuntingSection, GroundsOf
<1>0. ASSUME NEW r, NEW op, NEW out, NEW codes, Hunting(r, op, out, codes), HonestOf(hunting, out)
      PROVE  SameTables(hunting, hunting') \/ "huntingGrounds" \in answer'.touched
  BY <1>0, CloseIsTold DEF Hunting, HonestOf
<1>1. PICK r \in Requests :
        \/ AskHunting(r) \/ CreateHuntingRegion(r) \/ UpdateHuntingRegion(r) \/ MoveHuntingRegion(r)
        \/ CreateHuntingGround(r) \/ UpdateHuntingGround(r) \/ MoveHuntingGround(r)
        \/ SeedHuntingGrounds(r)
  BY DEF HuntingNext
<1>2. CASE AskHunting(r)
  BY <1>2 DEF AskHunting, SameTables
<1>3. CASE \/ CreateHuntingRegion(r) \/ UpdateHuntingRegion(r) \/ MoveHuntingRegion(r)
           \/ CreateHuntingGround(r) \/ UpdateHuntingGround(r) \/ MoveHuntingGround(r)
           \/ SeedHuntingGrounds(r)
  BY <1>0, <1>3, HuntingHonest, PicturedIsHonest
     DEF CreateHuntingRegion, UpdateHuntingRegion, MoveHuntingRegion, CreateHuntingGround,
         UpdateHuntingGround, MoveHuntingGround, SeedHuntingGrounds
<1> QED
  BY <1>1, <1>2, <1>3

LEMMA SymbolsHonest ==
  ASSUME NEW t, NEW seen, NEW q
  PROVE  /\ HonestOf(t, symbolGroupCreate(seen, t, q)) /\ HonestOf(t, symbolGroupUpdate(seen, t, q))
         /\ HonestOf(t, symbolCreate(seen, t, q)) /\ HonestOf(t, symbolUpdate(t, q))
         /\ HonestOf(t, symbolMove(seen, t, q)) /\ HonestOf(t, costsAdd(seen, t, q))
         /\ HonestOf(t, costRemove(t, q)) /\ HonestOf(t, symbolsSeed(seen, t))
<1>1. HonestOf(t, symbolUpdate(t, q))
  BY OutsAreHonest, InIsHonest DEF symbolUpdate, Updated
<1>2. /\ HonestOf(t, symbolGroupCreate(seen, t, q)) /\ HonestOf(t, symbolCreate(seen, t, q))
      /\ HonestOf(t, symbolMove(seen, t, q))
  BY OutsAreHonest, WritesAreHonest, InIsHonest DEF symbolGroupCreate, symbolCreate, symbolMove
<1>3. HonestOf(t, symbolGroupUpdate(seen, t, q)) /\ HonestOf(t, symbolsSeed(seen, t))
  BY OutsAreHonest DEF symbolGroupUpdate, symbolsSeed
<1>4. HonestOf(t, costsAdd(seen, t, q))
  BY OutsAreHonest DEF costsAdd
<1>5. HonestOf(t, costRemove(t, q))
  BY OutsAreHonest DEF costRemove
<1> QED
  BY <1>1, <1>2, <1>3, <1>4, <1>5

LEMMA SymbolsTold ==
  ASSUME GoodSymbols(symbols), NEW asked, SymbolsNext(asked)
  PROVE  SymbolsSection' = SymbolsSection \/ "symbolCosts" \in answer'.touched
<1> SUFFICES SameTables(symbols, symbols') \/ "symbolCosts" \in answer'.touched
  <2>1. SameTables(symbols, symbols') =>
          /\ symbols'.groups = symbols.groups /\ symbols'.symbols = symbols.symbols
          /\ symbols'.costs = symbols.costs
    BY DEF SameTables, GoodSymbols
  <2> QED
    BY <2>1 DEF SymbolsSection, SymbolsOf
<1>0. ASSUME NEW r, NEW op, NEW out, NEW codes, OnSymbols(r, op, out, codes), HonestOf(symbols, out)
      PROVE  SameTables(symbols, symbols') \/ "symbolCosts" \in answer'.touched
  BY <1>0, CloseIsTold DEF OnSymbols, HonestOf
<1>1. PICK r \in Requests :
        \/ AskSymbols(r, asked) \/ CreateSymbolGroup(r) \/ UpdateSymbolGroup(r) \/ CreateSymbol(r)
        \/ UpdateSymbol(r) \/ MoveSymbol(r) \/ AddSymbolCosts(r) \/ RemoveSymbolCost(r)
        \/ SeedSymbolCosts(r)
  BY DEF SymbolsNext
<1>2. CASE AskSymbols(r, asked)
  BY <1>2 DEF AskSymbols, SameTables
<1>3. CASE \/ CreateSymbolGroup(r) \/ UpdateSymbolGroup(r) \/ CreateSymbol(r) \/ UpdateSymbol(r)
           \/ MoveSymbol(r) \/ AddSymbolCosts(r) \/ RemoveSymbolCost(r) \/ SeedSymbolCosts(r)
  BY <1>0, <1>3, SymbolsHonest, PicturedIsHonest
     DEF CreateSymbolGroup, UpdateSymbolGroup, CreateSymbol, UpdateSymbol, MoveSymbol,
         AddSymbolCosts, RemoveSymbolCost, SeedSymbolCosts
<1> QED
  BY <1>1, <1>2, <1>3

LEMMA HexaHonest ==
  ASSUME NEW t, NEW seen, NEW q, NEW id
  PROVE  /\ HonestOf(t, kindCreate(seen, t, q)) /\ HonestOf(t, kindUpdate(seen, t, q))
         /\ HonestOf(t, costsReplace(seen, t, q)) /\ HonestOf(t, nameAdd(seen, t, q))
         /\ HonestOf(t, nameRemove(t, q)) /\ HonestOf(t, coreCreate(seen, t, q, id))
         /\ HonestOf(t, coreUpdate(t, q)) /\ HonestOf(t, coreRemove(t, q))
         /\ HonestOf(t, coreMove(seen, t, q)) /\ HonestOf(t, statCreate(seen, t, q))
         /\ HonestOf(t, statUpdate(t, q)) /\ HonestOf(t, hexaSeed(seen, t))
<1>1. HonestOf(t, coreUpdate(t, q)) /\ HonestOf(t, statUpdate(t, q))
  BY OutsAreHonest, InIsHonest DEF coreUpdate, statUpdate, Updated
<1>2. /\ HonestOf(t, nameAdd(seen, t, q)) /\ HonestOf(t, coreCreate(seen, t, q, id))
      /\ HonestOf(t, coreMove(seen, t, q)) /\ HonestOf(t, statCreate(seen, t, q))
  BY OutsAreHonest, WritesAreHonest, InIsHonest DEF nameAdd, coreCreate, coreMove, statCreate
<1>3. /\ HonestOf(t, kindCreate(seen, t, q)) /\ HonestOf(t, kindUpdate(seen, t, q))
      /\ HonestOf(t, costsReplace(seen, t, q)) /\ HonestOf(t, nameRemove(t, q))
      /\ HonestOf(t, coreRemove(t, q)) /\ HonestOf(t, hexaSeed(seen, t))
  BY OutsAreHonest DEF kindCreate, kindUpdate, costsReplace, nameRemove, coreRemove, hexaSeed
<1> QED
  BY <1>1, <1>2, <1>3

LEMMA HexaTold ==
  ASSUME GoodHexa(hexa), NEW asked, HexaNext(asked)
  PROVE  HexaSection' = HexaSection \/ "hexaMatrix" \in answer'.touched
<1> SUFFICES SameTables(hexa, hexa') \/ "hexaMatrix" \in answer'.touched
  <2>1. ASSUME SameTables(hexa, hexa')
        PROVE  /\ hexa'.kinds = hexa.kinds /\ hexa'.cores = hexa.cores /\ hexa'.stats = hexa.stats
               /\ DOMAIN hexa' = DOMAIN hexa /\ \A t \in DOMAIN hexa : hexa'[t] = hexa[t]
    BY <2>1 DEF SameTables, GoodHexa
  <2> DEFINE kinds(t) == [k \in DOMAIN t.kinds |->
                            <<[t.kinds[k] EXCEPT !.order = 0], Rank(t.kinds, DOMAIN t.kinds, k)>>]
             cores(t) == {<<t.cores[i].job, t.cores[i].name,
                            Place(t.cores, CoresOf(t, t.cores[i].job), i)>> : i \in DOMAIN t.cores}
             stats(t) == Shown(t.stats)
             section(t, a, b, c) == [t EXCEPT !.kinds = a, !.cores = b, !.stats = c]
  <2>2. /\ HexaSection = section(hexa, kinds(hexa), cores(hexa), stats(hexa))
        /\ HexaSection' = section(hexa', kinds(hexa'), cores(hexa'), stats(hexa'))
    BY DEF HexaSection
  <2>3. ASSUME SameTables(hexa, hexa')
        PROVE  /\ kinds(hexa') = kinds(hexa) /\ cores(hexa') = cores(hexa)
               /\ stats(hexa') = stats(hexa)
    BY <2>1, <2>3 DEF CoresOf
  <2> HIDE DEF kinds, cores, stats
  <2>4. ASSUME SameTables(hexa, hexa'), NEW a, NEW b, NEW c
        PROVE  section(hexa', a, b, c) = section(hexa, a, b, c)
    BY <2>1, <2>4
  <2> HIDE DEF section
  <2> QED
    BY <2>2, <2>3, <2>4
<1>0. ASSUME NEW r, NEW op, NEW out, NEW codes, OnHexa(r, op, out, codes), HonestOf(hexa, out)
      PROVE  SameTables(hexa, hexa') \/ "hexaMatrix" \in answer'.touched
  BY <1>0, CloseIsTold DEF OnHexa, HonestOf
<1>1. PICK r \in Requests :
        \/ AskHexa(r, asked) \/ CreateHexaKind(r) \/ UpdateHexaKind(r) \/ ReplaceHexaCosts(r)
        \/ AddHexaNameKind(r) \/ RemoveHexaNameKind(r) \/ CreateHexaJobCore(r)
        \/ UpdateHexaJobCore(r) \/ RemoveHexaJobCore(r) \/ MoveHexaJobCore(r)
        \/ CreateHexaStat(r) \/ UpdateHexaStat(r) \/ SeedHexaMatrix(r)
  BY DEF HexaNext
<1>2. CASE AskHexa(r, asked)
  BY <1>2 DEF AskHexa, SameTables
<1>3. CASE \/ CreateHexaKind(r) \/ UpdateHexaKind(r) \/ ReplaceHexaCosts(r) \/ AddHexaNameKind(r)
           \/ RemoveHexaNameKind(r) \/ CreateHexaJobCore(r) \/ UpdateHexaJobCore(r)
           \/ RemoveHexaJobCore(r) \/ MoveHexaJobCore(r) \/ CreateHexaStat(r) \/ UpdateHexaStat(r)
           \/ SeedHexaMatrix(r)
  BY <1>0, <1>3, HexaHonest, PicturedIsHonest
     DEF CreateHexaKind, UpdateHexaKind, ReplaceHexaCosts, AddHexaNameKind, RemoveHexaNameKind,
         CreateHexaJobCore, UpdateHexaJobCore, RemoveHexaJobCore, MoveHexaJobCore, CreateHexaStat,
         UpdateHexaStat, SeedHexaMatrix
<1> QED
  BY <1>1, <1>2, <1>3

LEMMA SpendHonest ==
  ASSUME NEW t, NEW seen, NEW q
  PROVE  /\ HonestOf(t, spendSetRules(t, q)) /\ HonestOf(t, groupCreate(seen, t, q))
         /\ HonestOf(t, groupUpdate(t, q)) /\ HonestOf(t, groupMove(seen, t, q))
         /\ HonestOf(t, formUpdate(t, q)) /\ HonestOf(t, tileCreate(t, q))
         /\ HonestOf(t, tileUpdate(t, q)) /\ HonestOf(t, spendItemCreate(seen, t, q))
         /\ HonestOf(t, spendItemUpdate(seen, t, q)) /\ HonestOf(t, spendItemMove(seen, t, q))
         /\ HonestOf(t, spendSeed(seen, t))
<1>1. HonestOf(t, groupUpdate(t, q)) /\ HonestOf(t, formUpdate(t, q)) /\ HonestOf(t, tileUpdate(t, q))
  BY OutsAreHonest, InIsHonest DEF groupUpdate, formUpdate, tileUpdate, Updated
<1>2. /\ HonestOf(t, groupCreate(seen, t, q)) /\ HonestOf(t, groupMove(seen, t, q))
      /\ HonestOf(t, tileCreate(t, q)) /\ HonestOf(t, spendItemMove(seen, t, q))
  BY OutsAreHonest, WritesAreHonest, InIsHonest DEF groupCreate, groupMove, tileCreate, spendItemMove
<1>3. /\ HonestOf(t, spendSetRules(t, q)) /\ HonestOf(t, spendItemCreate(seen, t, q))
      /\ HonestOf(t, spendItemUpdate(seen, t, q)) /\ HonestOf(t, spendSeed(seen, t))
  BY OutsAreHonest DEF spendSetRules, spendItemCreate, spendItemUpdate, spendSeed
<1> QED
  BY <1>1, <1>2, <1>3

\* Whether a step is one that is known to move no time.
Quietly(section) == \E r \in Requests : call[r] # NoCall /\ Silently(Q(r).op, section)

LEMMA SpendTold ==
  ASSUME GoodSpend(spend, SpendCategories), NEW asked, SpendNext(asked)
  PROVE  SpendSection' = SpendSection \/ "spendCatalog" \in answer'.touched \/ Quietly("spendCatalog")
<1> SUFFICES SameTables(spend, spend') \/ "spendCatalog" \in answer'.touched \/ Quietly("spendCatalog")
  <2>1. SameTables(spend, spend') =>
          /\ spend'.rules = spend.rules /\ spend'.forms = spend.forms /\ spend'.groups = spend.groups
          /\ spend'.tiles = spend.tiles /\ spend'.items = spend.items
    BY DEF SameTables, GoodSpend
  <2> QED
    BY <2>1 DEF SpendSection, ItemsOfGroup
<1>0. ASSUME NEW r, NEW op, NEW out, NEW codes, Spending(r, op, out, codes), HonestOf(spend, out)
      PROVE  SameTables(spend, spend') \/ "spendCatalog" \in answer'.touched
  BY <1>0, CloseIsTold DEF Spending, HonestOf
<1>1. PICK r \in Requests :
        \/ AskSpend(r, asked) \/ SetSpendRules(r) \/ CreateSpendGroup(r) \/ UpdateSpendGroup(r)
        \/ MoveSpendGroup(r) \/ UpdateSpendForm(r) \/ CreateSpendTile(r) \/ UpdateSpendTile(r)
        \/ CreateSpendItem(r) \/ UpdateSpendItem(r) \/ MoveSpendItem(r)
        \/ SeedSpendRules(r) \/ SeedSpendRows(r)
  BY DEF SpendNext
<1>2. CASE AskSpend(r, asked)
  BY <1>2 DEF AskSpend, SameTables
<1>3. CASE \/ SetSpendRules(r) \/ CreateSpendGroup(r) \/ UpdateSpendGroup(r) \/ MoveSpendGroup(r)
           \/ UpdateSpendForm(r) \/ CreateSpendTile(r) \/ UpdateSpendTile(r) \/ CreateSpendItem(r)
           \/ UpdateSpendItem(r) \/ MoveSpendItem(r) \/ SeedSpendRows(r)
  BY <1>0, <1>3, SpendHonest, PicturedIsHonest
     DEF SetSpendRules, CreateSpendGroup, UpdateSpendGroup, MoveSpendGroup, UpdateSpendForm,
         CreateSpendTile, UpdateSpendTile, CreateSpendItem, UpdateSpendItem, MoveSpendItem,
         SeedSpendRows
<1>4. CASE SeedSpendRules(r)
  BY <1>4 DEF SeedSpendRules, Asked, Quietly, Silently, Q
<1> QED
  BY <1>1, <1>2, <1>3, <1>4

LEMMA EnhancementHonest ==
  ASSUME NEW t, NEW seen, NEW q
  PROVE  /\ HonestOf(t, rulesSet(t, q)) /\ HonestOf(t, soulSet(t, q)) /\ HonestOf(t, costSet(t, q))
         /\ HonestOf(t, bandAdd(t, q)) /\ HonestOf(t, bandRemove(t, q)) /\ HonestOf(t, starSet(t, q))
         /\ HonestOf(t, starAdd(seen, t, q)) /\ HonestOf(t, starRemoveLast(seen, t))
         /\ HonestOf(t, costsSeed(seen, t))
<1>1. HonestOf(t, costSet(t, q)) /\ HonestOf(t, starSet(t, q))
  BY OutsAreHonest, InIsHonest DEF costSet, starSet, Updated
<1>2. HonestOf(t, bandAdd(t, q)) /\ HonestOf(t, starAdd(seen, t, q))
  BY WritesAreHonest, InIsHonest DEF bandAdd, starAdd
<1>3. /\ HonestOf(t, rulesSet(t, q)) /\ HonestOf(t, soulSet(t, q)) /\ HonestOf(t, bandRemove(t, q))
      /\ HonestOf(t, starRemoveLast(seen, t)) /\ HonestOf(t, costsSeed(seen, t))
  BY OutsAreHonest DEF rulesSet, soulSet, bandRemove, starRemoveLast, costsSeed, Set
<1> QED
  BY <1>1, <1>2, <1>3

LEMMA EnhancementTold ==
  ASSUME GoodEnhancement(enhancement), EnhancementNext
  PROVE  \/ EnhancementSection' = EnhancementSection
         \/ "enhancementCosts" \in answer'.touched \/ Quietly("enhancementCosts")
<1> SUFFICES \/ SameTables(enhancement, enhancement')
             \/ "enhancementCosts" \in answer'.touched \/ Quietly("enhancementCosts")
  BY DEF SameTables, GoodEnhancement, EnhancementSection
<1>0. ASSUME NEW r, NEW op, NEW out, NEW codes, OnEnhancement(r, op, out, codes),
             HonestOf(enhancement, out)
      PROVE  SameTables(enhancement, enhancement') \/ "enhancementCosts" \in answer'.touched
  BY <1>0, CloseIsTold DEF OnEnhancement, HonestOf
<1>1. PICK r \in Requests :
        \/ AskEnhancement(r) \/ SetEnhancementRules(r) \/ SetPotentialResetCost(r)
        \/ AddPotentialResetBand(r) \/ RemovePotentialResetBand(r) \/ SetSoulPotentialResetCost(r)
        \/ SetStarforceStep(r) \/ AddStarforceStep(r) \/ RemoveLastStarforceStep(r)
        \/ SeedEnhancementRules(r) \/ SeedEnhancementCosts(r)
  BY DEF EnhancementNext
<1>2. CASE AskEnhancement(r)
  BY <1>2 DEF AskEnhancement, SameTables
<1>3. CASE \/ SetEnhancementRules(r) \/ SetPotentialResetCost(r) \/ AddPotentialResetBand(r)
           \/ RemovePotentialResetBand(r) \/ SetSoulPotentialResetCost(r) \/ SetStarforceStep(r)
           \/ AddStarforceStep(r) \/ RemoveLastStarforceStep(r) \/ SeedEnhancementCosts(r)
  BY <1>0, <1>3, EnhancementHonest
     DEF SetEnhancementRules, SetPotentialResetCost, AddPotentialResetBand,
         RemovePotentialResetBand, SetSoulPotentialResetCost, SetStarforceStep, AddStarforceStep,
         RemoveLastStarforceStep, SeedEnhancementCosts
<1>4. CASE SeedEnhancementRules(r)
  BY <1>4 DEF SeedEnhancementRules, Asked, Quietly, Silently, Q
<1> QED
  BY <1>1, <1>2, <1>3, <1>4

\* Of tables that make up several sections, a transaction writes those of one.
HonestAt(now, C, out) ==
  IsOut(out) /\ \A t \in DOMAIN now : out.now[t] = now[t] \/ (t \in C /\ out.touched)

LEMMA OutsAreHonestAt ==
  ASSUME NEW now, NEW C, NEW e
  PROVE  HonestAt(now, C, Kept(now)) /\ HonestAt(now, C, Failed(now, e)) /\ HonestAt(now, C, Unknown(now))
BY DEF HonestAt, IsOut, Kept, Failed, Unknown

LEMMA InIsHonestAt ==
  ASSUME NEW now, NEW t \in DOMAIN now, NEW C, t \in C, NEW out, Honest(now[t], out)
  PROVE  HonestAt(now, C, In(now, t, out))
<1> DEFINE new == [now EXCEPT ![t] = out.now]
<1>1. /\ IsOut(In(now, t, out)) /\ In(now, t, out).touched = out.touched
      /\ In(now, t, out).now = new
  BY DEF Honest, In, IsOut
<1>2. new[t] = out.now /\ \A x \in DOMAIN now \ {t} : new[x] = now[x]
  OBVIOUS
<1> QED
  BY <1>1, <1>2 DEF Honest, HonestAt

LEMMA PicturedIsHonestAt ==
  ASSUME NEW r, NEW text, NEW now, NEW C, NEW out, HonestAt(now, C, out)
  PROVE  HonestAt(now, C, Pictured(r, text, now, out))
BY OutsAreHonestAt DEF Pictured

\* A box is the same to an app when it holds the same.
SameBoxes(old, new) ==
  /\ DOMAIN new = DOMAIN old
  /\ \A b \in DOMAIN old : new[b].text = old[b].text /\ new[b].contents = old[b].contents

\* What a box holds is written: nothing else of the tables is.
HonestBoxes(now, out) ==
  /\ IsOut(out) /\ (out.touched \/ SameBoxes(now.boxes, out.now.boxes))
  /\ out.now.items = now.items /\ out.now.equipment = now.equipment

LEMMA InBoxIsHonest ==
  ASSUME NEW now, GoodItems(now), NEW box, NEW out, IsOut(out),
         box \in DOMAIN now.boxes => Honest(Held(now, box), out)
  PROVE  HonestBoxes(now, InBox(now, box, out))
<1> DEFINE row == [now.boxes[box] EXCEPT !.contents = out.now]
           boxes == [now.boxes EXCEPT ![box] = row]
           new == [now EXCEPT !.boxes = boxes]
<1>1. /\ IsOut(InBox(now, box, out)) /\ InBox(now, box, out).touched = out.touched
      /\ InBox(now, box, out).now = IF box \in DOMAIN now.boxes THEN new ELSE now
  BY DEF InBox, IsOut
<1>2. CASE box \notin DOMAIN now.boxes
  BY <1>1, <1>2 DEF HonestBoxes, SameBoxes
<1>3. CASE box \in DOMAIN now.boxes
  <2>1. DOMAIN now = {"items", "boxes", "equipment"} /\ DOMAIN now.boxes[box] = {"text", "contents"}
    BY <1>3 DEF GoodItems, BoxesFit, GoodBox
  <2>2. row.text = now.boxes[box].text /\ row.contents = out.now
    BY <2>1
  <2> HIDE DEF row
  <2>3. DOMAIN boxes = DOMAIN now.boxes /\ boxes[box] = row
        /\ \A b \in DOMAIN now.boxes \ {box} : boxes[b] = now.boxes[b]
    BY <1>3
  <2> HIDE DEF boxes
  <2>4. new.boxes = boxes /\ new.items = now.items /\ new.equipment = now.equipment
    BY <2>1
  <2> HIDE DEF new
  <2> QED
    BY <1>1, <1>3, <2>2, <2>3, <2>4 DEF HonestBoxes, SameBoxes, Honest, Held
<1> QED
  BY <1>2, <1>3

LEMMA AtBoxesIsHonest ==
  ASSUME NEW now, GoodItems(now), NEW out, HonestAt(now, {"boxes"}, out)
  PROVE  HonestBoxes(now, out)
BY DEF GoodItems, HonestAt, HonestBoxes, SameBoxes

LEMMA ItemsHonest ==
  ASSUME NEW t, GoodItems(t), NEW seen, NEW q, NEW problem
  PROVE  /\ HonestAt(t, {"items"}, itemCreate(t, q)) /\ HonestAt(t, {"items"}, itemUpdate(t, q))
         /\ \A old, rows : HonestAt(t, {"items"}, In(t, "items", Seeded(old, t.items, rows)))
         /\ HonestAt(t, {"equipment"}, equipmentCreate(t, q, problem))
         /\ HonestAt(t, {"equipment"}, equipmentUpdate(seen, t, q, problem))
         /\ \A old, rows : HonestAt(t, {"equipment"},
                                    In(t, "equipment", Seeded(old, t.equipment, rows)))
<1>0. DOMAIN t = {"items", "boxes", "equipment"}
  BY DEF GoodItems
<1>1. HonestAt(t, {"items"}, itemCreate(t, q)) /\ HonestAt(t, {"equipment"}, equipmentCreate(t, q, problem))
  BY <1>0, OutsAreHonestAt, WritesAreHonest, InIsHonestAt DEF itemCreate, equipmentCreate
<1>2. HonestAt(t, {"items"}, itemUpdate(t, q))
  BY <1>0, OutsAreHonest, InIsHonestAt DEF itemUpdate, Updated
<1>3. HonestAt(t, {"equipment"}, equipmentUpdate(seen, t, q, problem))
  BY <1>0, OutsAreHonest, OutsAreHonestAt, InIsHonestAt DEF equipmentUpdate, Updated
<1>4. ASSUME NEW old, NEW rows, NEW c \in DOMAIN t
      PROVE  HonestAt(t, {c}, In(t, c, Seeded(old, t[c], rows)))
  BY WritesAreHonest, InIsHonestAt
<1> QED
  BY <1>0, <1>1, <1>2, <1>3, <1>4

LEMMA BoxesHonest ==
  ASSUME NEW t, GoodItems(t), NEW seen, NEW q
  PROVE  /\ HonestBoxes(t, boxCreate(seen, t, q)) /\ HonestBoxes(t, boxSetLevels(t, q))
         /\ HonestBoxes(t, boxContentAdd(seen, t, q)) /\ HonestBoxes(t, boxContentRemove(seen, t, q))
         /\ HonestBoxes(t, boxContentMove(seen, t, q)) /\ HonestBoxes(t, boxesSeed(seen, t))
<1>0. "boxes" \in DOMAIN t
  BY DEF GoodItems
<1>1. HonestAt(t, {"boxes"}, boxCreate(seen, t, q)) /\ HonestAt(t, {"boxes"}, boxesSeed(seen, t))
  BY <1>0, OutsAreHonestAt, WritesAreHonest, InIsHonestAt DEF boxCreate, boxesSeed
<1>2. HonestAt(t, {"boxes"}, boxSetLevels(t, q))
  BY <1>0, OutsAreHonest, InIsHonestAt DEF boxSetLevels, Updated
<1>3. ASSUME NEW e PROVE HonestBoxes(t, Unknown(t)) /\ HonestBoxes(t, Failed(t, e))
  BY OutsAreHonestAt, AtBoxesIsHonest
<1>4. \A out : Honest(Held(t, q.box), out) => HonestBoxes(t, InBox(t, q.box, out))
  BY InBoxIsHonest DEF Honest
<1>5. HonestBoxes(t, boxContentAdd(seen, t, q)) /\ HonestBoxes(t, boxContentMove(seen, t, q))
  BY <1>3, <1>4, WritesAreHonest DEF boxContentAdd, boxContentMove
<1>6. HonestBoxes(t, boxContentRemove(seen, t, q))
  BY <1>3, <1>4, OutsAreHonest DEF boxContentRemove
<1> QED
  BY <1>1, <1>2, <1>5, <1>6, AtBoxesIsHonest

LEMMA ItemsTold ==
  ASSUME GoodItems(items), NEW asked, ItemsNext(asked)
  PROVE  /\ DropItemsSection' = DropItemsSection \/ "dropItems" \in answer'.touched
         /\ DropBoxesSection' = DropBoxesSection \/ "dropBoxes" \in answer'.touched
         /\ EquipmentSection' = EquipmentSection \/ "equipmentItems" \in answer'.touched
<1> SUFFICES /\ items'.items = items.items \/ "dropItems" \in answer'.touched
             /\ SameBoxes(items.boxes, items'.boxes) \/ "dropBoxes" \in answer'.touched
             /\ items'.equipment = items.equipment \/ "equipmentItems" \in answer'.touched
  <2>1. items'.items = items.items => DropItemsSection' = DropItemsSection
    BY DEF DropItemsSection
  <2>2. SameBoxes(items.boxes, items'.boxes) => DropBoxesSection' = DropBoxesSection
    BY DEF SameBoxes, DropBoxesSection, Held
  <2> QED
    BY <2>1, <2>2 DEF EquipmentSection
<1>1. PICK r \in Requests :
        \/ AskItems(r, asked) \/ CreateDropItem(r) \/ UpdateDropItem(r) \/ SeedDropItems(r)
        \/ CreateEquipment(r) \/ UpdateEquipment(r) \/ SeedEquipment(r) \/ CreateDropBox(r)
        \/ SetDropBoxLevels(r) \/ AddBoxContent(r) \/ RemoveBoxContent(r) \/ MoveBoxContent(r)
        \/ SeedDropBoxes(r)
  BY DEF ItemsNext
<1>2. CASE AskItems(r, asked)
  BY <1>2 DEF AskItems, SameBoxes
<1>3. CASE CreateDropItem(r) \/ UpdateDropItem(r) \/ SeedDropItems(r)
  <2>1. PICK op, out, codes : OnItems(r, op, "dropItems", out, codes) /\ HonestAt(items, {"items"}, out)
    BY <1>3, ItemsHonest, PicturedIsHonestAt DEF CreateDropItem, UpdateDropItem, SeedDropItems
  <2> QED
    BY <2>1, CloseIsTold DEF OnItems, HonestAt, GoodItems, SameBoxes
<1>4. CASE CreateEquipment(r) \/ UpdateEquipment(r) \/ SeedEquipment(r)
  <2>1. PICK op, out, codes :
          OnItems(r, op, "equipmentItems", out, codes) /\ HonestAt(items, {"equipment"}, out)
    BY <1>4, ItemsHonest DEF CreateEquipment, UpdateEquipment, SeedEquipment
  <2> QED
    BY <2>1, CloseIsTold DEF OnItems, HonestAt, GoodItems, SameBoxes
<1>5. CASE \/ CreateDropBox(r) \/ SetDropBoxLevels(r) \/ AddBoxContent(r) \/ RemoveBoxContent(r)
           \/ MoveBoxContent(r) \/ SeedDropBoxes(r)
  <2>1. PICK op, out, codes : OnItems(r, op, "dropBoxes", out, codes) /\ HonestBoxes(items, out)
    BY <1>5, BoxesHonest
       DEF CreateDropBox, SetDropBoxLevels, AddBoxContent, RemoveBoxContent, MoveBoxContent,
           SeedDropBoxes
  <2> QED
    BY <2>1, CloseIsTold DEF OnItems, HonestBoxes
<1> QED
  BY <1>1, <1>2, <1>3, <1>4, <1>5

OfBosses == {"rules", "rows", "diffs"}

LEMMA BossRowsHonest ==
  ASSUME NEW t, NEW known, GoodBosses(t, known)
  PROVE  /\ \A key, row, diffs, text : HonestAt(t, OfBosses, bossCreate(t, key, row, diffs, text))
         /\ \A q : HonestAt(t, OfBosses, periodSet(t, q)) /\ HonestAt(t, OfBosses, aliasSet(t, q))
         /\ \A seen, q : /\ HonestAt(t, OfBosses, difficultyPeriodSet(seen, t, q))
                         /\ HonestAt(t, OfBosses, maxPartySizeSet(seen, t, q))
                         /\ HonestAt(t, OfBosses, difficultyUpsert(seen, t, q))
         /\ \A q : HonestAt(t, OfBosses, Wrote([t EXCEPT !.rules[Head(q.left)] = q.text]))
<1>0. /\ DOMAIN t = {"rules", "rows", "diffs", "drops", "prices", "manual"}
      /\ OfBosses = {"rules", "rows", "diffs"}
  BY DEF GoodBosses, OfBosses
<1>1. ASSUME NEW rows, NEW new
      PROVE  HonestAt(t, OfBosses, Wrote([t EXCEPT !.rows = rows, !.diffs = new]))
  <2> DEFINE after == [t EXCEPT !.rows = rows, !.diffs = new]
  <2>1. \A x \in DOMAIN t \ OfBosses : after[x] = t[x]
    BY <1>0
  <2> HIDE DEF after
  <2>2. HonestAt(t, OfBosses, Wrote(after))
    BY <2>1 DEF HonestAt, IsOut, Wrote
  <2> QED
    BY <2>2 DEF after
<1>2. ASSUME NEW f \in OfBosses, NEW new
      PROVE  HonestAt(t, OfBosses, Wrote([t EXCEPT ![f] = new]))
  <2> DEFINE after == [t EXCEPT ![f] = new]
  <2>1. \A x \in DOMAIN t \ OfBosses : after[x] = t[x]
    BY <1>0
  <2> HIDE DEF after
  <2>2. HonestAt(t, OfBosses, Wrote(after))
    BY <2>1 DEF HonestAt, IsOut, Wrote
  <2> QED
    BY <2>2 DEF after
<1>3. \A key, row, diffs, text : HonestAt(t, OfBosses, bossCreate(t, key, row, diffs, text))
  BY <1>1, OutsAreHonestAt DEF bossCreate
<1>4. ASSUME NEW q
      PROVE  HonestAt(t, OfBosses, periodSet(t, q)) /\ HonestAt(t, OfBosses, aliasSet(t, q))
  BY <1>0, OutsAreHonest, InIsHonestAt DEF periodSet, aliasSet, bossUpdate, Updated
<1>5. ASSUME NEW seen, NEW q
      PROVE  /\ HonestAt(t, OfBosses, difficultyPeriodSet(seen, t, q))
             /\ HonestAt(t, OfBosses, maxPartySizeSet(seen, t, q))
             /\ HonestAt(t, OfBosses, difficultyUpsert(seen, t, q))
  BY <1>0, <1>2, OutsAreHonestAt
     DEF difficultyPeriodSet, maxPartySizeSet, difficultyUpdate, difficultyUpsert
<1>6. \A q : HonestAt(t, OfBosses, Wrote([t EXCEPT !.rules[Head(q.left)] = q.text]))
  BY <1>0, <1>2
<1> QED
  BY <1>3, <1>4, <1>5, <1>6

LEMMA DropsHonest ==
  ASSUME NEW t, NEW known, GoodBosses(t, known), NEW seen, NEW q, NEW id
  PROVE  /\ HonestAt(t, {"drops"}, dropCreate(seen, t, q, id)) /\ HonestAt(t, {"drops"}, dropUpdate(t, q))
         /\ HonestAt(t, {"drops"}, dropDelete(t, q)) /\ HonestAt(t, {"drops"}, dropMove(seen, t, q))
         /\ HonestAt(t, {"drops"}, dropsSeed(seen, t))
<1>0. "drops" \in DOMAIN t
  BY DEF GoodBosses
<1>1. HonestAt(t, {"drops"}, dropCreate(seen, t, q, id)) /\ HonestAt(t, {"drops"}, dropsSeed(seen, t))
  BY <1>0, OutsAreHonestAt, WritesAreHonest, InIsHonestAt DEF dropCreate, dropsSeed
<1>2. HonestAt(t, {"drops"}, dropMove(seen, t, q))
  BY <1>0, OutsAreHonestAt, WritesAreHonest, InIsHonestAt DEF dropMove
<1>3. HonestAt(t, {"drops"}, dropUpdate(t, q))
  BY <1>0, OutsAreHonest, OutsAreHonestAt, InIsHonestAt DEF dropUpdate, Updated
<1>4. HonestAt(t, {"drops"}, dropDelete(t, q))
  <2>1. \A new : HonestAt(t, {"drops"}, Wrote([t EXCEPT !.drops = new]))
    BY DEF HonestAt, IsOut, Wrote
  <2> QED
    BY <2>1, OutsAreHonestAt DEF dropDelete
<1> QED
  BY <1>1, <1>2, <1>3, <1>4

LEMMA PricesHonest ==
  ASSUME NEW t, NEW seen, NEW q
  PROVE  /\ HonestAt(t, {"prices"}, priceAdd(seen, t, q)) /\ HonestAt(t, {"prices"}, priceRemove(t, q))
         /\ HonestAt(t, {"prices"}, pricesSeed(t))
<1>1. \A new : HonestAt(t, {"prices"}, Wrote([t EXCEPT !.prices = new]))
  BY DEF HonestAt, IsOut, Wrote
<1>2. HonestAt(t, {"prices"}, priceAdd(seen, t, q))
  BY <1>1, OutsAreHonestAt DEF priceAdd
<1>3. HonestAt(t, {"prices"}, priceRemove(t, q)) /\ HonestAt(t, {"prices"}, pricesSeed(t))
  BY <1>1, OutsAreHonestAt DEF priceRemove, pricesSeed
<1> QED
  BY <1>2, <1>3

LEMMA ManualHonest ==
  ASSUME NEW t, NEW seen, NEW q, NEW id, NEW x, x # "manual", x \in DOMAIN t
  PROVE  manualOpen(seen, t, q, id).now[x] = t[x] /\ manualClose(t, q).now[x] = t[x]
<1>1. \A new : [t EXCEPT !.manual = new][x] = t[x]
  OBVIOUS
<1> QED
  BY <1>1 DEF manualOpen, manualClose, Opening, Kept, Failed, Unknown

\* What an app is told of bosses, of their drops and of the prices of their crystals.
BossesAreTold ==
  /\ \/ BossesSection' = BossesSection
     \/ "bosses" \in answer'.touched \/ Quietly("bosses")
  /\ \/ BossDropsSection' = BossDropsSection
     \/ "bossDrops" \in answer'.touched \/ Quietly("bossDrops")
  /\ \/ CrystalPricesSection' = CrystalPricesSection
     \/ "crystalPrices" \in answer'.touched \/ Quietly("crystalPrices")

LEMMA SameBosses ==
  /\ (\A t \in OfBosses : bosses'[t] = bosses[t]) => BossesSection' = BossesSection
  /\ bosses'.drops = bosses.drops => BossDropsSection' = BossDropsSection
  /\ bosses'.prices = bosses.prices => CrystalPricesSection' = CrystalPricesSection
<1>1. ASSUME \A t \in OfBosses : bosses'[t] = bosses[t]
      PROVE  BossesSection' = BossesSection
  <2>1. bosses'.rules = bosses.rules /\ bosses'.rows = bosses.rows /\ bosses'.diffs = bosses.diffs
    BY <1>1 DEF OfBosses
  <2> QED
    BY <2>1 DEF BossesSection
<1>2. bosses'.drops = bosses.drops => BossDropsSection' = BossDropsSection
  BY DEF BossDropsSection, DropsOf
<1>3. bosses'.prices = bosses.prices => CrystalPricesSection' = CrystalPricesSection
  BY DEF CrystalPricesSection
<1> QED
  BY <1>1, <1>2, <1>3

\* One committed transaction, after which the call ends or goes on.
Commits(out, section) == bosses' = out.now /\ (out.touched => section \in answer'.touched)

LEMMA CommitsOf ==
  ASSUME NEW r, NEW op, NEW section, NEW out, NEW more
  PROVE  /\ OnBosses(r, op, section, out, more) => Commits(out, section)
         /\ GoesOn(r, op, more, out, section) => Commits(out, section)
BY CloseIsTold DEF OnBosses, GoesOn, Commits

LEMMA CommitsAreTold ==
  ASSUME NEW known, GoodBosses(bosses, known), NEW section, NEW C,
         <<section, C>> \in {<<"bosses", OfBosses>>, <<"bossDrops", {"drops"}>>,
                             <<"crystalPrices", {"prices"}>>},
         NEW out, HonestAt(bosses, C, out), Commits(out, section)
  PROVE  BossesAreTold
<1>0. DOMAIN bosses = {"rules", "rows", "diffs", "drops", "prices", "manual"}
  BY DEF GoodBosses
<1>1. \A t \in DOMAIN bosses : bosses'[t] = bosses[t] \/ (t \in C /\ section \in answer'.touched)
  BY DEF HonestAt, Commits
<1>2. \/ section = "bosses" /\ C = OfBosses
      \/ section = "bossDrops" /\ C = {"drops"}
      \/ section = "crystalPrices" /\ C = {"prices"}
  OBVIOUS
<1>3. /\ (\A t \in OfBosses : bosses'[t] = bosses[t]) \/ "bosses" \in answer'.touched
      /\ bosses'.drops = bosses.drops \/ "bossDrops" \in answer'.touched
      /\ bosses'.prices = bosses.prices \/ "crystalPrices" \in answer'.touched
  BY <1>0, <1>1, <1>2 DEF OfBosses
<1> QED
  BY <1>3, SameBosses DEF BossesAreTold

LEMMA BossesTold ==
  ASSUME NEW known, GoodBosses(bosses, known), NEW asked, BossesNext(asked)
  PROVE  BossesAreTold
<1>0. DOMAIN bosses = {"rules", "rows", "diffs", "drops", "prices", "manual"}
  BY DEF GoodBosses
<1>1. PICK r \in Requests :
        \/ AskBosses(r, asked) \/ CreateBoss(r) \/ SetBossPeriod(r) \/ SetBossAlias(r)
        \/ SetDifficultyPeriod(r) \/ SetMaxPartySize(r) \/ UpsertDifficulty(r) \/ DeleteDifficulty(r)
        \/ CreateBossDrop(r) \/ UpdateBossDrop(r) \/ DeleteBossDrop(r) \/ MoveBossDrop(r)
        \/ SeedBossDrops(r) \/ AddCrystalPrice(r) \/ RemoveCrystalPrice(r) \/ OpenBoss(r)
        \/ CloseBoss(r) \/ SetRule(r) \/ SeedBosses(r) \/ SeedNextBoss(r) \/ SeedPartySizes(r)
        \/ SeedPrices(r)
  BY DEF BossesNext
<1>2. CASE AskBosses(r, asked)
  BY <1>2, SameBosses DEF AskBosses, BossesAreTold
<1>3. CASE \/ CreateBoss(r) \/ SetBossPeriod(r) \/ SetBossAlias(r) \/ SetDifficultyPeriod(r)
           \/ SetMaxPartySize(r) \/ UpsertDifficulty(r)
  <2>1. PICK out : HonestAt(bosses, OfBosses, out) /\ Commits(out, "bosses")
    BY <1>3, BossRowsHonest, PicturedIsHonestAt, CommitsOf
       DEF CreateBoss, SetBossPeriod, SetBossAlias, SetDifficultyPeriod, SetMaxPartySize,
           UpsertDifficulty
  <2> QED
    BY <2>1, CommitsAreTold
<1>4. CASE SetRule(r)
  <2> DEFINE out == Wrote([bosses EXCEPT !.rules[Head(Q(r).left)] = Q(r).text])
  <2>1. HonestAt(bosses, OfBosses, out)
    BY BossRowsHonest
  <2>2. Commits(out, "bosses")
    BY <1>4, CommitsOf DEF SetRule
  <2> HIDE DEF out
  <2> QED
    BY <2>1, <2>2, CommitsAreTold
<1>5. CASE SeedBosses(r)
  <2>1. Commits(Kept(bosses), "bosses")
    BY <1>5, CommitsOf DEF SeedBosses
  <2> QED
    BY <2>1, OutsAreHonestAt, CommitsAreTold
<1>6. CASE SeedNextBoss(r)
  <2> DEFINE out == bossCreate(bosses, Q(r).key, SeedBoss(Q(r).key), Difficulties, 1)
  <2>1. HonestAt(bosses, OfBosses, out)
    BY BossRowsHonest
  <2>2. Commits(out, "bosses")
    BY <1>6, CommitsOf DEF SeedNextBoss
  <2> HIDE DEF out
  <2> QED
    BY <2>1, <2>2, CommitsAreTold
<1>7. CASE DeleteDifficulty(r)
  <2> DEFINE out == difficultyDelete(Seen(r), bosses, Q(r))
  <2>1. Commits(out, "bosses")
    BY <1>7, CommitsOf DEF DeleteDifficulty
  <2>2. \A t \in OfBosses : out.touched \/ out.now[t] = bosses[t]
    BY DEF difficultyDelete, Wrote, Failed, Unknown
  <2>3. Quietly("bossDrops") /\ Quietly("crystalPrices")
    BY <1>7 DEF DeleteDifficulty, OnBosses, Asked, Quietly, Silently, Q
  <2> HIDE DEF out
  <2> QED
    BY <2>1, <2>2, <2>3, SameBosses DEF Commits, BossesAreTold
<1>8. CASE \/ CreateBossDrop(r) \/ UpdateBossDrop(r) \/ DeleteBossDrop(r) \/ MoveBossDrop(r)
           \/ SeedBossDrops(r)
  <2>1. PICK out : HonestAt(bosses, {"drops"}, out) /\ Commits(out, "bossDrops")
    BY <1>8, DropsHonest, CommitsOf
       DEF CreateBossDrop, UpdateBossDrop, DeleteBossDrop, MoveBossDrop, SeedBossDrops
  <2> QED
    BY <2>1, CommitsAreTold
<1>9. CASE AddCrystalPrice(r) \/ RemoveCrystalPrice(r) \/ SeedPrices(r)
  <2>1. PICK out : HonestAt(bosses, {"prices"}, out) /\ Commits(out, "crystalPrices")
    BY <1>9, PricesHonest, CommitsOf DEF AddCrystalPrice, RemoveCrystalPrice, SeedPrices
  <2> QED
    BY <2>1, CommitsAreTold
<1>10. CASE OpenBoss(r) \/ CloseBoss(r)
  <2>1. \A t \in DOMAIN bosses \ {"manual"} : bosses'[t] = bosses[t]
    BY <1>10, ManualHonest DEF OpenBoss, CloseBoss, OnBosses
  <2>2. /\ \A t \in OfBosses : bosses'[t] = bosses[t]
        /\ bosses'.drops = bosses.drops /\ bosses'.prices = bosses.prices
    BY <1>0, <2>1 DEF OfBosses
  <2> QED
    BY <2>2, SameBosses DEF BossesAreTold
<1>11. CASE SeedPartySizes(r)
  <2>1. bosses' = bosses \/ bosses' = partySeed(bosses).now
    BY <1>11 DEF SeedPartySizes, OnBosses, GoesOn, Failed
  <2>2. bosses'.drops = bosses.drops /\ bosses'.prices = bosses.prices
    BY <1>0, <2>1 DEF partySeed
  <2>3. Quietly("bosses")
    BY <1>11 DEF SeedPartySizes, Asked, Quietly, Silently, Q
  <2> QED
    BY <2>2, <2>3, SameBosses DEF BossesAreTold
<1> QED
  BY <1>1, <1>2, <1>3, <1>4, <1>5, <1>6, <1>7, <1>8, <1>9, <1>10, <1>11

TimeTold ==
  \A s \in SectionsOf :
    \/ Section(s)' = Section(s)
    \/ s \in answer'.touched
    \/ \E r \in Requests : call[r] # NoCall /\ Silently(Q(r).op, s)

\* Sections of tables nobody writes stay.
LEMMA UnchangedIsTold ==
  ASSUME UNCHANGED tables
  PROVE  TimeTold
<1>0. /\ UNCHANGED <<worlds, mvpGrades, huntLoot, cashbook, faqs, files, crops, assets>>
      /\ UNCHANGED <<contents, hunting, spend, hexa, symbols, enhancement, items, bosses>>
  BY DEF tables, plain, grouped, dropped
<1>1. /\ UNCHANGED <<WorldsSection, GradesSection, LootSection, CashbookSection, FaqsSection>>
      /\ UNCHANGED <<AssetsSection, ImageCropsSection>>
  BY <1>0 DEF WorldsSection, GradesSection, LootSection, CashbookSection, FaqsSection,
     AssetsSection, ImageCropsSection, ItemsOf
<1>2. /\ UNCHANGED <<ContentsSection, HuntingSection, SpendSection>>
      /\ UNCHANGED <<HexaSection, SymbolsSection, EnhancementSection>>
  BY <1>0 DEF ContentsSection, HuntingSection, SpendSection, HexaSection, SymbolsSection,
     EnhancementSection
<1>3. /\ UNCHANGED <<DropItemsSection, DropBoxesSection, EquipmentSection>>
      /\ UNCHANGED <<BossesSection, BossDropsSection, CrystalPricesSection>>
  BY <1>0 DEF DropItemsSection, DropBoxesSection, EquipmentSection, BossesSection,
     BossDropsSection, CrystalPricesSection
<1>4. ASSUME NEW s \in SectionsOf
      PROVE  s \in {"worlds", "mvpGrades", "huntLoot", "cashbookCategories", "faqs", "assets",
                    "imageCrops", "contents", "huntingGrounds", "spendCatalog", "hexaMatrix",
                    "symbolCosts", "enhancementCosts", "dropItems", "dropBoxes", "equipmentItems",
                    "bosses", "bossDrops", "crystalPrices"}
  BY DEF SectionsOf
<1>5. \A s \in SectionsOf : Section(s)' = Section(s)
  BY <1>1, <1>2, <1>3, <1>4 DEF Section
<1> QED
  BY <1>5 DEF TimeTold

LEMMA PlainIsTold ==
  ASSUME TablesGood, InPlain
  PROVE  TimeTold
<1>1. CASE scene = "worlds"
  BY <1>1, WorldsTold DEF InPlain, InWorlds, SectionsOf, Section, TimeTold
<1>2. CASE scene = "mvpGrades"
  BY <1>2, GradesTold DEF InPlain, InGrades, SectionsOf, Section, TimeTold
<1>3. CASE scene = "huntLoot"
  BY <1>3, LootTold DEF InPlain, InLoot, SectionsOf, Section, TimeTold
<1>4. CASE scene = "cashbook"
  BY <1>4, CashbookTold DEF InPlain, InCashbook, SectionsOf, Section, TimeTold
<1>5. CASE scene = "faqs"
  BY <1>5, FaqsTold DEF InPlain, InFaqs, TablesGood, SectionsOf, Section, TimeTold
<1>6. CASE scene = "pictures"
  BY <1>6, PicturesTold DEF InPlain, InPictures, SectionsOf, Section, TimeTold
<1> QED
  BY <1>1, <1>2, <1>3, <1>4, <1>5, <1>6 DEF InPlain

LEMMA GroupedIsTold ==
  ASSUME TablesGood, InGrouped
  PROVE  TimeTold
<1>1. CASE scene = "contents"
  BY <1>1, ContentsTold DEF InGrouped, InContents, TablesGood, SectionsOf, Section, TimeTold
<1>2. CASE scene = "hunting"
  BY <1>2, HuntingTold DEF InGrouped, InHunting, TablesGood, SectionsOf, Section, TimeTold
<1>3. CASE scene \in {"spend", "spendItems"}
  <2>1. PICK asked : SpendNext(asked)
    BY <1>3 DEF InGrouped, InSpend
  <2> QED
    BY <1>3, <2>1, SpendTold DEF TablesGood, SectionsOf, Section, TimeTold, Quietly
<1>4. CASE scene \in {"hexa", "hexaCores"}
  <2>1. PICK asked : HexaNext(asked)
    BY <1>4 DEF InGrouped, InHexa
  <2> QED
    BY <1>4, <2>1, HexaTold DEF TablesGood, SectionsOf, Section, TimeTold
<1>5. CASE scene \in {"symbols", "symbolCosts"}
  <2>1. PICK asked : SymbolsNext(asked)
    BY <1>5 DEF InGrouped, InSymbols
  <2> QED
    BY <1>5, <2>1, SymbolsTold DEF TablesGood, SectionsOf, Section, TimeTold
<1>6. CASE scene = "enhancement"
  BY <1>6, EnhancementTold
     DEF InGrouped, InEnhancement, TablesGood, SectionsOf, Section, TimeTold, Quietly
<1> QED
  BY <1>1, <1>2, <1>3, <1>4, <1>5, <1>6 DEF InGrouped

LEMMA DroppedIsTold ==
  ASSUME TablesGood, InDropped
  PROVE  TimeTold
<1>1. CASE scene \in {"items", "boxes"}
  <2>1. PICK asked : ItemsNext(asked)
    BY <1>1 DEF InDropped, InItems
  <2> QED
    BY <1>1, <2>1, ItemsTold DEF TablesGood, SectionsOf, Section, TimeTold
<1>2. CASE scene \in {"bosses", "difficulties", "prices", "drops", "manual"}
  <2>1. PICK asked : BossesNext(asked)
    BY <1>2 DEF InDropped
  <2>2. BossesAreTold
    BY <2>1, BossesTold DEF TablesGood
  <2>3. SectionsOf = {"bosses", "bossDrops", "crystalPrices"}
    BY <1>2 DEF SectionsOf
  <2> QED
    BY <2>2, <2>3 DEF BossesAreTold, Section, TimeTold, Quietly
<1> QED
  BY <1>1, <1>2 DEF InDropped

\* Whatever changes what an app would see of a section moves the time of that section: every
\* repository under src/src/modules calls touchSection in the transaction that writes, and one that
\* does not (an unknown key, a failed check, a move at the end of a list) writes nothing an app
\* sees.  But for the drops and prices that go with a difficulty, and what a deploy fills in.  Of one
\* operator at a time, which the code does not enforce, and of several on pictures and completions.
THEOREM TimeTells ==
  ASSUME OneOperator
  PROVE  Spec => TimeTellsEveryChange
<1>1. IInv /\ [Next]_vars => TimeTold
  <2>1. ASSUME IInv, Next PROVE TimeTold
    <3>1. TablesGood
      BY <2>1 DEF IInv
    <3>2. CASE (\E r \in Requests : Cut(r)) /\ UNCHANGED <<plain, grouped, dropped>>
      BY <3>2, UnchangedIsTold DEF Cut, tables
    <3> QED
      BY <2>1, <3>1, <3>2, PlainIsTold, GroupedIsTold, DroppedIsTold DEF Next
  <2>2. UNCHANGED vars => TimeTold
    BY UnchangedIsTold DEF vars
  <2> QED
    BY <2>1, <2>2
<1>2. Spec => []IInv
  BY Invariant
<1>3. IInv /\ [Next]_vars => [TimeTold]_vars
  BY <1>1
<1> QED
  BY <1>2, <1>3, PTL DEF Spec, TimeTellsEveryChange, TimeTold

=============================================================================
