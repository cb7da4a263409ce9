--------------------------- MODULE Administration ---------------------------
(***************************************************************************)
(* The catalogue as a whole: what administrators and the seeding at deploy *)
(* time do to the lists behind GET /v1/game-data.                          *)
(*                                                                         *)
(* Lists that share no table cannot disturb each other, so a behaviour     *)
(* stays on one scene: the lists that do share one, and the requests made  *)
(* of them.                                                                *)
(***************************************************************************)
EXTENDS Contents, SpendCatalog, HexaMatrix, SymbolCosts, Enhancement, Bosses

CONSTANTS
  Scenes,    \* the scenes to check
  Together   \* the scenes in which several operators work at once; in the others one does
VARIABLE scene

plain   == <<worlds, mvpGrades, huntLoot, cashbook, faqs, files, crops>>
grouped == <<contents, hunting, spend, hexa, symbols, enhancement>>
dropped == <<items, bosses>>
tables  == <<assets, plain, grouped, dropped>>
vars    == <<base, scene, tables>>

AllScenes ==
  {"worlds", "mvpGrades", "huntLoot", "cashbook", "faqs", "pictures", "contents", "hunting",
   "spend", "spendItems", "hexa", "hexaCores", "symbols", "symbolCosts", "enhancement",
   "items", "boxes", "bosses", "difficulties", "prices", "drops", "manual"}

\* In these every picture is in its table from the start.
PicturesThere == {"faqs", "hexa", "hexaCores", "symbolCosts", "items", "boxes", "spendItems", "drops"}

ASSUME ScenesAssumption ==
  /\ Scenes \subseteq AllScenes /\ Together \subseteq AllScenes
  /\ {1, 2} \subseteq FewKeys   \* the rows scenes start with

Alone == CHOOSE r \in Requests : TRUE

\* Empty tables, or the rows the requests of a scene work on.
Init ==
  /\ scene \in Scenes
  /\ CatalogueInit /\ (scene \in PicturesThere => DOMAIN assets = Texts)
  /\ ListsInit /\ ContentsInit /\ enhancement = NoEnhancement
  /\ cashbook.spend # <<>> => scene \in {"spend", "spendItems"}
  /\ scene = "spendItems" => cashbook.spend # <<>>
  /\ spend \in IF scene = "spendItems" THEN {SpendReady({1}), SpendReady({1, 2})} ELSE {NoSpend}
  /\ symbols \in IF scene = "symbolCosts" THEN {SymbolsReady(0), SymbolsReady(2)} ELSE {NoSymbols}
  /\ hexa \in IF scene = "hexaCores" THEN {NoHexa, HexaReady(NoHexa)} ELSE {NoHexa}
  /\ items = IF scene \in {"boxes", "drops"} THEN ItemsReady ELSE NoItems
  /\ bosses \in CASE scene = "difficulties" -> {BossesReady({1})}
                  [] scene = "drops" -> {BossesReady({1}), BossesReady({1, 2})}
                  [] scene \in {"prices", "manual"} -> {BossesReady({1, 2})}
                  [] OTHER -> {NoBosses}

-----------------------------------------------------------------------------
InWorlds   == WorldsNext   /\ UNCHANGED <<mvpGrades, huntLoot, cashbook, faqs, files, crops>>
InGrades   == GradesNext   /\ UNCHANGED <<worlds, huntLoot, cashbook, faqs, files, crops>>
InLoot     == LootNext     /\ UNCHANGED <<worlds, mvpGrades, cashbook, faqs, files, crops>>
InCashbook == CashbookNext /\ UNCHANGED <<worlds, mvpGrades, huntLoot, faqs, files, crops>>
InFaqs     == FaqsNext     /\ UNCHANGED <<worlds, mvpGrades, huntLoot, cashbook, files, crops>>
InPictures == PicturesNext /\ UNCHANGED <<worlds, mvpGrades, huntLoot, cashbook, faqs>>

InPlain ==
  \/ scene = "worlds" /\ InWorlds
  \/ scene = "mvpGrades" /\ InGrades
  \/ scene = "huntLoot" /\ InLoot
  \/ scene = "cashbook" /\ InCashbook
  \/ scene = "faqs" /\ InFaqs
  \/ scene = "pictures" /\ InPictures

InContents == ContentsNext /\ UNCHANGED <<hunting, spend, hexa, symbols, enhancement>>
InHunting  == HuntingNext  /\ UNCHANGED <<contents, spend, hexa, symbols, enhancement>>
InSpend(requests) ==
  SpendNext(requests) /\ UNCHANGED <<contents, hunting, hexa, symbols, enhancement>>
InHexa(requests) ==
  HexaNext(requests) /\ UNCHANGED <<contents, hunting, spend, symbols, enhancement>>
InSymbols(requests) ==
  SymbolsNext(requests) /\ UNCHANGED <<contents, hunting, spend, hexa, enhancement>>
InEnhancement == EnhancementNext /\ UNCHANGED <<contents, hunting, spend, hexa, symbols>>

InGrouped ==
  \/ scene = "contents" /\ InContents
  \/ scene = "hunting" /\ InHunting
  \/ scene = "spend" /\ InSpend(SpendRequests)
  \/ scene = "spendItems" /\ InSpend(SpendItemRequests)
  \/ scene = "hexa" /\ InHexa(KindRequests)
  \/ scene = "hexaCores" /\ InHexa(CoreRequests)
  \/ scene = "symbols" /\ InSymbols(SymbolRequests)
  \/ scene = "symbolCosts" /\ InSymbols(SymbolCostRequests)
  \/ scene = "enhancement" /\ InEnhancement

InItems(requests) == ItemsNext(requests) /\ UNCHANGED bosses

InDropped ==
  \/ scene = "items" /\ InItems(ItemRequests)
  \/ scene = "boxes" /\ InItems(BoxRequests)
  \/ scene = "bosses" /\ BossesNext(BossRequests)
  \/ scene = "difficulties" /\ BossesNext(DifficultyRequests)
  \/ scene = "prices" /\ BossesNext(PriceRequests)
  \/ scene = "drops" /\ BossesNext(DropRequests)
  \/ scene = "manual" /\ BossesNext(ManualRequests)

Next ==
  /\ UNCHANGED scene
  /\ \/ InPlain /\ UNCHANGED <<grouped, dropped>>
     \/ InGrouped /\ UNCHANGED <<plain, dropped>>
     \/ InDropped /\ UNCHANGED <<plain, grouped>>
     \/ (\E r \in Requests : Cut(r)) /\ UNCHANGED <<plain, grouped, dropped>>
  /\ scene \in Together \/ \A r \in Requests \ {Alone} : call'[r] = NoCall

Spec == Init /\ [][Next]_vars

-----------------------------------------------------------------------------
(* Properties. *)

\* Every table holds rows of its columns, whatever a request left out or said NULL for.
TypeOK ==
  /\ answer.status \in {0, 1, 200, 400, 404, 409, 500}
  /\ ListsTypeOK /\ ContentsTypeOK /\ SpendTypeOK /\ HexaTypeOK /\ SymbolsTypeOK
  /\ EnhancementTypeOK /\ ItemsTypeOK /\ BossesTypeOK

\* An administrator who works alone is told what is wrong with a request: no check of the
\* database is left to end it as an error of the server.
NoServerError == answer.status # 500

-----------------------------------------------------------------------------
(* Rows an app must tell apart. *)

OrdersDiffer(t, S) == \A a, b \in S : a # b => t[a].order # t[b].order

\* Siblings have different places, so the order of a list is the administrator's and nothing
\* else's.  Drops and what boxes hold are sorted by their place alone.
PlacesDiffer ==
  /\ \A t \in {worlds, mvpGrades, huntLoot, cashbook.income, cashbook.spend, faqs.sheets,
               contents.categories, hunting.regions, spend.groups, hexa.kinds, hexa.stats,
               symbols.groups, bosses.rows} : OrdersDiffer(t, DOMAIN t)
  /\ \A sheet \in DOMAIN faqs.sheets : OrdersDiffer(faqs.items, ItemsOf(faqs, sheet))
  /\ \A section \in Sections : OrdersDiffer(contents.rows, InSection(contents, section))
  /\ \A region \in DOMAIN hunting.regions :
       OrdersDiffer(hunting.grounds, GroundsOf(hunting, region))
  /\ \A group \in DOMAIN spend.groups : OrdersDiffer(spend.items, ItemsOfGroup(spend, group))
  /\ \A i \in DOMAIN hexa.cores : OrdersDiffer(hexa.cores, CoresOf(hexa, hexa.cores[i].job))
  /\ \A group \in DOMAIN symbols.groups :
       OrdersDiffer(symbols.symbols, SymbolsOf(symbols, group))
  /\ \A box \in DOMAIN items.boxes : OrdersDiffer(Held(items, box), DOMAIN Held(items, box))
  /\ \A p \in DOMAIN bosses.diffs : OrdersDiffer(bosses.drops, DropsOf(bosses, p))

\* What an app looks up finds one row: contents and equipment by their name without spaces, the
\* hexa kind of a core no table names, the items of a tile by tier or options, an open boss.
OneRowFound ==
  /\ \A a, b \in DOMAIN contents.rows :
       Comparable(contents.rows[a].text) = Comparable(contents.rows[b].text) => a = b
  /\ \A a, b \in DOMAIN items.equipment :
       Comparable(items.equipment[a]) = Comparable(items.equipment[b]) => a = b
  /\ \A a, b \in DOMAIN hexa.kinds :
       /\ hexa.kinds[a].default /\ hexa.kinds[b].default
       /\ hexa.kinds[a].api = hexa.kinds[b].api
       => a = b
  /\ \A a, b \in DOMAIN spend.items :
       a # b /\ spend.items[a].tile = spend.items[b].tile =>
         ToldApart(spend.items[a], spend.items[a].group, spend.items[b])
  /\ \A a, b \in {i \in DOMAIN bosses.manual : bosses.manual[i].open} :
       bosses.manual[a].boss = bosses.manual[b].boss => a = b

-----------------------------------------------------------------------------
(* Rows that refer to rows. *)

\* Nothing points at what is not there, and no boss is left without a difficulty: an app refuses
\* the whole table then.  A picture an app is told of has a file.
ReferencesResolve ==
  /\ \A p \in DOMAIN assets : assets[p] \in files
  /\ \A i \in DOMAIN faqs.items : faqs.items[i].sheet \in DOMAIN faqs.sheets
  /\ \A k \in DOMAIN contents.rows : contents.rows[k].category \in DOMAIN contents.categories
  /\ \A k \in DOMAIN hunting.grounds : hunting.grounds[k].region \in DOMAIN hunting.regions
  /\ \A k \in DOMAIN spend.groups : spend.groups[k].category \in SpendCategories
  /\ \A k \in DOMAIN spend.items :
       /\ spend.items[k].group \in DOMAIN spend.groups /\ spend.items[k].tile \in DOMAIN spend.tiles
       /\ FormsKnown(spend, spend.items[k])
  /\ \A name \in DOMAIN hexa.names : hexa.names[name] \in DOMAIN hexa.kinds
  /\ \A k \in DOMAIN symbols.symbols : symbols.symbols[k].group \in DOMAIN symbols.groups
  /\ \A p \in DOMAIN symbols.costs : p[1] \in DOMAIN symbols.symbols
  /\ \A box \in DOMAIN items.boxes : {box} \cup DOMAIN Held(items, box) \subseteq DOMAIN items.items
  /\ \A p \in DOMAIN bosses.diffs : p[1] \in DOMAIN bosses.rows
  /\ \A key \in DOMAIN bosses.rows : DiffsOf(bosses, key) # {}
  /\ DOMAIN bosses.prices \subseteq DOMAIN bosses.diffs
  /\ \A i \in DOMAIN bosses.drops :
       bosses.drops[i].pair \in DOMAIN bosses.diffs /\ bosses.drops[i].item \in DOMAIN items.items

\* An app adds up costs from the lowest level on.  There is no gap below a level that has one:
\* of hexa kinds, of symbols (whose costs have a past), of the steps of star force.
NoGapInCosts ==
  /\ \A k \in DOMAIN hexa.costs : \E n \in 0..hexa.kinds[k].max : hexa.costs[k] = CostLevels(n)
  /\ \A k \in DOMAIN symbols.symbols :
       \E n \in 1..symbols.groups[symbols.symbols[k].group].max :
         StandingLevels(symbols, k) = 1..(n - 1)
  /\ \E n \in 0..(MaxStar + 1) : DOMAIN enhancement.stars = 0..(n - 1)

-----------------------------------------------------------------------------
(* Dated prices. *)

\* Rows of one thing follow on each other without gap or overlap: on every day from the first row
\* on there is one price, and of a symbol's level there is one on every day there ever was a cost.
Follow(rows) ==
  /\ rows # {} => Standing(rows) # {}
  /\ \A day \in {0} \cup Days :
       Cardinality(InForce(rows, day)) =
         IF \E x \in rows : x.from = None \/ x.from <= day THEN 1 ELSE 0
OnePriceInForce ==
  /\ \A p \in DOMAIN bosses.prices : Follow(bosses.prices[p])
  /\ \A p \in DOMAIN symbols.costs : Follow(symbols.costs[p])

Things ==
  ({"crystal"} \X FewKeys \X Difficulties) \cup ({"symbol"} \X FewKeys \X Levels)
PriceRows(thing) ==
  LET p == <<thing[2], thing[3]>>
  IN IF thing[1] = "crystal" THEN PricesOf(bosses, p) ELSE RowsOf(symbols, p[1], p[2])

StartOf(row) == IF row.from = None THEN 0 ELSE row.from
Starts(rows) == {StartOf(x) : x \in rows}

Stack == INSTANCE PriceStack WITH
  stacks <- [thing \in Things |-> Starts(PriceRows(thing))]

\* The tables of prices implement stacks of which only the top changes: a new price starts after the
\* latest there is and only the latest is taken back, so the days before its start keep what they
\* read.  Its start need not be to come: from that day on what has passed may read another price.
PricesAreStacks == Stack!Spec

-----------------------------------------------------------------------------
(* What an app is told, and what a deploy may not do. *)

Section(s) ==
  CASE s = "worlds" -> WorldsSection
    [] s = "mvpGrades" -> GradesSection
    [] s = "huntLoot" -> LootSection
    [] s = "cashbookCategories" -> CashbookSection
    [] s = "faqs" -> FaqsSection
    [] s = "assets" -> AssetsSection
    [] s = "imageCrops" -> ImageCropsSection
    [] s = "contents" -> ContentsSection
    [] s = "huntingGrounds" -> HuntingSection
    [] s = "spendCatalog" -> SpendSection
    [] s = "hexaMatrix" -> HexaSection
    [] s = "symbolCosts" -> SymbolsSection
    [] s = "enhancementCosts" -> EnhancementSection
    [] s = "dropItems" -> DropItemsSection
    [] s = "dropBoxes" -> DropBoxesSection
    [] s = "equipmentItems" -> EquipmentSection
    [] s = "bosses" -> BossesSection
    [] s = "bossDrops" -> BossDropsSection
    [] s = "crystalPrices" -> CrystalPricesSection

\* The sections whose tables a scene writes.
SectionsOf ==
  CASE scene \in {"worlds", "mvpGrades", "huntLoot", "faqs", "contents", "symbolCosts"} -> {scene}
    [] scene = "cashbook" -> {"cashbookCategories"}
    [] scene = "pictures" -> {"assets", "imageCrops"}
    [] scene = "hunting" -> {"huntingGrounds"}
    [] scene \in {"spend", "spendItems"} -> {"spendCatalog"}
    [] scene \in {"hexa", "hexaCores"} -> {"hexaMatrix"}
    [] scene = "symbols" -> {"symbolCosts"}
    [] scene = "enhancement" -> {"enhancementCosts"}
    [] scene \in {"items", "boxes"} -> {"dropItems", "dropBoxes", "equipmentItems"}
    [] OTHER -> {"bosses", "bossDrops", "crystalPrices"}

Silently(op, section) ==
  \/ op = "deleteDifficulty" /\ section \in {"bossDrops", "crystalPrices"}
  \/ op = "seedCrystalPrices" /\ section = "bosses"
  \/ op = "seedSpendCatalog" /\ section = "spendCatalog"
  \/ op = "seedEnhancementRules" /\ section = "enhancementCosts"

\* Whatever changes what an app would see of a section moves the time of that section, so the app
\* fetches it.  But for what goes with a difficulty, and the party sizes and rules a deploy fills.
TimeTellsEveryChange ==
  [][\A s \in SectionsOf :
       \/ Section(s)' = Section(s)
       \/ s \in answer'.touched
       \/ \E r \in Requests : call[r] # NoCall /\ Silently(Q(r).op, s)]_vars

Seeding ==
  {"seedWorlds", "seedMvpGrades", "seedHuntLoot", "seedCashbook", "seedFaqs", "seedContents",
   "seedHuntingGrounds", "seedSpendCatalog", "seedSpendRows", "seedHexaMatrix", "seedSymbolCosts",
   "seedEnhancementRules", "seedEnhancementCosts", "seedDropItems", "seedEquipment",
   "seedDropBoxes", "seedBosses", "seedBoss", "seedBossDrops", "seedCrystalPrices", "seedPrices"}

KeepsRows(old, new) == \A k \in DOMAIN old : k \in DOMAIN new /\ new[k] = old[k]
KeepsTables(old, new) == \A t \in DOMAIN old : KeepsRows(old[t], new[t])
KeepsValue(old, new)  == old \in {None, new}

\* Deploying again keeps every row an administrator may have written: a seeding adds rows, and
\* fills a value nobody has set.
SeedingKeepsRows ==
  [][(\E r \in Requests : call[r] # NoCall /\ Q(r).op \in Seeding) =>
       /\ KeepsRows(worlds, worlds') /\ KeepsRows(mvpGrades, mvpGrades')
       /\ KeepsRows(huntLoot, huntLoot')
       /\ KeepsTables(cashbook, cashbook') /\ KeepsTables(faqs, faqs')
       /\ KeepsTables(contents, contents') /\ KeepsTables(hunting, hunting')
       /\ KeepsTables(hexa, hexa') /\ KeepsTables(symbols, symbols') /\ KeepsTables(items, items')
       /\ \A t \in {"forms", "groups", "tiles", "items"} : KeepsRows(spend[t], spend'[t])
       /\ KeepsValue(spend.rules, spend.rules')
       /\ KeepsRows(enhancement.bands, enhancement.bands')
       /\ KeepsRows(enhancement.stars, enhancement.stars')
       /\ KeepsValue(enhancement.rules, enhancement.rules')
       /\ KeepsValue(enhancement.soul, enhancement.soul')
       /\ \A t \in {"rows", "drops", "manual"} : KeepsRows(bosses[t], bosses'[t])
       /\ \A p \in DOMAIN bosses.prices : bosses.prices[p] \subseteq PricesOf(bosses, p)'
       /\ \A f \in DOMAIN bosses.rules : KeepsValue(bosses.rules[f], bosses.rules'[f])
       /\ \A p \in DOMAIN bosses.diffs :
            /\ KeepsValue(bosses.diffs[p].party, bosses.diffs'[p].party)
            /\ bosses.diffs'[p].level = bosses.diffs[p].level]_vars

-----------------------------------------------------------------------------
(* What the comments of the code promise and the code does not keep. *)

\* touchSection is called for every write, because an app has to hear of removed rows too:
\* neither drops nor prices change while their section keeps its time.
EveryChangeTold ==
  [][\A s \in {"bossDrops", "crystalPrices"} :
       Section(s)' = Section(s) \/ s \in answer'.touched]_vars

=============================================================================
