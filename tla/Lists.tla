------------------------------- MODULE Lists -------------------------------
(***************************************************************************)
(* The lists of the catalogue that stand alone: worlds, MVP grades, loot   *)
(* of hunting, categories of the cashbook and its kinds of items, FAQs,    *)
(* and the pictures with their crops.  Every operation of the repositories *)
(* and every handler of the administration that writes them.               *)
(***************************************************************************)
EXTENDS Catalogue

VARIABLES
  worlds,     \* key -> [text, group, order]
  mvpGrades,  \* key -> [text, order]
  huntLoot,   \* key -> [text, kind, price, order]
  cashbook,   \* [income, spend: categories, kinds: item kinds], key -> [text, order] each
  faqs,       \* [sheets: key -> [text, order], items: id -> [sheet, text, order]]
  files,      \* the files nginx serves
  crops       \* slug -> text

ListsInit ==
  /\ worlds = <<>> /\ mvpGrades = <<>> /\ huntLoot = <<>>
  /\ \E spending \in {<<>>, One(1, [text |-> 1, order |-> 0])} :
       cashbook = [income |-> <<>>, spend |-> spending, kinds |-> <<>>]
  /\ faqs = [sheets |-> <<>>, items |-> <<>>]
  /\ files = {1} /\ crops = <<>>

PriceFits(kind, price) == (kind = "consumable") = (price # None)

\* The columns of the tables.
PlainRow    == [text : Texts, order : Nat]
WorldRow    == [text : Texts, group : {None, 1}, order : Nat]
GradeRow    == PlainRow
LootRow     == {row \in [text : Texts, kind : {"fragment", "consumable"}, price : {None, 1},
                         order : Nat] : PriceFits(row.kind, row.price)}
CategoryRow == PlainRow
ItemKindRow == PlainRow
FaqSheetRow == PlainRow
FaqItemRow  == [sheet : FewKeys, text : Texts, order : Nat]

ListsTypeOK ==
  /\ IsTable(worlds, Keys, WorldRow) /\ IsTable(mvpGrades, Keys, GradeRow)
  /\ IsTable(huntLoot, Keys, LootRow)
  /\ IsTable(cashbook.income, FewKeys, CategoryRow) /\ IsTable(cashbook.spend, FewKeys, CategoryRow)
  /\ IsTable(cashbook.kinds, FewKeys, ItemKindRow)
  /\ IsTable(faqs.sheets, FewKeys, FaqSheetRow) /\ IsTable(faqs.items, FewKeys, FaqItemRow)
  /\ IsTable(assets, Texts, Texts) /\ IsTable(crops, Texts, Texts) /\ files \subseteq Texts

-----------------------------------------------------------------------------
(* Worlds.  The group of trade is for the statistics; an app does not see it. *)

WorldRequests ==
  [op : {"createWorld"}, key : Keys, text : Texts, group : {None, 1}]
    \cup [op : {"updateWorld"}, key : Keys, text : Texts, group : {None, 1, Absent}]
    \cup [op : {"moveWorld"}, key : Keys, dir : Dirs]
    \cup {[op |-> "seedWorlds"]}

AskWorlds(r) == \E q \in WorldRequests : Ask(r, q, worlds) /\ UNCHANGED worlds

worldCreate(seen, now, q) ==
  Inserted(now, One(q.key, [text |-> q.text, group |-> q.group,
                            order |-> NextOrder(seen, DOMAIN seen)]), "WorldExists")
worldUpdate(now, q) ==
  Updated(now, q.key, LAMBDA row : [row EXCEPT !.text = q.text,
                                      !.group = IF q.group = Absent THEN @ ELSE q.group])
worldMove(seen, now, q) == Moved(seen, now, DOMAIN seen, q.key, q.dir)
worldSeed(seen, now) ==
  Seeded(seen, now, [k \in SeedKeys |-> [text |-> 1, group |-> 1, order |-> k - 1]])

Worlds(r, op, out, codes) ==
  Asked(r, op) /\ worlds' = out.now /\ Close(r, "worlds", out, codes) /\ UNCHANGED assets

CreateWorld(r) ==
  Worlds(r, "createWorld",
    Pictured(r, Q(r).text, worlds, worldCreate(Seen(r), worlds, Q(r))), [WorldExists |-> 409])
UpdateWorld(r) ==
  Worlds(r, "updateWorld", Pictured(r, Q(r).text, worlds, worldUpdate(worlds, Q(r))), NoCodes)
MoveWorld(r)  == Worlds(r, "moveWorld", worldMove(Seen(r), worlds, Q(r)), NoCodes)
SeedWorlds(r) == Worlds(r, "seedWorlds", worldSeed(Seen(r), worlds), SeedCodes)

WorldsNext == \E r \in Requests :
  AskWorlds(r) \/ CreateWorld(r) \/ UpdateWorld(r) \/ MoveWorld(r) \/ SeedWorlds(r)

WorldsSection == Shown(worlds)

-----------------------------------------------------------------------------
(* MVP grades.  The seven keys are an ENUM: rows come from the seed only. *)

GradeRequests ==
  [op : {"updateMvpGrade"}, key : Keys, text : Texts]
    \cup [op : {"moveMvpGrade"}, key : Keys, dir : Dirs]
    \cup {[op |-> "seedMvpGrades"]}

AskGrades(r) == \E q \in GradeRequests : Ask(r, q, mvpGrades) /\ UNCHANGED mvpGrades

gradeUpdate(now, q) == Updated(now, q.key, LAMBDA row : [row EXCEPT !.text = q.text])
gradeMove(seen, now, q) == Moved(seen, now, DOMAIN seen, q.key, q.dir)
gradeSeed(seen, now) == Seeded(seen, now, PlainSeed)

Grades(r, op, out) ==
  Asked(r, op) /\ mvpGrades' = out.now /\ Close(r, "mvpGrades", out, NoCodes) /\ UNCHANGED assets

UpdateMvpGrade(r) == Grades(r, "updateMvpGrade", gradeUpdate(mvpGrades, Q(r)))
MoveMvpGrade(r)   == Grades(r, "moveMvpGrade", gradeMove(Seen(r), mvpGrades, Q(r)))
SeedMvpGrades(r)  == Grades(r, "seedMvpGrades", gradeSeed(Seen(r), mvpGrades))

GradesNext == \E r \in Requests :
  AskGrades(r) \/ UpdateMvpGrade(r) \/ MoveMvpGrade(r) \/ SeedMvpGrades(r)

GradesSection == Shown(mvpGrades)

-----------------------------------------------------------------------------
(* Loot of hunting.  An NPC buys what is consumable, and nothing else. *)

LootRequests ==
  {q \in [op : {"createHuntLoot"}, key : Keys, kind : {"fragment", "consumable"}, text : Texts,
          price : {None, 1}] : PriceFits(q.kind, q.price)}
    \cup [op : {"updateHuntLoot"}, key : Keys, text : Texts, price : {None, 1}]
    \cup [op : {"moveHuntLoot"}, key : Keys, dir : Dirs]
    \cup {[op |-> "seedHuntLoot"]}

AskLoot(r) == \E q \in LootRequests : Ask(r, q, huntLoot) /\ UNCHANGED huntLoot

lootCreate(seen, now, q) ==
  Inserted(now, One(q.key, [text |-> q.text, kind |-> q.kind, price |-> q.price,
                            order |-> NextOrder(seen, DOMAIN seen)]), "HuntLootExists")
lootUpdate(now, q) ==
  IF q.key \in DOMAIN now /\ ~PriceFits(now[q.key].kind, q.price)
  THEN Failed(now, "HuntLootPriceShape")
  ELSE Updated(now, q.key, LAMBDA row : [row EXCEPT !.text = q.text, !.price = q.price])
lootMove(seen, now, q) == Moved(seen, now, DOMAIN seen, q.key, q.dir)
lootSeed(seen, now) ==
  Seeded(seen, now, [k \in SeedKeys |-> [text |-> 1, kind |-> "fragment", price |-> None,
                                         order |-> k - 1]])

Loot(r, op, out, codes) ==
  Asked(r, op) /\ huntLoot' = out.now /\ Close(r, "huntLoot", out, codes) /\ UNCHANGED assets

CreateHuntLoot(r) ==
  Loot(r, "createHuntLoot",
    Pictured(r, Q(r).text, huntLoot, lootCreate(Seen(r), huntLoot, Q(r))),
    [HuntLootExists |-> 409])
UpdateHuntLoot(r) ==
  Loot(r, "updateHuntLoot", Pictured(r, Q(r).text, huntLoot, lootUpdate(huntLoot, Q(r))),
    [HuntLootPriceShape |-> 400])
MoveHuntLoot(r) == Loot(r, "moveHuntLoot", lootMove(Seen(r), huntLoot, Q(r)), NoCodes)
SeedHuntLoot(r) == Loot(r, "seedHuntLoot", lootSeed(Seen(r), huntLoot), SeedCodes)

LootNext == \E r \in Requests :
  AskLoot(r) \/ CreateHuntLoot(r) \/ UpdateHuntLoot(r) \/ MoveHuntLoot(r) \/ SeedHuntLoot(r)

LootSection == [k \in DOMAIN huntLoot |->
  <<huntLoot[k].kind, huntLoot[k].price, Place(huntLoot, DOMAIN huntLoot, k)>>]

-----------------------------------------------------------------------------
(* The cashbook: categories of income and of spending, and kinds of items. *)

CashbookRequests ==
  [op : {"createCashbookCategory"}, type : {"income", "spend"}, key : FewKeys, text : Texts]
    \cup [op : {"updateCashbookCategory"}, type : {"income", "spend"}, key : FewKeys, text : Texts]
    \cup [op : {"moveCashbookCategory"}, type : {"income", "spend"}, key : FewKeys, dir : Dirs]
    \cup [op : {"updateCashbookItemKind"}, key : FewKeys, text : Texts]
    \cup {[op |-> "seedCashbook"]}

AskCashbook(r) == \E q \in CashbookRequests : Ask(r, q, cashbook) /\ UNCHANGED cashbook

categoryCreate(seen, now, q) ==
  In(now, q.type,
     Inserted(now[q.type],
       One(q.key, [text |-> q.text, order |-> NextOrder(seen[q.type], DOMAIN seen[q.type])]),
       "CashbookCategoryExists"))
categoryUpdate(now, q) ==
  In(now, q.type, Updated(now[q.type], q.key, LAMBDA row : [row EXCEPT !.text = q.text]))
categoryMove(seen, now, q) ==
  In(now, q.type, Moved(seen[q.type], now[q.type], DOMAIN seen[q.type], q.key, q.dir))
itemKindUpdate(now, q) ==
  In(now, "kinds", Updated(now.kinds, q.key, LAMBDA row : [row EXCEPT !.text = q.text]))

\* Categories and kinds are filled each when it is empty.
cashbookSeed(seen, now) ==
  LET noCategories == DOMAIN seen.income \cup DOMAIN seen.spend = {}
      noKinds      == DOMAIN seen.kinds = {}
      fill(t, empty) == IF empty THEN Inserted(t, PlainSeed, "unique") ELSE Kept(t)
      parts == [income |-> fill(now.income, noCategories), spend |-> fill(now.spend, noCategories),
                kinds |-> fill(now.kinds, noKinds)]
  IN IF ~noCategories /\ ~noKinds THEN Kept(now)
     ELSE IF \E t \in DOMAIN parts : parts[t].error # "none" THEN Failed(now, "unique")
     ELSE Wrote([t \in DOMAIN now |-> parts[t].now])

Cashbook(r, op, out, codes) ==
  Asked(r, op) /\ cashbook' = out.now /\ Close(r, "cashbookCategories", out, codes)
    /\ UNCHANGED assets

CreateCashbookCategory(r) ==
  Cashbook(r, "createCashbookCategory",
    Pictured(r, Q(r).text, cashbook, categoryCreate(Seen(r), cashbook, Q(r))),
    [CashbookCategoryExists |-> 409])
UpdateCashbookCategory(r) ==
  Cashbook(r, "updateCashbookCategory",
    Pictured(r, Q(r).text, cashbook, categoryUpdate(cashbook, Q(r))), NoCodes)
MoveCashbookCategory(r) ==
  Cashbook(r, "moveCashbookCategory", categoryMove(Seen(r), cashbook, Q(r)), NoCodes)
UpdateCashbookItemKind(r) ==
  Cashbook(r, "updateCashbookItemKind", itemKindUpdate(cashbook, Q(r)), NoCodes)
SeedCashbook(r) == Cashbook(r, "seedCashbook", cashbookSeed(Seen(r), cashbook), SeedCodes)

CashbookNext == \E r \in Requests :
  \/ AskCashbook(r) \/ CreateCashbookCategory(r) \/ UpdateCashbookCategory(r)
  \/ MoveCashbookCategory(r) \/ UpdateCashbookItemKind(r) \/ SeedCashbook(r)

CashbookSection == [t \in DOMAIN cashbook |-> Shown(cashbook[t])]

-----------------------------------------------------------------------------
(* FAQs: sheets, and the questions of a sheet, which have an id and no key. *)

FaqRequests ==
  [op : {"createFaqSheet", "updateFaqSheet"}, key : FewKeys, text : {2}]
    \cup [op : {"removeFaqSheet"}, key : FewKeys]
    \cup [op : {"moveFaqSheet"}, key : FewKeys, dir : Dirs]
    \cup [op : {"createFaqItem"}, key : FewKeys, text : {2}]
    \cup [op : {"updateFaqItem"}, id : FewKeys, text : {1}]
    \cup [op : {"removeFaqItem"}, id : FewKeys]
    \cup [op : {"moveFaqItem"}, id : FewKeys, dir : Dirs]
    \cup {[op |-> "seedFaqs"]}

ItemsOf(t, sheet) == {i \in DOMAIN t.items : t.items[i].sheet = sheet}

AskFaqs(r) == \E q \in FaqRequests :
  /\ q.op = "createFaqSheet" => NextOrder(faqs.sheets, DOMAIN faqs.sheets) <= MaxOrder
  /\ q.op = "createFaqItem" => NextOrder(faqs.items, ItemsOf(faqs, q.key)) <= MaxOrder
  /\ Ask(r, q, faqs) /\ UNCHANGED faqs

sheetCreate(seen, now, q) ==
  In(now, "sheets",
     Inserted(now.sheets,
       One(q.key, [text |-> q.text, order |-> NextOrder(seen.sheets, DOMAIN seen.sheets)]),
       "FaqSheetExists"))
sheetUpdate(now, q) ==
  In(now, "sheets", Updated(now.sheets, q.key, LAMBDA row : [row EXCEPT !.text = q.text]))

\* The items of a sheet go with it: ON DELETE CASCADE.
sheetRemove(now, q) ==
  IF q.key \notin DOMAIN now.sheets THEN Unknown(now)
  ELSE Wrote([sheets |-> Without(now.sheets, {q.key}),
              items |-> Without(now.items, ItemsOf(now, q.key))])
sheetMove(seen, now, q) ==
  In(now, "sheets", Moved(seen.sheets, now.sheets, DOMAIN seen.sheets, q.key, q.dir))

\* The database gives the row an id that no other has.
faqCreate(seen, now, q, id) ==
  IF q.key \notin DOMAIN seen.sheets THEN Failed(now, "NoFaqSheet")
  ELSE IF q.key \notin DOMAIN now.sheets THEN Failed(now, "foreign key")
  ELSE In(now, "items",
          Inserted(now.items, One(id, [sheet |-> q.key, text |-> q.text,
                     order |-> NextOrder(seen.items, ItemsOf(seen, q.key))]), "unique"))
faqUpdate(now, q) ==
  In(now, "items", Updated(now.items, q.id, LAMBDA row : [row EXCEPT !.text = q.text]))
faqRemove(now, q) ==
  IF q.id \notin DOMAIN now.items THEN Unknown(now)
  ELSE Wrote([now EXCEPT !.items = Without(@, {q.id})])
faqMove(seen, now, q) ==
  IF q.id \notin DOMAIN seen.items THEN Unknown(now)
  ELSE In(now, "items",
          Moved(seen.items, now.items, ItemsOf(seen, seen.items[q.id].sheet), q.id, q.dir))
faqSeed(seen, now) ==
  IF DOMAIN seen.sheets # {} THEN Kept(now)
  ELSE IF DOMAIN now.sheets \cap SeedKeys # {} THEN Failed(now, "unique")
  ELSE Wrote([sheets |-> Join(now.sheets, PlainSeed),
              items |-> Join(now.items, One(1, [sheet |-> 1, text |-> 1, order |-> 0]))])

Faqs(r, op, out, codes) ==
  Asked(r, op) /\ faqs' = out.now /\ Close(r, "faqs", out, codes) /\ UNCHANGED assets

CreateFaqSheet(r) ==
  Faqs(r, "createFaqSheet", sheetCreate(Seen(r), faqs, Q(r)), [FaqSheetExists |-> 409])
UpdateFaqSheet(r) == Faqs(r, "updateFaqSheet", sheetUpdate(faqs, Q(r)), NoCodes)
RemoveFaqSheet(r) == Faqs(r, "removeFaqSheet", sheetRemove(faqs, Q(r)), NoCodes)
MoveFaqSheet(r)   == Faqs(r, "moveFaqSheet", sheetMove(Seen(r), faqs, Q(r)), NoCodes)
CreateFaqItem(r)  == \E id \in Fresh(FewKeys, faqs.items) :
  Faqs(r, "createFaqItem", faqCreate(Seen(r), faqs, Q(r), id), [NoFaqSheet |-> 404])
UpdateFaqItem(r) == Faqs(r, "updateFaqItem", faqUpdate(faqs, Q(r)), NoCodes)
RemoveFaqItem(r) == Faqs(r, "removeFaqItem", faqRemove(faqs, Q(r)), NoCodes)
MoveFaqItem(r)   == Faqs(r, "moveFaqItem", faqMove(Seen(r), faqs, Q(r)), NoCodes)
SeedFaqs(r)      == Faqs(r, "seedFaqs", faqSeed(Seen(r), faqs), SeedCodes)

FaqsNext == \E r \in Requests :
  \/ AskFaqs(r) \/ CreateFaqSheet(r) \/ UpdateFaqSheet(r) \/ RemoveFaqSheet(r) \/ MoveFaqSheet(r)
  \/ CreateFaqItem(r) \/ UpdateFaqItem(r) \/ RemoveFaqItem(r) \/ MoveFaqItem(r) \/ SeedFaqs(r)

FaqsSection ==
  [sheets |-> Shown(faqs.sheets),
   items |-> [i \in DOMAIN faqs.items |->
                <<faqs.items[i].sheet, Place(faqs.items, ItemsOf(faqs, faqs.items[i].sheet), i)>>]]

-----------------------------------------------------------------------------
(* Pictures.  The file is written first and its row after it, so that no *)
(* app is told of a file that is not there.                              *)

PictureRequests ==
  [op : {"putFile"}, path : Texts, hash : Texts]
    \cup [op : {"putCrop"}, slug : Texts, text : Texts]
    \cup [op : {"removeCrop"}, slug : Texts]

AskPictures(r) == \E q \in PictureRequests :
  Ask(r, q, [file |-> FALSE]) /\ UNCHANGED <<files, crops>>

WriteFile(r) ==
  /\ Asked(r, "putFile") /\ ~Seen(r).file
  /\ files' = files \cup {Q(r).hash}
  /\ call' = [call EXCEPT ![r].seen.file = TRUE]
  /\ UNCHANGED <<answer, assets, crops>>

\* The same content under the same path moves no time: no app fetches it again.
assetPut(now, q) ==
  IF q.path \in DOMAIN now /\ now[q.path] = q.hash THEN Kept(now)
  ELSE Wrote(Join(now, One(q.path, q.hash)))

PutFile(r) ==
  /\ Asked(r, "putFile") /\ Seen(r).file
  /\ LET out == assetPut(assets, Q(r))
     IN assets' = out.now /\ Close(r, "assets", out, NoCodes)
  /\ UNCHANGED <<files, crops>>

cropPut(now, q) == Wrote(Join(now, One(q.slug, q.text)))
cropRemove(now, q) ==
  IF q.slug \in DOMAIN now THEN Wrote(Without(now, {q.slug})) ELSE Unknown(now)

Crops(r, op, out) ==
  Asked(r, op) /\ crops' = out.now /\ Close(r, "imageCrops", out, NoCodes)
    /\ UNCHANGED <<assets, files>>

PutCrop(r)    == Crops(r, "putCrop", cropPut(crops, Q(r)))
RemoveCrop(r) == Crops(r, "removeCrop", cropRemove(crops, Q(r)))

PicturesNext == \E r \in Requests :
  AskPictures(r) \/ WriteFile(r) \/ PutFile(r) \/ PutCrop(r) \/ RemoveCrop(r)

\* Every column of the two tables is shown.
AssetsSection     == assets
ImageCropsSection == crops

=============================================================================
