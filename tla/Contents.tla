------------------------------ MODULE Contents ------------------------------
(***************************************************************************)
(* The catalogue of contents (quests and bosses of the scheduler, found by *)
(* the name Nexon's API gives them) and of hunting grounds.  Rows of both  *)
(* are never removed: records hold their keys.                             *)
(***************************************************************************)
EXTENDS Catalogue

VARIABLES
  contents,  \* [categories: key -> [text, order], rows: key -> [section, category, text, order]]
  hunting    \* [regions: key -> [text, order], grounds: key -> [region, name, levels, order]]

ContentsInit ==
  /\ contents = [categories |-> <<>>, rows |-> <<>>]
  /\ hunting = [regions |-> <<>>, grounds |-> <<>>]

Categories == FewKeys   \* the ENUM content_category
Sections   == {1, 2}    \* daily, weekly
LevelLists == {{1}, {1, 2}}

ContentCategoryRow == [text : Texts, order : Nat]
ContentRow         == [section : Sections, category : Categories, text : Names, order : Nat]
RegionRow          == [text : Texts, order : Nat]
GroundRow          == [region : FewKeys, name : {1, 2}, levels : LevelLists, order : Nat]

ContentsTypeOK ==
  /\ IsTable(contents.categories, Categories, ContentCategoryRow)
  /\ IsTable(contents.rows, Keys, ContentRow)
  /\ IsTable(hunting.regions, FewKeys, RegionRow) /\ IsTable(hunting.grounds, Keys, GroundRow)

-----------------------------------------------------------------------------
(* Contents.  The payload of a row is its API name. *)

ContentRequests ==
  [op : {"updateContentCategory"}, key : Categories, text : {1, 2}]
    \cup [op : {"moveContentCategory"}, key : Categories, dir : Dirs]
    \cup [op : {"createContent"}, key : Keys, section : Sections, category : {1}, text : Names]
    \cup [op : {"updateContent"}, key : Keys, category : {1}, text : Names]
    \cup [op : {"moveContent"}, key : Keys, dir : Dirs]
    \cup {[op |-> "seedContents"]}

AskContents(r) == \E q \in ContentRequests : Ask(r, q, contents) /\ UNCHANGED contents

InSection(t, section) == {k \in DOMAIN t.rows : t.rows[k].section = section}

\* checkApiName: an app must find one key for a name.
ApiNameTaken(t, self, name) ==
  \E k \in DOMAIN t.rows \ {self} : Comparable(t.rows[k].text) = Comparable(name)

contentCategoryUpdate(now, q) ==
  In(now, "categories",
     Updated(now.categories, q.key, LAMBDA row : [row EXCEPT !.text = q.text]))
contentCategoryMove(seen, now, q) ==
  In(now, "categories",
     Moved(seen.categories, now.categories, DOMAIN seen.categories, q.key, q.dir))

contentCreate(seen, now, q) ==
  IF q.category \notin DOMAIN seen.categories THEN Failed(now, "NoContentCategory")
  ELSE IF ApiNameTaken(seen, None, q.text) THEN Failed(now, "ApiNameTaken")
  ELSE IF \E k \in DOMAIN now.rows : now.rows[k].text = q.text THEN Failed(now, "ContentExists")
  ELSE In(now, "rows",
          Inserted(now.rows,
            One(q.key, [section |-> q.section, category |-> q.category, text |-> q.text,
                        order |-> NextOrder(seen.rows, InSection(seen, q.section))]),
            "ContentExists"))

contentUpdate(seen, now, q) ==
  IF q.key \notin DOMAIN seen.rows THEN Unknown(now)
  ELSE IF q.category \notin DOMAIN seen.categories THEN Failed(now, "NoContentCategory")
  ELSE IF ApiNameTaken(seen, q.key, q.text) THEN Failed(now, "ApiNameTaken")
  ELSE IF \E k \in DOMAIN now.rows \ {q.key} : now.rows[k].text = q.text
       THEN Failed(now, "unique")
  ELSE In(now, "rows",
          Updated(now.rows, q.key,
                  LAMBDA row : [row EXCEPT !.text = q.text, !.category = q.category]))

contentMove(seen, now, q) ==
  IF q.key \notin DOMAIN seen.rows THEN Unknown(now)
  ELSE In(now, "rows",
          Moved(seen.rows, now.rows, InSection(seen, seen.rows[q.key].section), q.key, q.dir))

\* The seed has all categories of the ENUM, or it throws.
contentSeed(seen, now) ==
  IF DOMAIN seen.categories # {} THEN Kept(now)
  ELSE IF DOMAIN now.categories # {} THEN Failed(now, "unique")
  ELSE Wrote([categories |-> [k \in Categories |-> [text |-> 1, order |-> k - 1]],
              rows |-> One(1, [section |-> 1, category |-> 1, text |-> 1, order |-> 0])])

ContentCodes == [NoContentCategory |-> 404, ContentExists |-> 409, ApiNameTaken |-> 409]

OnContents(r, op, out, codes) ==
  /\ Asked(r, op) /\ contents' = out.now /\ Close(r, "contents", out, codes)
  /\ UNCHANGED assets

UpdateContentCategory(r) ==
  OnContents(r, "updateContentCategory", contentCategoryUpdate(contents, Q(r)), NoCodes)
MoveContentCategory(r) ==
  OnContents(r, "moveContentCategory", contentCategoryMove(Seen(r), contents, Q(r)), NoCodes)
CreateContent(r) ==
  OnContents(r, "createContent",
    Pictured(r, Q(r).text, contents, contentCreate(Seen(r), contents, Q(r))), ContentCodes)
UpdateContent(r) ==
  OnContents(r, "updateContent",
    Pictured(r, Q(r).text, contents, contentUpdate(Seen(r), contents, Q(r))), ContentCodes)
MoveContent(r)  == OnContents(r, "moveContent", contentMove(Seen(r), contents, Q(r)), NoCodes)
SeedContents(r) == OnContents(r, "seedContents", contentSeed(Seen(r), contents), SeedCodes)

ContentsNext == \E r \in Requests :
  \/ AskContents(r) \/ UpdateContentCategory(r) \/ MoveContentCategory(r) \/ CreateContent(r)
  \/ UpdateContent(r) \/ MoveContent(r) \/ SeedContents(r)

ContentsSection ==
  [categories |-> Shown(contents.categories),
   rows |-> [k \in DOMAIN contents.rows |->
     LET row == contents.rows[k]
     IN <<row.category, row.section, Place(contents.rows, InSection(contents, row.section), k)>>]]

-----------------------------------------------------------------------------
(* Hunting grounds. *)

HuntingRequests ==
  [op : {"createHuntingRegion", "updateHuntingRegion"}, key : FewKeys, text : {1, 2}]
    \cup [op : {"moveHuntingRegion"}, key : FewKeys, dir : Dirs]
    \cup [op : {"createHuntingGround"}, key : Keys, region : FewKeys, name : {1, 2},
          levels : LevelLists]
    \cup [op : {"updateHuntingGround"}, key : Keys, name : {1, 2}, levels : LevelLists]
    \cup [op : {"moveHuntingGround"}, key : Keys, dir : Dirs]
    \cup {[op |-> "seedHuntingGrounds"]}

AskHunting(r) == \E q \in HuntingRequests : Ask(r, q, hunting) /\ UNCHANGED hunting

GroundsOf(t, region) == {k \in DOMAIN t.grounds : t.grounds[k].region = region}
NameTaken(t, self, name) == \E k \in DOMAIN t.grounds \ {self} : t.grounds[k].name = name

\* The key of a ground starts with the key of its region.
StartsWith(key, region) == key % 2 = region % 2

regionCreate(seen, now, q) ==
  In(now, "regions",
     Inserted(now.regions,
       One(q.key, [text |-> q.text, order |-> NextOrder(seen.regions, DOMAIN seen.regions)]),
       "RegionExists"))
regionUpdate(now, q) ==
  In(now, "regions", Updated(now.regions, q.key, LAMBDA row : [row EXCEPT !.text = q.text]))
regionMove(seen, now, q) ==
  In(now, "regions", Moved(seen.regions, now.regions, DOMAIN seen.regions, q.key, q.dir))

groundCreate(seen, now, q) ==
  IF q.region \notin DOMAIN seen.regions THEN Failed(now, "NoRegion")
  ELSE IF ~StartsWith(q.key, q.region) THEN Failed(now, "GroundKeyPrefix")
  ELSE IF NameTaken(seen, None, q.name) THEN Failed(now, "GroundNameTaken")
  ELSE IF NameTaken(now, None, q.name) THEN Failed(now, "GroundExists")
  ELSE In(now, "grounds",
          Inserted(now.grounds,
            One(q.key, [region |-> q.region, name |-> q.name, levels |-> q.levels,
                        order |-> NextOrder(seen.grounds, GroundsOf(seen, q.region))]),
            "GroundExists"))

groundUpdate(seen, now, q) ==
  IF q.key \notin DOMAIN seen.grounds THEN Unknown(now)
  ELSE IF NameTaken(seen, q.key, q.name) THEN Failed(now, "GroundNameTaken")
  ELSE IF NameTaken(now, q.key, q.name) THEN Failed(now, "unique")
  ELSE In(now, "grounds",
          Updated(now.grounds, q.key,
                  LAMBDA row : [row EXCEPT !.name = q.name, !.levels = q.levels]))

groundMove(seen, now, q) ==
  IF q.key \notin DOMAIN seen.grounds THEN Unknown(now)
  ELSE In(now, "grounds",
          Moved(seen.grounds, now.grounds, GroundsOf(seen, seen.grounds[q.key].region),
                q.key, q.dir))

huntingSeed(seen, now) ==
  IF DOMAIN seen.regions # {} THEN Kept(now)
  ELSE IF DOMAIN now.regions \cap SeedKeys # {} THEN Failed(now, "unique")
  ELSE Wrote([regions |-> Join(now.regions, PlainSeed),
              grounds |-> Join(now.grounds,
                One(1, [region |-> 1, name |-> 1, levels |-> {1}, order |-> 0]))])

RegionCodes == [RegionExists |-> 409]
GroundCodes == [NoRegion |-> 404, GroundKeyPrefix |-> 400, GroundExists |-> 409,
                GroundNameTaken |-> 409]

Hunting(r, op, out, codes) ==
  /\ Asked(r, op) /\ hunting' = out.now /\ Close(r, "huntingGrounds", out, codes)
  /\ UNCHANGED assets

CreateHuntingRegion(r) ==
  Hunting(r, "createHuntingRegion",
    Pictured(r, Q(r).text, hunting, regionCreate(Seen(r), hunting, Q(r))), RegionCodes)
UpdateHuntingRegion(r) ==
  Hunting(r, "updateHuntingRegion",
    Pictured(r, Q(r).text, hunting, regionUpdate(hunting, Q(r))), NoCodes)
MoveHuntingRegion(r) ==
  Hunting(r, "moveHuntingRegion", regionMove(Seen(r), hunting, Q(r)), NoCodes)
CreateHuntingGround(r) ==
  Hunting(r, "createHuntingGround", groundCreate(Seen(r), hunting, Q(r)), GroundCodes)
UpdateHuntingGround(r) ==
  Hunting(r, "updateHuntingGround", groundUpdate(Seen(r), hunting, Q(r)), GroundCodes)
MoveHuntingGround(r) ==
  Hunting(r, "moveHuntingGround", groundMove(Seen(r), hunting, Q(r)), NoCodes)
SeedHuntingGrounds(r) ==
  Hunting(r, "seedHuntingGrounds", huntingSeed(Seen(r), hunting), SeedCodes)

HuntingNext == \E r \in Requests :
  \/ AskHunting(r) \/ CreateHuntingRegion(r) \/ UpdateHuntingRegion(r) \/ MoveHuntingRegion(r)
  \/ CreateHuntingGround(r) \/ UpdateHuntingGround(r) \/ MoveHuntingGround(r)
  \/ SeedHuntingGrounds(r)

HuntingSection ==
  [regions |-> Shown(hunting.regions),
   grounds |-> [k \in DOMAIN hunting.grounds |->
     LET g == hunting.grounds[k]
     IN <<g.region, g.name, g.levels, Rank(hunting.grounds, GroundsOf(hunting, g.region), k)>>]]

=============================================================================
