----------------------------- MODULE SpendCatalog -----------------------------
(***************************************************************************)
(* The catalogue of spending: groups under a category of spending, tiles,  *)
(* and items.  The app opens a sheet for a tile and tells its items apart  *)
(* by their tiers or by their options, so an item is checked against the   *)
(* other items of its tile (checkShape).                                   *)
(***************************************************************************)
EXTENDS Lists

VARIABLE spend
  \* [rules: None or values, forms: key -> text, groups: key -> [category, text, order],
  \*  tiles: key -> text,
  \*  items: key -> [group, tile, tier, options: set of <<axis, value>>, coins, forms, order]]

NoSpend == [rules |-> None, forms |-> <<>>, groups |-> <<>>, tiles |-> <<>>, items |-> <<>>]

-----------------------------------------------------------------------------
(* The shape of an item: what of it the sheet goes by. *)

Shape(tier, options, coins, forms) ==
  [tier |-> tier, options |-> options, coins |-> coins, forms |-> forms]

Shapes ==
  {Shape(None, {}, None, {}), Shape(1, {}, 1, {1}), Shape(None, {<<1, 1>>}, None, {}),
   Shape(None, {<<1, 2>>}, None, {}), Shape(None, {<<2, 1>>}, None, {})}
    \cup {Shape(1, {<<1, 1>>}, None, {}), Shape(None, {}, 1, {}),
          Shape(None, {<<1, 1>>, <<1, 2>>}, None, {}), Shape(1, {}, None, {2})}

SpendFormRow  == Texts
SpendGroupRow == [category : FewKeys, text : Texts, order : Nat]
SpendTileRow  == Texts
SpendOptions  == SUBSET ({1, 2} \X {1, 2})
SpendForms    == SUBSET {1}
SpendItemRow  == [group : FewKeys, tile : FewKeys, tier : {None, 1}, options : SpendOptions,
                  coins : {None, 1}, forms : SpendForms, order : Nat]

SpendTypeOK ==
  /\ spend.rules \in {None} \cup Texts
  /\ IsTable(spend.forms, {1}, SpendFormRow) /\ IsTable(spend.groups, FewKeys, SpendGroupRow)
  /\ IsTable(spend.tiles, FewKeys, SpendTileRow) /\ IsTable(spend.items, FewKeys, SpendItemRow)

Axes(options) == {o[1] : o \in options}
Kind(x) == IF x.options # {} THEN "options" ELSE IF x.tier # None THEN "tier" ELSE "none"

Consistent(x) ==
  /\ x.tier = None \/ x.options = {}
  /\ x.coins # None => x.forms # {}
  /\ Cardinality(Axes(x.options)) = Cardinality(x.options)

\* The sheet can tell item x of group g from another item y of its tile.
ToldApart(x, g, y) ==
  /\ g = y.group
  /\ Kind(x) = Kind(y) /\ Kind(x) # "none"
  /\ Kind(x) = "options" => Axes(x.options) = Axes(y.options) /\ x.options # y.options

checkShape(t, self, group, tile, x) ==
  /\ Consistent(x)
  /\ \A k \in DOMAIN t.items \ {self} :
       t.items[k].tile = tile => ToldApart(x, group, t.items[k])

\* The forms are looked up as they are when the item is written.
FormsKnown(t, x) == x.forms \subseteq DOMAIN t.forms

-----------------------------------------------------------------------------
\* A seeding writes 1s; what an administrator writes differs from that.
SpendRequests ==
  [op : {"setSpendRules"}, value : {2}]
    \cup [op : {"createSpendGroup", "updateSpendGroup"}, key : FewKeys, category : {1, 2},
          text : {2}]
    \cup [op : {"moveSpendGroup"}, key : FewKeys, dir : Dirs]
    \cup [op : {"updateSpendForm"}, key : {1}, text : {2}]
    \cup [op : {"createSpendTile", "updateSpendTile"}, key : FewKeys, text : {2}]
    \cup {[op |-> "seedSpendCatalog"]}

SpendItemRequests ==
  [op : {"createSpendItem"}, key : FewKeys, group : FewKeys, tile : FewKeys, shape : Shapes]
    \cup [op : {"updateSpendItem"}, key : FewKeys, tile : FewKeys, shape : Shapes]
    \cup [op : {"moveSpendItem"}, key : FewKeys, dir : Dirs]

AskSpend(r, requests) == \E q \in requests : Ask(r, q, spend) /\ UNCHANGED spend

\* A group points to a category of spending, never of income.  None is ever removed.
SpendCategories == DOMAIN cashbook.spend

spendSetRules(now, q) == Wrote([now EXCEPT !.rules = q.value])

groupCreate(seen, now, q) ==
  IF q.category \notin SpendCategories THEN Failed(now, "NoSpendCategory")
  ELSE In(now, "groups",
          Inserted(now.groups,
            One(q.key, [category |-> q.category, text |-> q.text,
                        order |-> NextOrder(seen.groups, DOMAIN seen.groups)]),
            "SpendGroupExists"))
groupUpdate(now, q) ==
  IF q.category \notin SpendCategories THEN Failed(now, "NoSpendCategory")
  ELSE In(now, "groups",
          Updated(now.groups, q.key,
                  LAMBDA row : [row EXCEPT !.text = q.text, !.category = q.category]))
groupMove(seen, now, q) ==
  In(now, "groups", Moved(seen.groups, now.groups, DOMAIN seen.groups, q.key, q.dir))

formUpdate(now, q) == In(now, "forms", Updated(now.forms, q.key, LAMBDA text : q.text))
tileCreate(now, q) ==
  In(now, "tiles", Inserted(now.tiles, One(q.key, q.text), "SpendTileExists"))
tileUpdate(now, q) == In(now, "tiles", Updated(now.tiles, q.key, LAMBDA text : q.text))

ItemsOfGroup(t, group) == {k \in DOMAIN t.items : t.items[k].group = group}
SpendItem(group, tile, x, order) ==
  [group |-> group, tile |-> tile, tier |-> x.tier, options |-> x.options, coins |-> x.coins,
   forms |-> x.forms, order |-> order]

spendItemCreate(seen, now, q) ==
  IF q.group \notin DOMAIN seen.groups THEN Failed(now, "NoSpendGroup")
  ELSE IF q.tile \notin DOMAIN seen.tiles THEN Failed(now, "NoSpendTile")
  ELSE IF ~checkShape(seen, None, q.group, q.tile, q.shape) THEN Failed(now, "SpendItemShape")
  ELSE IF q.key \in DOMAIN now.items THEN Failed(now, "SpendItemExists")
  ELSE IF ~FormsKnown(now, q.shape) THEN Failed(now, "SpendItemShape")
  ELSE LET order == NextOrder(seen.items, ItemsOfGroup(seen, q.group))
       IN Wrote([now EXCEPT !.items =
                   Join(@, One(q.key, SpendItem(q.group, q.tile, q.shape, order)))])

spendItemUpdate(seen, now, q) ==
  IF q.key \notin DOMAIN seen.items THEN Unknown(now)
  ELSE IF q.tile \notin DOMAIN seen.tiles THEN Failed(now, "NoSpendTile")
  ELSE IF ~checkShape(seen, q.key, seen.items[q.key].group, q.tile, q.shape)
          \/ ~FormsKnown(now, q.shape)
       THEN Failed(now, "SpendItemShape")
  ELSE Wrote([now EXCEPT !.items[q.key] = SpendItem(@.group, q.tile, q.shape, @.order)])

spendItemMove(seen, now, q) ==
  IF q.key \notin DOMAIN seen.items THEN Unknown(now)
  ELSE In(now, "items",
          Moved(seen.items, now.items, ItemsOfGroup(seen, seen.items[q.key].group), q.key, q.dir))

\* What the seeding leaves of groups and tiles in K.
SpendReady(K) == [
  rules  |-> 1,
  forms  |-> One(1, 1),
  groups |-> [k \in K |-> [category |-> 1, text |-> 1, order |-> k - 1]],
  tiles  |-> [k \in K |-> 1],
  items  |-> One(1, SpendItem(1, 1, Shape(1, {}, 1, {1}), 0))]

\* Groups, tiles and items are filled together, the forms when there is none.
spendSeed(seen, now) ==
  LET forms == IF DOMAIN now.forms = {} THEN One(1, 1) ELSE now.forms
  IN IF DOMAIN seen.groups \cup DOMAIN seen.tiles \cup DOMAIN seen.items # {} THEN Kept(now)
     ELSE IF 1 \notin SpendCategories THEN Failed(now, "missing")
     ELSE IF DOMAIN now.groups \cup DOMAIN now.tiles \cup DOMAIN now.items # {}
          THEN Failed(now, "unique")
     ELSE Wrote([SpendReady(SeedKeys) EXCEPT !.rules = now.rules, !.forms = forms])

-----------------------------------------------------------------------------
Spending(r, op, out, codes) ==
  /\ Asked(r, op) /\ spend' = out.now /\ Close(r, "spendCatalog", out, codes)
  /\ UNCHANGED assets

SpendGroupCodes == [SpendGroupExists |-> 409, NoSpendCategory |-> 404]
SpendItemCodes  == [NoSpendGroup |-> 404, NoSpendTile |-> 404, SpendItemExists |-> 409,
                    SpendItemShape |-> 400]

SetSpendRules(r) == Spending(r, "setSpendRules", spendSetRules(spend, Q(r)), NoCodes)
CreateSpendGroup(r) ==
  Spending(r, "createSpendGroup", groupCreate(Seen(r), spend, Q(r)), SpendGroupCodes)
UpdateSpendGroup(r) ==
  Spending(r, "updateSpendGroup", groupUpdate(spend, Q(r)), SpendGroupCodes)
MoveSpendGroup(r) == Spending(r, "moveSpendGroup", groupMove(Seen(r), spend, Q(r)), NoCodes)
UpdateSpendForm(r) == Spending(r, "updateSpendForm", formUpdate(spend, Q(r)), NoCodes)
CreateSpendTile(r) ==
  Spending(r, "createSpendTile",
    Pictured(r, Q(r).text, spend, tileCreate(spend, Q(r))), [SpendTileExists |-> 409])
UpdateSpendTile(r) ==
  Spending(r, "updateSpendTile", Pictured(r, Q(r).text, spend, tileUpdate(spend, Q(r))), NoCodes)
CreateSpendItem(r) ==
  Spending(r, "createSpendItem", spendItemCreate(Seen(r), spend, Q(r)), SpendItemCodes)
UpdateSpendItem(r) ==
  Spending(r, "updateSpendItem", spendItemUpdate(Seen(r), spend, Q(r)), SpendItemCodes)
MoveSpendItem(r) == Spending(r, "moveSpendItem", spendItemMove(Seen(r), spend, Q(r)), NoCodes)

\* Seeding is two transactions.  The first writes the rules that are missing and moves no time.
SeedSpendRules(r) ==
  /\ Asked(r, "seedSpendCatalog")
  /\ spend' = [spend EXCEPT !.rules = IF @ = None THEN 1 ELSE @]
  /\ call' = [call EXCEPT ![r].q.op = "seedSpendRows", ![r].seen = spend']
  /\ answer' = NoAnswer /\ UNCHANGED assets
SeedSpendRows(r) == Spending(r, "seedSpendRows", spendSeed(Seen(r), spend), SeedCodes)

SpendNext(requests) == \E r \in Requests :
  \/ AskSpend(r, requests) \/ SetSpendRules(r) \/ CreateSpendGroup(r) \/ UpdateSpendGroup(r)
  \/ MoveSpendGroup(r) \/ UpdateSpendForm(r) \/ CreateSpendTile(r) \/ UpdateSpendTile(r)
  \/ CreateSpendItem(r) \/ UpdateSpendItem(r) \/ MoveSpendItem(r)
  \/ SeedSpendRules(r) \/ SeedSpendRows(r)

SpendSection ==
  [rules |-> spend.rules, forms |-> spend.forms, tiles |-> spend.tiles,
   groups |-> [k \in DOMAIN spend.groups |->
                 <<spend.groups[k].category, Place(spend.groups, DOMAIN spend.groups, k)>>],
   items |-> [k \in DOMAIN spend.items |->
     <<[spend.items[k] EXCEPT !.order = 0],
       Rank(spend.items, ItemsOfGroup(spend, spend.items[k].group), k)>>]]

=============================================================================
