------------------------------- MODULE DropItems -------------------------------
(***************************************************************************)
(* Items bosses drop, the boxes among them with what they hold, and the    *)
(* equipment whose enhancement is counted.  An app finds equipment by its  *)
(* name without spaces, and an item that is in both tables has one key.    *)
(***************************************************************************)
EXTENDS Catalogue

VARIABLE items
  \* [items: key -> [name, text, bound], boxes: item -> [text, contents: item -> order],
  \*  equipment: key -> name].  A name stands for the level of equipment too.

NoItems == [items |-> <<>>, boxes |-> <<>>, equipment |-> <<>>]
SeedItem(k) == [name |-> k + 1, text |-> 1, bound |-> FALSE]
ItemsReady  == [NoItems EXCEPT !.items = [k \in Keys |-> SeedItem(k)]]

DropItemRow  == [name : Nat, text : Texts, bound : BOOLEAN]
ContentsRow  == [order : Nat]
BoxColumns   == Texts
EquipmentRow == Names

ItemsTypeOK ==
  /\ IsTable(items.items, Keys, DropItemRow) /\ IsTable(items.equipment, FewKeys, EquipmentRow)
  /\ DOMAIN items.boxes \subseteq FewKeys
  /\ \A b \in DOMAIN items.boxes :
       items.boxes[b].text \in BoxColumns /\ IsTable(items.boxes[b].contents, Keys, ContentsRow)

ItemRequests ==
  [op : {"createDropItem", "updateDropItem"}, key : FewKeys, name : Names, text : {2},
   bound : {Absent, TRUE}]
    \cup [op : {"createEquipment", "updateEquipment"}, key : FewKeys, name : Names]
    \cup {[op |-> "seedDropItems"], [op |-> "seedEquipment"]}

BoxRequests ==
  [op : {"createDropBox"}, box : FewKeys, text : {2}]
    \cup [op : {"setDropBoxLevels"}, box : {1}, text : {2}]
    \cup [op : {"addBoxContent", "removeBoxContent"}, box : {1}, item : Keys]
    \cup [op : {"addBoxContent", "removeBoxContent"}, box : {2}, item : {1}]
    \cup [op : {"moveBoxContent"}, box : {1}, item : Keys, dir : Dirs]
    \cup {[op |-> "seedDropBoxes"]}

Held(t, box) == t.boxes[box].contents

AskItems(r, requests) == \E q \in requests :
  /\ q.op = "addBoxContent" =>
       \A box \in {q.box} \cap DOMAIN items.boxes :
         NextOrder(Held(items, box), DOMAIN Held(items, box)) <= MaxOrder
  /\ Ask(r, q, items) /\ UNCHANGED items

-----------------------------------------------------------------------------
(* Items. *)

\* Mutant: what the body leaves out is written.
ItemAsSent(now, q) ==
  In(now, "items", Inserted(now.items, One(q.key, [name |-> q.name, text |-> q.text,
                                                   bound |-> q.bound]), "DropItemExists"))

\* Not said whether an item stays in its world: a new one does not, an old one as before.
itemCreate(now, q) ==
  In(now, "items",
     Inserted(now.items, One(q.key, [name |-> q.name, text |-> q.text,
                                     bound |-> IF q.bound = Absent THEN FALSE ELSE q.bound]),
              "DropItemExists"))
itemUpdate(now, q) ==
  In(now, "items",
     Updated(now.items, q.key,
             LAMBDA row : [name |-> q.name, text |-> q.text,
                           bound |-> IF q.bound = Absent THEN row.bound ELSE q.bound]))

-----------------------------------------------------------------------------
(* Equipment. *)

\* Mutant: names are compared with their spaces.
CalledThat(t, self, name) == \E k \in DOMAIN t.equipment \ {self} : t.equipment[k] = name

CalledLike(t, self, name) ==
  \E k \in DOMAIN t.equipment \ {self} : Comparable(t.equipment[k]) = Comparable(name)

\* checkName: a name told apart from those of other equipment, and one key for one thing.  More
\* than one item may have the name; the row found first, any of them, is compared.
NameProblems(t, self, key, name) ==
  IF CalledLike(t, self, name) THEN {"EquipmentNameTaken"}
  ELSE LET twins == {k \in DOMAIN t.items : Comparable(t.items[k].name) = Comparable(name)}
       IN {"DropItemKeyMismatch" : k \in twins \ {key}}
            \cup {"none" : k \in twins \cap {key}} \cup (IF twins = {} THEN {"none"} ELSE {})

SameName(t, self, name) == \E k \in DOMAIN t.equipment \ {self} : t.equipment[k] = name

equipmentCreate(now, q, problem) ==
  IF problem # "none" THEN Failed(now, problem)
  ELSE IF SameName(now, None, q.name) THEN Failed(now, "EquipmentItemExists")
  ELSE In(now, "equipment", Inserted(now.equipment, One(q.key, q.name), "EquipmentItemExists"))

equipmentUpdate(seen, now, q, problem) ==
  IF q.key \notin DOMAIN seen.equipment THEN Unknown(now)
  ELSE IF problem # "none" THEN Failed(now, problem)
  ELSE IF SameName(now, q.key, q.name) THEN Failed(now, "unique")
  ELSE In(now, "equipment", Updated(now.equipment, q.key, LAMBDA name : q.name))

-----------------------------------------------------------------------------
(* Boxes. *)

boxCreate(seen, now, q) ==
  IF q.box \notin DOMAIN seen.items THEN Failed(now, "NoDropItem")
  ELSE In(now, "boxes",
          Inserted(now.boxes, One(q.box, [text |-> q.text, contents |-> <<>>]), "DropBoxExists"))

\* Mutant: without touchSection.
LevelsUntold(now, q) ==
  IF q.box \in DOMAIN now.boxes THEN Kept([now EXCEPT !.boxes[q.box].text = q.text])
  ELSE Unknown(now)

boxSetLevels(now, q) ==
  In(now, "boxes", Updated(now.boxes, q.box, LAMBDA row : [row EXCEPT !.text = q.text]))

\* What a box holds afterwards, from what it holds now.
InBox(now, box, out) ==
  [out EXCEPT !.now = IF box \in DOMAIN now.boxes
                      THEN [now EXCEPT !.boxes[box].contents = out.now] ELSE now]

boxContentAdd(seen, now, q) ==
  IF q.box \notin DOMAIN seen.boxes THEN Unknown(now)
  ELSE IF q.item \notin DOMAIN seen.items THEN Failed(now, "NoDropItem")
  ELSE LET held == Held(seen, q.box)
       IN InBox(now, q.box,
            Inserted(Held(now, q.box), One(q.item, [order |-> NextOrder(held, DOMAIN held)]),
                     "ContentExists"))

Holds(t, q) == q.box \in DOMAIN t.boxes /\ q.item \in DOMAIN Held(t, q.box)

boxContentRemove(seen, now, q) ==
  IF ~ Holds(seen, q) THEN Unknown(now)
  ELSE InBox(now, q.box, Wrote(Without(Held(now, q.box), {q.item})))

boxContentMove(seen, now, q) ==
  IF ~ Holds(seen, q) THEN Unknown(now)
  ELSE InBox(now, q.box, Moved(Held(seen, q.box), Held(now, q.box),
                               DOMAIN Held(seen, q.box), q.item, q.dir))

\* Item 1 is a box that holds item 2, once there is no box.
boxesSeed(seen, now) ==
  IF DOMAIN seen.boxes # {} THEN Kept(now)
  ELSE IF ~ {1, 2} \subseteq DOMAIN seen.items THEN Failed(now, "missing")
  ELSE In(now, "boxes",
          Inserted(now.boxes, One(1, [text |-> 1, contents |-> One(2, [order |-> 0])]), "unique"))

-----------------------------------------------------------------------------
OnItems(r, op, section, out, codes) ==
  Asked(r, op) /\ items' = out.now /\ Close(r, section, out, codes) /\ UNCHANGED assets

CreateDropItem(r) ==
  OnItems(r, "createDropItem", "dropItems",
          Pictured(r, Q(r).text, items, itemCreate(items, Q(r))), [DropItemExists |-> 409])
UpdateDropItem(r) ==
  OnItems(r, "updateDropItem", "dropItems",
          Pictured(r, Q(r).text, items, itemUpdate(items, Q(r))), NoCodes)
SeedDropItems(r) ==
  OnItems(r, "seedDropItems", "dropItems",
          In(items, "items", Seeded(Seen(r).items, items.items, [k \in SeedKeys |-> SeedItem(k)])),
          SeedCodes)

\* Mutant: an error nobody catches.
CodesLess == [EquipmentNameTaken |-> 409, DropItemKeyMismatch |-> 409]

EquipmentCodes ==
  [EquipmentItemExists |-> 409, EquipmentNameTaken |-> 409, DropItemKeyMismatch |-> 409]
CreateEquipment(r) ==
  Asked(r, "createEquipment") /\
  \E problem \in NameProblems(Seen(r), None, Q(r).key, Q(r).name) :
    OnItems(r, "createEquipment", "equipmentItems",
            equipmentCreate(items, Q(r), problem), EquipmentCodes)
UpdateEquipment(r) ==
  Asked(r, "updateEquipment") /\
  \E problem \in NameProblems(Seen(r), Q(r).key, Q(r).key, Q(r).name) :
    OnItems(r, "updateEquipment", "equipmentItems",
            equipmentUpdate(Seen(r), items, Q(r), problem), EquipmentCodes)
SeedEquipment(r) ==
  OnItems(r, "seedEquipment", "equipmentItems",
          In(items, "equipment", Seeded(Seen(r).equipment, items.equipment, One(1, 2))), SeedCodes)

CreateDropBox(r) ==
  OnItems(r, "createDropBox", "dropBoxes", boxCreate(Seen(r), items, Q(r)),
          [NoDropItem |-> 404, DropBoxExists |-> 409])
SetDropBoxLevels(r) ==
  OnItems(r, "setDropBoxLevels", "dropBoxes", boxSetLevels(items, Q(r)), NoCodes)
AddBoxContent(r) ==
  OnItems(r, "addBoxContent", "dropBoxes", boxContentAdd(Seen(r), items, Q(r)),
          [NoDropItem |-> 404, ContentExists |-> 409])
RemoveBoxContent(r) ==
  OnItems(r, "removeBoxContent", "dropBoxes", boxContentRemove(Seen(r), items, Q(r)), NoCodes)
MoveBoxContent(r) ==
  OnItems(r, "moveBoxContent", "dropBoxes", boxContentMove(Seen(r), items, Q(r)), NoCodes)
SeedDropBoxes(r) ==
  OnItems(r, "seedDropBoxes", "dropBoxes", boxesSeed(Seen(r), items), SeedCodes)

ItemsNext(requests) == \E r \in Requests :
  \/ AskItems(r, requests) \/ CreateDropItem(r) \/ UpdateDropItem(r) \/ SeedDropItems(r)
  \/ CreateEquipment(r) \/ UpdateEquipment(r) \/ SeedEquipment(r)
  \/ CreateDropBox(r) \/ SetDropBoxLevels(r) \/ AddBoxContent(r) \/ RemoveBoxContent(r)
  \/ MoveBoxContent(r) \/ SeedDropBoxes(r)

DropItemsSection == [k \in DOMAIN items.items |-> <<items.items[k].name, items.items[k].text>>]
EquipmentSection == items.equipment
DropBoxesSection == [b \in DOMAIN items.boxes |->
  <<items.boxes[b].text,
    [i \in DOMAIN Held(items, b) |-> Rank(Held(items, b), DOMAIN Held(items, b), i)]>>]

=============================================================================
