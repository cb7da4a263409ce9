--------------------------- MODULE CatalogueProofs ---------------------------
(***************************************************************************)
(* What is proved of the lists of the catalogue one by one.  First, what   *)
(* the operators they are built from do whatever keys, payloads and days   *)
(* there are: the place of a new row is behind its siblings, neighbours    *)
(* swap places, dated rows stay a chain.  Then, for each list but the      *)
(* bosses, what its tables keep to (Good...), what the transactions on     *)
(* them leave and throw (...Outcomes), and what its handlers do of it      *)
(* (...Step).                                                              *)
(***************************************************************************)
EXTENDS Administration, FiniteSetTheorems, WellFoundedInduction, TLAPS

-----------------------------------------------------------------------------
(* Sets of numbers. *)

\* A finite set of numbers has a largest one: were there a set without, a smallest of them would
\* be left without one of its numbers.
LEMMA Largest ==
  ASSUME NEW S \in SUBSET Nat, IsFiniteSet(S), S # {}
  PROVE  \E x \in S : \A y \in S : y <= x
<1> DEFINE T == {U \in SUBSET S : U # {} /\ ~(\E x \in U : \A y \in U : y <= x)}
<1> SUFFICES ASSUME T # {} PROVE FALSE
  OBVIOUS
<1>1. T \subseteq FiniteSubsetsOf(S)
  BY FS_Subset DEF FiniteSubsetsOf
<1>2. PICK U \in T : \A V \in T : ~(<<V, U>> \in StrictSubsetOrdering(S))
  BY <1>1, FS_StrictSubsetOrderingWellFounded, WFMin
<1>3. PICK u \in U : TRUE
  OBVIOUS
<1>4. U \ {u} \notin T
  BY <1>2 DEF StrictSubsetOrdering
<1>5. CASE U \ {u} = {}
  BY <1>5
<1>6. CASE \E x \in U \ {u} : \A y \in U \ {u} : y <= x
  BY <1>6
<1> QED
  BY <1>4, <1>5, <1>6

LEMMA MaxOf ==
  ASSUME NEW S \in SUBSET Nat, IsFiniteSet(S), S # {}
  PROVE  Max(S) \in S /\ \A y \in S : y <= Max(S)
BY Largest DEF Max

\* A row takes its place behind its siblings.
LEMMA NextOrderBehind ==
  ASSUME NEW t, NEW S, IsFiniteSet(S), \A k \in S : t[k].order \in Nat
  PROVE  NextOrder(t, S) \in Nat /\ \A k \in S : t[k].order < NextOrder(t, S)
<1>1. CASE S = {}
  BY <1>1 DEF NextOrder
<1>2. CASE S # {}
  <2> DEFINE O == {t[k].order : k \in S}
  <2>1. O \in SUBSET Nat /\ O # {}
    BY <1>2
  <2>2. IsFiniteSet(O)
    <3> DEFINE f == [k \in S |-> t[k].order]
    <3>1. f \in Surjection(S, O)
      BY DEF Surjection
    <3> QED
      BY <3>1, FS_Surjection
  <2> HIDE DEF O
  <2>3. Max(O) \in Nat /\ \A y \in O : y <= Max(O)
    BY <2>1, <2>2, MaxOf
  <2>4. \A k \in S : t[k].order \in O
    BY DEF O
  <2>5. NextOrder(t, S) = 1 + Max(O)
    BY <1>2 DEF NextOrder, O
  <2> QED
    BY <2>1, <2>3, <2>4, <2>5
<1> QED
  BY <1>1, <1>2

-----------------------------------------------------------------------------
(* Tables. *)

\* What a transaction ends with.
IsOut(out) == {"now", "touched", "error"} \subseteq DOMAIN out

LEMMA OutsAreOuts ==
  ASSUME NEW now, NEW e
  PROVE  IsOut(Wrote(now)) /\ IsOut(Kept(now)) /\ IsOut(Failed(now, e)) /\ IsOut(Unknown(now))
BY DEF IsOut, Wrote, Kept, Failed, Unknown

HasOrders(t, S) == \A k \in S : "order" \in DOMAIN t[k] /\ t[k].order \in Nat

\* Rows of S exchanged their places, and nothing else of the table is touched.
Rearranged(old, new, S) ==
  /\ DOMAIN new = DOMAIN old
  /\ \A k \in DOMAIN old :
       \/ new[k] = old[k]
       \/ k \in S /\ \E n \in S : new[k] = [old[k] EXCEPT !.order = old[n].order]
  /\ OrdersDiffer(old, S) => OrdersDiffer(new, S)

LEMMA MoveRearranges ==
  ASSUME NEW t, NEW S \in SUBSET DOMAIN t, HasOrders(t, S), NEW k, NEW dir
  PROVE  LET out == Moved(t, t, S, k, dir)
         IN /\ IsOut(out) /\ out.error \in {"none", "unknown"}
            /\ Rearranged(t, out.now, S)
<1> DEFINE beside == Neighbours(t, S, k, dir)
           other == CHOOSE n \in beside : TRUE
           order(x) == IF x = k THEN t[other].order ELSE t[k].order
           new == [x \in DOMAIN t |->
                     IF x \in {k, other} THEN [t[x] EXCEPT !.order = order(x)] ELSE t[x]]
           out == Moved(t, t, S, k, dir)
<1>1. out = IF k \notin S THEN Unknown(t) ELSE IF beside = {} THEN Kept(t) ELSE Wrote(new)
  BY DEF Moved
<1>0. IsOut(out)
  BY <1>1, OutsAreOuts
<1>2. CASE k \notin S \/ beside = {}
  <2>1. out.now = t /\ out.error \in {"none", "unknown"}
    BY <1>1, <1>2 DEF Unknown, Failed, Kept
  <2> QED
    BY <1>0, <2>1 DEF Rearranged
<1>3. CASE k \in S /\ beside # {}
  <2>1. other \in S
    BY <1>3 DEF Neighbours
  <2>2. out.now = new /\ out.error = "none"
    BY <1>1, <1>3 DEF Wrote
  <2> HIDE DEF other
  <2>3. /\ DOMAIN new = DOMAIN t
        /\ \A x \in DOMAIN t \ {k, other} : new[x] = t[x]
        /\ new[other] = [t[other] EXCEPT !.order = t[k].order] \/ other = k
        /\ new[k] = [t[k] EXCEPT !.order = t[other].order]
    BY <2>1, <1>3
  <2> HIDE DEF new
  <2>4. \A x \in S : new[x].order = IF x = k THEN t[other].order
                                    ELSE IF x = other THEN t[k].order ELSE t[x].order
    BY <2>1, <2>3, <1>3 DEF HasOrders
  <2>5. OrdersDiffer(t, S) => OrdersDiffer(new, S)
    BY <2>1, <2>4, <1>3 DEF OrdersDiffer
  <2> QED
    BY <1>0, <2>1, <2>2, <2>3, <2>5, <1>3 DEF Rearranged
<1> QED
  BY <1>2, <1>3

\* What a move leaves as it was.
PlacesOnly(old, new) ==
  /\ DOMAIN new = DOMAIN old
  /\ \A k \in DOMAIN old : \A c \in DOMAIN old[k] \ {"order"} : new[k][c] = old[k][c]

LEMMA MoveKeepsColumns ==
  ASSUME NEW t, NEW S \in SUBSET DOMAIN t, HasOrders(t, S), NEW k, NEW dir
  PROVE  PlacesOnly(t, Moved(t, t, S, k, dir).now)
<1> DEFINE new == Moved(t, t, S, k, dir).now
<1>1. Rearranged(t, new, S)
  BY MoveRearranges
<1> HIDE DEF new
<1>2. PlacesOnly(t, new)
  BY <1>1 DEF Rearranged, PlacesOnly
<1> QED
  BY <1>2 DEF new

\* Rows with a place, of which only the place may be replaced.
Placed(R) == \A row \in R :
  /\ "order" \in DOMAIN row /\ row.order \in Nat
  /\ \A n \in Nat : [row EXCEPT !.order = n] \in R

\* A table whose rows have different places.
Ordered(t, K, R) == IsTable(t, K, R) /\ OrdersDiffer(t, DOMAIN t)

\* How a transaction on it ends.
Ends(out, K, R, errors) == IsOut(out) /\ Ordered(out.now, K, R) /\ out.error \in errors

LEMMA OrderedTables ==
  ASSUME NEW t, NEW K \in SUBSET Keys, NEW R, Placed(R), IsTable(t, K, R)
  PROVE  IsFiniteSet(DOMAIN t) /\ HasOrders(t, DOMAIN t)
BY CatalogueAssumption, FS_Subset DEF Placed, IsTable, HasOrders

LEMMA InsertedOrdered ==
  ASSUME NEW t, NEW K \in SUBSET Keys, NEW R, Placed(R), Ordered(t, K, R),
         NEW k \in K, NEW row \in R, row.order = NextOrder(t, DOMAIN t), NEW e
  PROVE  Ends(Inserted(t, One(k, row), e), K, R, {"none", e})
<1> DEFINE out == Inserted(t, One(k, row), e)
<1>1. IsFiniteSet(DOMAIN t) /\ HasOrders(t, DOMAIN t)
  BY OrderedTables DEF Ordered
<1>2. \A x \in DOMAIN t : t[x].order < row.order /\ t[x].order \in Nat
  BY <1>1, NextOrderBehind DEF HasOrders
<1>3. \/ out.now = t /\ out.error = e
      \/ k \notin DOMAIN t /\ out.now = Join(t, One(k, row)) /\ out.error = "none"
  BY DEF Inserted, Wrote, Failed, One
<1>4. row.order \in Nat
  BY DEF Placed
<1>5. k \notin DOMAIN t => Ordered(Join(t, One(k, row)), K, R)
  BY <1>2, <1>4 DEF Ordered, IsTable, OrdersDiffer, Join, One
<1> HIDE DEF out
<1>6. IsOut(out)
  BY OutsAreOuts DEF Inserted, out
<1> QED
  BY <1>3, <1>5, <1>6 DEF Ends, out

\* A new row is beside the old ones.  Under a free key nothing is violated.
LEMMA InsertedBeside ==
  ASSUME NEW t, NEW k, NEW row, NEW e
  PROVE  LET out == Inserted(t, One(k, row), e)
         IN /\ DOMAIN t \subseteq DOMAIN out.now
            /\ \A x \in DOMAIN out.now : out.now[x] = row \/ (x \in DOMAIN t /\ out.now[x] = t[x])
            /\ k \notin DOMAIN t => out.error = "none"
BY DEF Inserted, Wrote, Failed, Join, One

LEMMA ReplacedOrdered ==
  ASSUME NEW t, NEW K, NEW R, Ordered(t, K, R),
         NEW k \in DOMAIN t, NEW row \in R, row.order = t[k].order
  PROVE  Ordered([t EXCEPT ![k] = row], K, R)
BY DEF Ordered, IsTable, OrdersDiffer

\* An update of one row that leaves its place alone, and one of no row.
LEMMA UpdatedOrdered ==
  ASSUME NEW t, NEW K, NEW R, Ordered(t, K, R), NEW k, NEW row,
         k \in DOMAIN t => row \in R /\ row.order = t[k].order, NEW out,
         out = IF k \in DOMAIN t THEN Wrote([t EXCEPT ![k] = row]) ELSE Unknown(t)
  PROVE  Ends(out, K, R, {"none", "unknown"})
<1>1. CASE k \in DOMAIN t
  BY <1>1, ReplacedOrdered, OutsAreOuts DEF Ends, Wrote
<1>2. CASE k \notin DOMAIN t
  BY <1>2, OutsAreOuts DEF Ends, Unknown, Failed
<1> QED
  BY <1>1, <1>2

LEMMA RearrangedTable ==
  ASSUME NEW t, NEW K, NEW R, Placed(R), IsTable(t, K, R), NEW S \in SUBSET DOMAIN t,
         NEW new, Rearranged(t, new, S)
  PROVE  IsTable(new, K, R)
BY DEF Rearranged, IsTable, Placed

LEMMA MovedOrdered ==
  ASSUME NEW t, NEW K \in SUBSET Keys, NEW R, Placed(R), Ordered(t, K, R), NEW k, NEW dir
  PROVE  Ends(Moved(t, t, DOMAIN t, k, dir), K, R, {"none", "unknown"})
<1> DEFINE out == Moved(t, t, DOMAIN t, k, dir)
<1>1. HasOrders(t, DOMAIN t)
  BY OrderedTables DEF Ordered
<1>2. IsOut(out) /\ Rearranged(t, out.now, DOMAIN t) /\ out.error \in {"none", "unknown"}
  BY <1>1, MoveRearranges
<1> HIDE DEF out
<1>3. IsTable(out.now, K, R)
  BY <1>2, RearrangedTable DEF Ordered
<1>4. OrdersDiffer(out.now, DOMAIN out.now)
  BY <1>2 DEF Ordered, Rearranged
<1> QED
  BY <1>2, <1>3, <1>4 DEF Ends, Ordered, out

LEMMA SeededOrdered ==
  ASSUME NEW t, NEW K, NEW R, Ordered(t, K, R), NEW rows, Ordered(rows, K, R)
  PROVE  Ends(Seeded(t, t, rows), K, R, {"none"})
<1>1. \/ Seeded(t, t, rows).now = t
      \/ DOMAIN t = {} /\ Seeded(t, t, rows).now = Join(t, rows)
  BY DEF Seeded, Inserted, Kept, Wrote
<1>2. DOMAIN t = {} => Ordered(Join(t, rows), K, R)
  BY DEF Ordered, IsTable, OrdersDiffer, Join
<1>3. Seeded(t, t, rows).error = "none" /\ IsOut(Seeded(t, t, rows))
  BY OutsAreOuts DEF Seeded, Inserted, Kept, Wrote
<1> QED
  BY <1>1, <1>2, <1>3 DEF Ends

LEMMA PicturedOrdered ==
  ASSUME NEW t, NEW K, NEW R, Ordered(t, K, R), NEW r, NEW text, NEW out, NEW errors,
         Ends(out, K, R, errors)
  PROVE  Ends(Pictured(r, text, t, out), K, R, errors \cup {"picture"})
BY OutsAreOuts DEF Ends, Pictured, Failed

-----------------------------------------------------------------------------
(* Rows of several lists in one table: f is the column that names the list. *)

Siblings(t, f, v) == {k \in DOMAIN t : t[k][f] = v}

OrderedBy(t, K, R, f) ==
  /\ IsTable(t, K, R)
  /\ \A a, b \in DOMAIN t : a # b /\ t[a][f] = t[b][f] => t[a].order # t[b].order

EndsBy(out, K, R, f, errors) ==
  IsOut(out) /\ OrderedBy(out.now, K, R, f) /\ out.error \in errors

\* A new row has a place behind its siblings, and they have places to exchange.
LEMMA SiblingsPlaced ==
  ASSUME NEW t, NEW K \in SUBSET Keys, NEW R, Placed(R), NEW f, OrderedBy(t, K, R, f), NEW v
  PROVE  LET kin == Siblings(t, f, v)
         IN NextOrder(t, kin) \in Nat /\ kin \in SUBSET DOMAIN t /\ HasOrders(t, kin)
<1>1. IsFiniteSet(DOMAIN t) /\ HasOrders(t, DOMAIN t)
  BY OrderedTables DEF OrderedBy
<1>2. IsFiniteSet(Siblings(t, f, v)) /\ Siblings(t, f, v) \in SUBSET DOMAIN t
  BY <1>1, FS_Subset DEF Siblings
<1>3. HasOrders(t, Siblings(t, f, v))
  BY <1>1, <1>2 DEF HasOrders
<1> QED
  BY <1>2, <1>3, NextOrderBehind DEF HasOrders

LEMMA InsertedOrderedBy ==
  ASSUME NEW t, NEW K \in SUBSET Keys, NEW R, Placed(R), NEW f, OrderedBy(t, K, R, f),
         NEW k \in K, NEW row \in R, row.order = NextOrder(t, Siblings(t, f, row[f])), NEW e
  PROVE  EndsBy(Inserted(t, One(k, row), e), K, R, f, {"none", e})
<1> DEFINE out == Inserted(t, One(k, row), e)
           kin == Siblings(t, f, row[f])
<1>1. IsFiniteSet(DOMAIN t) /\ HasOrders(t, DOMAIN t)
  BY OrderedTables DEF OrderedBy
<1>2. IsFiniteSet(kin) /\ kin \subseteq DOMAIN t
  BY <1>1, FS_Subset DEF Siblings
<1>3. \A x \in kin : t[x].order < row.order /\ t[x].order \in Nat
  BY <1>1, <1>2, NextOrderBehind DEF HasOrders
<1>4. \/ out.now = t /\ out.error = e
      \/ k \notin DOMAIN t /\ out.now = Join(t, One(k, row)) /\ out.error = "none"
  BY DEF Inserted, Wrote, Failed, One
<1>5. row.order \in Nat
  BY DEF Placed
<1>6. k \notin DOMAIN t => OrderedBy(Join(t, One(k, row)), K, R, f)
  BY <1>3, <1>5 DEF OrderedBy, IsTable, Siblings, Join, One
<1> HIDE DEF out
<1>7. IsOut(out)
  BY OutsAreOuts DEF Inserted, out
<1> QED
  BY <1>4, <1>6, <1>7 DEF EndsBy, out

LEMMA ReplacedOrderedBy ==
  ASSUME NEW t, NEW K, NEW R, NEW f, OrderedBy(t, K, R, f),
         NEW k \in DOMAIN t, NEW row \in R, row.order = t[k].order, row[f] = t[k][f]
  PROVE  OrderedBy([t EXCEPT ![k] = row], K, R, f)
BY DEF OrderedBy, IsTable

LEMMA UpdatedOrderedBy ==
  ASSUME NEW t, NEW K, NEW R, NEW f, OrderedBy(t, K, R, f), NEW k, NEW row,
         k \in DOMAIN t => row \in R /\ row.order = t[k].order /\ row[f] = t[k][f], NEW out,
         out = IF k \in DOMAIN t THEN Wrote([t EXCEPT ![k] = row]) ELSE Unknown(t)
  PROVE  EndsBy(out, K, R, f, {"none", "unknown"})
<1>1. CASE k \in DOMAIN t
  BY <1>1, ReplacedOrderedBy, OutsAreOuts DEF EndsBy, Wrote
<1>2. CASE k \notin DOMAIN t
  BY <1>2, OutsAreOuts DEF EndsBy, Unknown, Failed
<1> QED
  BY <1>1, <1>2

LEMMA MovedOrderedBy ==
  ASSUME NEW t, NEW K \in SUBSET Keys, NEW R, Placed(R), NEW f, f # "order",
         \A row \in R : f \in DOMAIN row, OrderedBy(t, K, R, f), NEW v, NEW k, NEW dir
  PROVE  EndsBy(Moved(t, t, Siblings(t, f, v), k, dir), K, R, f, {"none", "unknown"})
<1> DEFINE S == Siblings(t, f, v)
           out == Moved(t, t, S, k, dir)
<1>1. HasOrders(t, S) /\ S \in SUBSET DOMAIN t
  BY OrderedTables DEF OrderedBy, HasOrders, Siblings
<1>2. IsOut(out) /\ Rearranged(t, out.now, S) /\ out.error \in {"none", "unknown"}
  BY <1>1, MoveRearranges
<1>3. OrdersDiffer(t, S)
  BY DEF OrderedBy, OrdersDiffer, Siblings
<1> DEFINE new == out.now
<1> HIDE DEF out, new
<1>4. IsTable(new, K, R)
  BY <1>1, <1>2, RearrangedTable DEF OrderedBy, new
<1>5. \A x \in DOMAIN t : new[x][f] = t[x][f] /\ (x \notin S => new[x] = t[x])
  <2>1. \A x \in DOMAIN t, n \in Nat : f \in DOMAIN t[x] /\ [t[x] EXCEPT !.order = n][f] = t[x][f]
    BY DEF OrderedBy, IsTable
  <2> QED
    BY <1>1, <1>2, <2>1 DEF Rearranged, HasOrders, new
<1>6. DOMAIN new = DOMAIN t /\ OrdersDiffer(new, S)
  BY <1>2, <1>3 DEF Rearranged, new
<1>7. OrderedBy(new, K, R, f)
  BY <1>4, <1>5, <1>6 DEF OrderedBy, OrdersDiffer, Siblings
<1> QED
  BY <1>2, <1>7 DEF EndsBy, out, new

LEMMA WithoutOrderedBy ==
  ASSUME NEW t, NEW K, NEW R, NEW f, OrderedBy(t, K, R, f), NEW gone
  PROVE  OrderedBy(Without(t, gone), K, R, f)
BY DEF OrderedBy, IsTable, Without

LEMMA PicturedOrderedBy ==
  ASSUME NEW t, NEW K, NEW R, NEW f, OrderedBy(t, K, R, f), NEW r, NEW text, NEW out, NEW errors,
         EndsBy(out, K, R, f, errors)
  PROVE  EndsBy(Pictured(r, text, t, out), K, R, f, errors \cup {"picture"})
BY OutsAreOuts DEF EndsBy, Pictured, Failed

-----------------------------------------------------------------------------
(* Dated rows. *)

DatedRow == [from : Days \cup {None}, until : Days \cup {None}]

\* Rows are a chain: no two start on one day, each ends on the day another starts or stands, each
\* but the first starts where another ends, and an earlier one ends before a later one starts.
Chain(rows) ==
  /\ rows \subseteq DatedRow
  /\ \A x, y \in rows : x.from = y.from => x = y
  /\ \A x \in rows :
       x.until # None => StartOf(x) < x.until /\ \E y \in rows : y.from = x.until
  /\ \A x, y \in rows : StartOf(x) < StartOf(y) =>
       /\ x.until # None /\ x.until <= StartOf(y)
       /\ \E z \in rows : z.until = y.from
  /\ rows # {} => Standing(rows) # {}

LEMMA DaysAreNumbers ==
  /\ Days \subseteq Nat /\ 0 \notin Days /\ None \notin Days /\ None \notin Nat
  /\ \A x \in DatedRow : StartOf(x) \in Nat
BY CatalogueAssumption DEF DatedRow, StartOf

\* The row that stands is the last.
LEMMA StandingIsLast ==
  ASSUME NEW rows, Chain(rows), NEW row \in rows, row.until = None
  PROVE  /\ Standing(rows) = {row}
         /\ \A x \in rows \ {row} : StartOf(x) < StartOf(row)
<1>1. \A x \in rows : StartOf(x) \in Nat
  BY DaysAreNumbers DEF Chain
<1>2. \A x \in rows : StartOf(x) <= StartOf(row)
  BY <1>1 DEF Chain
<1>3. \A x \in rows : StartOf(x) = StartOf(row) => x = row
  BY DaysAreNumbers DEF Chain, StartOf, DatedRow
<1>4. \A x \in rows \ {row} : StartOf(x) < StartOf(row)
  BY <1>1, <1>2, <1>3
<1>5. \A x \in rows \ {row} : x.until # None
  BY <1>4 DEF Chain
<1> QED
  BY <1>4, <1>5 DEF Standing

\* Of a chain one row is in force on every day from its first day on.
LEMMA ChainFollows ==
  ASSUME NEW rows, Chain(rows)
  PROVE  Follow(rows)
<1> SUFFICES ASSUME NEW day \in {0} \cup Days
             PROVE  Cardinality(InForce(rows, day)) =
                      IF \E x \in rows : x.from = None \/ x.from <= day THEN 1 ELSE 0
  BY DEF Follow, Chain
<1>1. /\ day \in Nat
      /\ \A x \in rows : StartOf(x) \in Nat /\ x.from \in Nat \cup {None}
                         /\ x.until \in Nat \cup {None}
  <2>1. day \in Nat
    BY DaysAreNumbers
  <2>2. rows \subseteq DatedRow
    BY DEF Chain
  <2>3. \A x \in DatedRow : x.from \in Nat \cup {None} /\ x.until \in Nat \cup {None}
    BY DaysAreNumbers DEF DatedRow
  <2> QED
    BY <2>1, <2>2, <2>3, DaysAreNumbers
<1>2. \A x \in rows : StartOf(x) <= day <=> x.from = None \/ x.from <= day
  BY <1>1, DaysAreNumbers DEF StartOf
<1>3. CASE \E x \in rows : x.from = None \/ x.from <= day
  <2> DEFINE begun == {n \in 0..day : \E x \in rows : StartOf(x) = n}
  <2>1. begun \in SUBSET Nat /\ begun # {} /\ IsFiniteSet(begun)
    <3>1. begun # {}
      BY <1>1, <1>2, <1>3
    <3>2. IsFiniteSet(0..day)
      BY <1>1, FS_Interval
    <3> QED
      BY <3>1, <3>2, FS_Subset
  <2>2. PICK n \in begun : \A m \in begun : m <= n
    BY <2>1, Largest
  <2>3. PICK x \in rows : StartOf(x) = n
    OBVIOUS
  <2>4. \A y \in rows : StartOf(y) <= day => StartOf(y) <= n
    BY <1>1, <2>2
  <2>5. n \in Nat /\ n <= day
    BY <1>1
  <2> HIDE DEF begun
  <2>6. x.until = None \/ day < x.until
    <3> SUFFICES ASSUME x.until # None, ~(day < x.until) PROVE FALSE
      OBVIOUS
    <3>1. PICK y \in rows : y.from = x.until
      BY DEF Chain
    <3>2. StartOf(y) = x.until /\ n < x.until
      BY <3>1, <2>3 DEF Chain, StartOf
    <3>3. StartOf(y) <= day
      BY <1>1, <3>2
    <3> QED
      BY <1>1, <2>4, <2>5, <3>2, <3>3
  <2>7. x \in InForce(rows, day)
    BY <1>2, <2>3, <2>5, <2>6 DEF InForce
  <2>8. ASSUME NEW y \in InForce(rows, day) PROVE y = x
    <3>1. y \in rows /\ StartOf(y) <= n /\ (y.until = None \/ day < y.until)
      BY <1>2, <2>4 DEF InForce
    <3>2. ~(StartOf(y) < n)
      BY <1>1, <2>3, <2>5, <3>1 DEF Chain
    <3>3. StartOf(y) = StartOf(x)
      BY <1>1, <2>3, <2>5, <3>1, <3>2
    <3>4. y.from = x.from
      BY <3>1, <3>3, DaysAreNumbers DEF StartOf, Chain, DatedRow
    <3> QED
      BY <3>1, <3>4 DEF Chain
  <2>9. InForce(rows, day) = {x}
    BY <2>7, <2>8
  <2> QED
    BY <1>3, <2>9, FS_Singleton
<1>4. CASE ~ \E x \in rows : x.from = None \/ x.from <= day
  <2>1. InForce(rows, day) = {}
    BY <1>4 DEF InForce
  <2> QED
    BY <1>4, <2>1, FS_EmptySet
<1> QED
  BY <1>3, <1>4

\* A new price behind those there are: the chain goes on, and only its top is new.
LEMMA OpenedKeepsChain ==
  ASSUME NEW rows, Chain(rows), NEW from \in Days \cup {None},
         \A x \in Standing(rows) : StartsAfter(from, x)
  PROVE  LET new == Opened(rows, Standing(rows), from)
         IN /\ Chain(new)
            /\ Starts(new) = Starts(rows) \cup {StartOf(Row(from, None))}
            /\ \A below \in Starts(rows) : below < StartOf(Row(from, None))
<1> DEFINE last == Row(from, None)
           new == Opened(rows, Standing(rows), from)
<1>1. last \in DatedRow /\ last.from = from /\ last.until = None
  BY DEF Row, DatedRow
<1>2. CASE rows = {}
  <2>1. new = {last}
    BY <1>2 DEF Opened, Ending
  <2>2. Chain(new)
    BY <1>1, <2>1, DaysAreNumbers DEF Chain, Standing
  <2> QED
    BY <1>2, <2>1, <2>2 DEF Starts
<1>3. CASE rows # {}
  <2>1. PICK row \in rows : row.until = None
    BY <1>3 DEF Chain, Standing
  <2>2. Standing(rows) = {row} /\ \A x \in rows \ {row} : StartOf(x) < StartOf(row)
    BY <2>1, StandingIsLast
  <2>3. StartsAfter(from, row)
    BY <2>2
  <2> DEFINE closed == Row(row.from, from)
  <2>4. new = (rows \ {row}) \cup {closed, last}
    <3>1. {x \in rows : \E o \in Standing(rows) : o.from = x.from} = {row}
      BY <2>2 DEF Chain
    <3> QED
      BY <3>1 DEF Opened, Ending
  <2>5. /\ closed \in DatedRow /\ closed.from = row.from /\ closed.until = from
        /\ StartOf(closed) = StartOf(row)
    BY <2>1 DEF Chain, Row, DatedRow, StartOf
  <2>6. from \in Days /\ from \in Nat /\ StartOf(row) < from /\ StartOf(last) = from /\ from # None
    BY <2>3, <1>1, DaysAreNumbers DEF StartsAfter, StartOf, Chain, DatedRow
  <2>7. \A x \in rows : StartOf(x) \in Nat /\ StartOf(x) < from /\ StartOf(x) # from
    BY <2>2, <2>6, DaysAreNumbers DEF Chain
  <2> HIDE DEF last, closed, new
  <2>8. Chain(new)
    <3>1. new \subseteq DatedRow
      BY <1>1, <2>4, <2>5 DEF Chain
    <3>2. \A x, y \in new : x.from = y.from => x = y
      BY <1>1, <2>4, <2>5, <2>6, <2>7, DaysAreNumbers DEF Chain, StartOf
    <3>3. \A x \in new : x.until # None => StartOf(x) < x.until /\ \E y \in new : y.from = x.until
      BY <1>1, <2>4, <2>5, <2>6 DEF Chain
    <3>4. ASSUME NEW x \in new, NEW y \in new, StartOf(x) < StartOf(y)
          PROVE  x.until # None /\ x.until <= StartOf(y) /\ \E z \in new : z.until = y.from
      <4>1. x # last
        BY <2>4, <2>5, <2>6, <2>7, <3>4
      <4>2. CASE y = last
        <5>1. x = closed \/ (x \in rows /\ StartOf(x) < StartOf(row))
          BY <2>2, <2>4, <4>1
        <5>2. CASE x = closed
          BY <1>1, <2>4, <2>5, <2>6, <4>2, <5>2, DaysAreNumbers
        <5>3. CASE x \in rows /\ StartOf(x) < StartOf(row)
          <6>1. x.until # None /\ x.until <= StartOf(row) /\ x.until \in Nat
            BY <5>3, DaysAreNumbers DEF Chain, DatedRow
          <6> QED
            BY <1>1, <2>4, <2>5, <2>6, <2>7, <4>2, <6>1, DaysAreNumbers
        <5> QED
          BY <5>1, <5>2, <5>3
      <4>3. CASE y # last
        <5>1. x \in rows \ {row}
          BY <2>2, <2>4, <2>5, <2>7, <3>4, <4>1, <4>3
        <5>2. PICK old \in rows : old.from = y.from /\ StartOf(old) = StartOf(y)
          BY <2>4, <2>5, <4>3
        <5>3. /\ x.until # None /\ x.until <= StartOf(y)
              /\ \E z \in rows : z.until = old.from
          BY <5>1, <5>2, <3>4 DEF Chain
        <5>4. PICK z \in rows : z.until = old.from
          BY <5>3
        <5>5. old.from # None
          BY <5>1, <5>2, <3>4, <2>7 DEF StartOf
        <5>6. z # row
          BY <5>4, <5>5, <2>1
        <5> QED
          BY <2>4, <5>2, <5>3, <5>4, <5>6
      <4> QED
        BY <4>2, <4>3
    <3>5. Standing(new) # {}
      BY <1>1, <2>4 DEF Standing
    <3> QED
      BY <3>1, <3>2, <3>3, <3>4, <3>5 DEF Chain
  <2>9. Starts(new) = Starts(rows) \cup {StartOf(last)}
    BY <2>4, <2>5 DEF Starts
  <2> QED
    BY <2>6, <2>7, <2>8, <2>9 DEF Starts, last, new
<1> QED
  BY <1>2, <1>3

\* The price of now taken back: the one before it stands again, and only the top is gone.
LEMMA TakenBackKeepsChain ==
  ASSUME NEW rows, Chain(rows), NEW row \in rows, row.until = None
  PROVE  LET new == TakenBack(rows, row)
         IN /\ Chain(new)
            /\ Starts(new) = Starts(rows) \ {StartOf(row)}
            /\ StartOf(row) \in Starts(rows) /\ \A below \in Starts(rows) : below <= StartOf(row)
            /\ BeforeRow(rows, row) = {} => rows = {row}
            /\ BeforeRow(rows, row) # {} => new # {}
<1> DEFINE new == TakenBack(rows, row)
           before == BeforeRow(rows, row)
<1>1. /\ Standing(rows) = {row}
      /\ \A x \in rows \ {row} : StartOf(x) < StartOf(row)
  BY StandingIsLast
<1>2. \A x \in rows : StartOf(x) \in Nat /\ x \in DatedRow
  BY DaysAreNumbers DEF Chain
<1>3. StartOf(row) \in Starts(rows) /\ \A below \in Starts(rows) : below <= StartOf(row)
  BY <1>1, <1>2 DEF Starts
<1>4. CASE rows = {row}
  <2>1. before = {}
    BY <1>4 DEF BeforeRow
  <2>2. new = {}
    BY <1>4, <2>1 DEF TakenBack, Ending
  <2>3. Chain({}) /\ Starts({}) = {} /\ Starts(rows) = {StartOf(row)}
    BY <1>4 DEF Chain, Starts
  <2> QED
    BY <1>3, <1>4, <2>1, <2>2, <2>3
<1>5. CASE rows # {row}
  <2>1. PICK other \in rows \ {row} : TRUE
    BY <1>5
  <2>2. PICK prev \in rows : prev.until = row.from
    BY <1>1, <2>1 DEF Chain
  <2>3. /\ row.from \in Days /\ row.from \in Nat /\ row.from # None
        /\ StartOf(row) = row.from /\ prev # row
    <3>1. StartOf(other) < StartOf(row)
      BY <1>1, <2>1
    <3>2. row.from # None
      BY <1>2, <2>1, <3>1 DEF StartOf
    <3> QED
      BY <1>2, <2>2, <3>2, DaysAreNumbers DEF DatedRow, StartOf
  <2>4. before = {prev}
    <3>1. ASSUME NEW x \in rows, x.until = row.from PROVE x = prev
      <4>1. x # row
        BY <2>3, <3>1
      <4>2. StartOf(x) < row.from /\ StartOf(prev) < row.from
        BY <2>2, <2>3, <3>1 DEF Chain
      <4>3. ~(StartOf(x) < StartOf(prev)) /\ ~(StartOf(prev) < StartOf(x))
        BY <1>2, <2>2, <2>3, <3>1, <4>2 DEF Chain
      <4>4. StartOf(x) = StartOf(prev)
        BY <1>2, <4>3
      <4>5. x.from = prev.from
        BY <1>2, <4>4, DaysAreNumbers DEF StartOf, DatedRow
      <4> QED
        BY <4>5 DEF Chain
    <3> QED
      BY <2>2, <2>3, <3>1 DEF BeforeRow
  <2> DEFINE open == Row(prev.from, None)
  <2>5. new = (rows \ {row, prev}) \cup {open}
    BY <2>4 DEF TakenBack, Ending
  <2>6. /\ open \in DatedRow /\ open.from = prev.from /\ open.until = None
        /\ StartOf(open) = StartOf(prev)
    BY <1>2 DEF Row, DatedRow, StartOf
  \* Nothing starts between the row that stands again and the one taken back.
  <2>7. \A x \in rows \ {row, prev} : StartOf(x) < StartOf(prev)
    <3> SUFFICES ASSUME NEW x \in rows \ {row, prev} PROVE StartOf(x) < StartOf(prev)
      OBVIOUS
    <3>1. StartOf(x) < row.from
      BY <1>1, <2>3
    <3>2. ~(StartOf(prev) < StartOf(x))
      BY <1>2, <2>2, <2>3, <3>1 DEF Chain
    <3>3. StartOf(x) # StartOf(prev)
      BY <1>2, DaysAreNumbers DEF Chain, StartOf, DatedRow
    <3> QED
      BY <1>2, <3>2, <3>3
  <2> HIDE DEF open, new, before
  <2>8. Chain(new)
    <3>1. new \subseteq DatedRow
      BY <1>2, <2>5, <2>6
    <3>2. \A x, y \in new : x.from = y.from => x = y
      BY <2>5, <2>6 DEF Chain
    <3>3. ASSUME NEW x \in new, x.until # None
          PROVE  StartOf(x) < x.until /\ \E y \in new : y.from = x.until
      <4>1. x \in rows \ {row, prev}
        BY <2>5, <2>6, <3>3
      <4>2. StartOf(x) < x.until /\ x.until # row.from
        BY <3>3, <4>1, <2>4 DEF Chain, BeforeRow, before
      <4>3. PICK y \in rows : y.from = x.until
        BY <3>3, <4>1 DEF Chain
      <4>4. y # row
        BY <4>2, <4>3
      <4> QED
        BY <2>5, <2>6, <4>2, <4>3, <4>4
    <3>4. ASSUME NEW x \in new, NEW y \in new, StartOf(x) < StartOf(y)
          PROVE  x.until # None /\ x.until <= StartOf(y) /\ \E z \in new : z.until = y.from
      <4>1. x \in rows \ {row, prev}
        BY <1>2, <2>5, <2>6, <2>7, <3>4
      <4>2. PICK old \in rows \ {row} : old.from = y.from /\ StartOf(old) = StartOf(y)
        BY <2>2, <2>3, <2>5, <2>6
      <4>3. /\ x.until # None /\ x.until <= StartOf(y)
            /\ \E z \in rows : z.until = old.from
        BY <3>4, <4>1, <4>2 DEF Chain
      <4>4. PICK z \in rows : z.until = old.from
        BY <4>3
      <4>5. old.from # None
        BY <1>2, <3>4, <4>1, <4>2 DEF StartOf
      <4>6. z # row /\ z # prev
        <5>1. old.from # row.from
          BY <4>2 DEF Chain
        <5> QED
          BY <2>2, <4>4, <4>5, <5>1
      <4> QED
        BY <2>5, <4>2, <4>3, <4>4, <4>6
    <3>5. Standing(new) # {}
      BY <2>5, <2>6 DEF Standing
    <3> QED
      BY <3>1, <3>2, <3>3, <3>4, <3>5 DEF Chain
  <2>9. Starts(new) = Starts(rows) \ {StartOf(row)}
    <3>1. Starts(new) = {StartOf(x) : x \in rows \ {row}}
      BY <2>2, <2>3, <2>5, <2>6 DEF Starts
    <3> QED
      BY <1>1, <1>2, <3>1 DEF Starts
  <2>10. new # {} /\ before # {}
    BY <2>4, <2>5
  <2> QED
    BY <1>3, <2>8, <2>9, <2>10 DEF new, before
<1> QED
  BY <1>4, <1>5


-----------------------------------------------------------------------------
(* How calls are answered. *)

\* Every answer but an error of the server.
Told == {0, 1, 200, 400, 404, 409}

\* What a call that was answered threw is in the handler's catch clauses, or any handler's.
Caught(e, codes) ==
  /\ e \in {"none", "unknown", "picture"} \cup DOMAIN codes
  /\ \A x \in DOMAIN codes : codes[x] \in Told

\* A call is answered with the code of the error its transaction ended with.
LEMMA CloseTells ==
  ASSUME NEW r, NEW section, NEW out, NEW codes, Close(r, section, out, codes),
         Caught(out.error, codes)
  PROVE  answer'.status \in Told
<1>1. answer'.status = Status(out.error, codes)
  BY DEF Close
<1>2. CASE out.error = "none"
  BY <1>1, <1>2 DEF Status, Told, Caught
<1>3. CASE out.error # "none" /\ out.error \in DOMAIN codes
  BY <1>1, <1>3 DEF Status, Told, Caught
<1>4. CASE out.error \in {"unknown", "picture"} /\ out.error \notin DOMAIN codes
  BY <1>1, <1>4 DEF Status, Told
<1> QED
  BY <1>2, <1>3, <1>4 DEF Caught

LEMMA CodesTold ==
  /\ DOMAIN NoCodes = {}
  /\ DOMAIN SeedCodes = {"unique", "missing"}
  /\ \A e \in {"unique", "missing"} : SeedCodes[e] \in Told
BY DEF NoCodes, SeedCodes, Told

\* A picture that is missing ends a request before its transaction.
LEMMA PicturedEnds ==
  ASSUME NEW r, NEW text, NEW now, NEW out
  PROVE  \/ Pictured(r, text, now, out) = out
         \/ Pictured(r, text, now, out).now = now /\ Pictured(r, text, now, out).error = "picture"
BY DEF Pictured, Failed

-----------------------------------------------------------------------------
(* Lists that are one table. *)

LEMMA RowsPlaced ==
  /\ Placed(PlainRow) /\ Placed(WorldRow) /\ Placed(LootRow) /\ Placed(FaqItemRow)
  /\ Placed(ContentCategoryRow) /\ Placed(ContentRow) /\ Placed(RegionRow) /\ Placed(GroundRow)
  /\ Placed(SpendGroupRow) /\ Placed(SpendItemRow) /\ Placed(KindRow) /\ Placed(CoreRow)
  /\ Placed(StatRow) /\ Placed(SymbolGroupRow) /\ Placed(SymbolRow) /\ Placed(ContentsRow)
  /\ Placed(BossRow) /\ Placed(BossDropRow)
<1>1. Placed(PlainRow) /\ Placed(WorldRow) /\ Placed(LootRow) /\ Placed(FaqItemRow)
  BY DEF Placed, PlainRow, WorldRow, LootRow, FaqItemRow
<1>2. /\ Placed(ContentCategoryRow) /\ Placed(ContentRow) /\ Placed(RegionRow)
      /\ Placed(GroundRow) /\ Placed(SpendGroupRow) /\ Placed(SpendItemRow)
  BY DEF Placed, ContentCategoryRow, ContentRow, RegionRow, GroundRow, SpendGroupRow, SpendItemRow
<1>3. /\ Placed(KindRow) /\ Placed(CoreRow) /\ Placed(StatRow) /\ Placed(SymbolGroupRow)
      /\ Placed(SymbolRow)
  BY DEF Placed, KindRow, CoreRow, StatRow, SymbolGroupRow, SymbolRow
<1>4. Placed(ContentsRow) /\ Placed(BossRow) /\ Placed(BossDropRow)
  BY DEF Placed, ContentsRow, BossRow, BossDropRow
<1> QED
  BY <1>1, <1>2, <1>3, <1>4

LEMMA SeedOrdered ==
  /\ SeedKeys \subseteq FewKeys /\ FewKeys \subseteq Keys /\ SeedKeys \subseteq Nat
  /\ 1 \in SeedKeys /\ 1 \in FewKeys /\ 1 \in Keys
  /\ Ordered(PlainSeed, FewKeys, PlainRow) /\ DOMAIN PlainSeed = SeedKeys
BY CatalogueAssumption DEF Ordered, IsTable, OrdersDiffer, PlainSeed, PlainRow, SeedKeys

GoodWorlds(t) == Ordered(t, Keys, WorldRow)

LEMMA WorldsOutcomes ==
  ASSUME NEW t, GoodWorlds(t), NEW q \in WorldRequests
  PROVE  /\ q.op = "createWorld" => Ends(worldCreate(t, t, q), Keys, WorldRow, {"none", "WorldExists"})
         /\ q.op = "updateWorld" => Ends(worldUpdate(t, q), Keys, WorldRow, {"none", "unknown"})
         /\ q.op = "moveWorld" => Ends(worldMove(t, t, q), Keys, WorldRow, {"none", "unknown"})
         /\ Ends(worldSeed(t, t), Keys, WorldRow, {"none"})
<1>0. Ordered(t, Keys, WorldRow) /\ Placed(WorldRow) /\ Keys \in SUBSET Keys
  BY RowsPlaced DEF GoodWorlds
<1>n. NextOrder(t, DOMAIN t) \in Nat
  BY <1>0, OrderedTables, NextOrderBehind DEF Ordered, HasOrders
<1>1. ASSUME q.op = "createWorld"
      PROVE  Ends(worldCreate(t, t, q), Keys, WorldRow, {"none", "WorldExists"})
  <2> DEFINE row == [text |-> q.text, group |-> q.group, order |-> NextOrder(t, DOMAIN t)]
  <2>1. q.key \in Keys /\ row \in WorldRow /\ row.order = NextOrder(t, DOMAIN t)
    BY <1>1, <1>n DEF WorldRequests, WorldRow
  <2> QED
    BY <1>0, <2>1, InsertedOrdered DEF worldCreate
<1>2. ASSUME q.op = "updateWorld"
      PROVE  Ends(worldUpdate(t, q), Keys, WorldRow, {"none", "unknown"})
  <2> DEFINE group == IF q.group = Absent THEN t[q.key].group ELSE q.group
             row == [t[q.key] EXCEPT !.text = q.text, !.group = group]
  <2>1. q.text \in Texts /\ q.group \in {None, 1, Absent}
    BY <1>2 DEF WorldRequests
  <2>2. ASSUME q.key \in DOMAIN t PROVE row \in WorldRow /\ row.order = t[q.key].order
    <3>1. t[q.key] \in WorldRow
      BY <1>0, <2>2 DEF Ordered, IsTable
    <3>2. group \in {None, 1}
      BY <2>1, <3>1 DEF WorldRow
    <3> QED
      BY <2>1, <3>1, <3>2 DEF WorldRow
  <2>3. worldUpdate(t, q) = IF q.key \in DOMAIN t THEN Wrote([t EXCEPT ![q.key] = row])
                            ELSE Unknown(t)
    BY DEF worldUpdate, Updated
  <2> HIDE DEF row
  <2> QED
    BY <1>0, <2>2, <2>3, UpdatedOrdered
<1>3. Ends(worldMove(t, t, q), Keys, WorldRow, {"none", "unknown"})
  BY <1>0, MovedOrdered DEF worldMove
<1>4. Ends(worldSeed(t, t), Keys, WorldRow, {"none"})
  <2> DEFINE rows == [k \in SeedKeys |-> [text |-> 1, group |-> 1, order |-> k - 1]]
  <2>1. Ordered(rows, Keys, WorldRow)
    BY SeedOrdered, CatalogueAssumption DEF Ordered, IsTable, OrdersDiffer, WorldRow, SeedKeys
  <2> QED
    BY <1>0, <2>1, SeededOrdered DEF worldSeed
<1> QED
  BY <1>1, <1>2, <1>3, <1>4

LEMMA WorldsStep ==
  ASSUME GoodWorlds(worlds), NEW r, Q(r) \in WorldRequests, Seen(r) = worlds,
         CreateWorld(r) \/ UpdateWorld(r) \/ MoveWorld(r) \/ SeedWorlds(r)
  PROVE  GoodWorlds(worlds') /\ answer'.status \in Told
<1>1. CASE CreateWorld(r)
  BY <1>1, WorldsOutcomes, PicturedEnds, CloseTells
     DEF CreateWorld, Worlds, Asked, Q, Ends, GoodWorlds, Caught, Told
<1>2. CASE UpdateWorld(r)
  BY <1>2, WorldsOutcomes, PicturedEnds, CloseTells, CodesTold
     DEF UpdateWorld, Worlds, Asked, Q, Ends, GoodWorlds, Caught
<1>3. CASE MoveWorld(r)
  BY <1>3, WorldsOutcomes, CloseTells, CodesTold
     DEF MoveWorld, Worlds, Asked, Q, Ends, GoodWorlds, Caught
<1>4. CASE SeedWorlds(r)
  BY <1>4, WorldsOutcomes, CloseTells, CodesTold
     DEF SeedWorlds, Worlds, Asked, Q, Ends, GoodWorlds, Caught
<1> QED
  BY <1>1, <1>2, <1>3, <1>4

GoodGrades(t) == Ordered(t, Keys, GradeRow)

LEMMA GradesOutcomes ==
  ASSUME NEW t, GoodGrades(t), NEW q \in GradeRequests
  PROVE  /\ q.op = "updateMvpGrade" => Ends(gradeUpdate(t, q), Keys, GradeRow, {"none", "unknown"})
         /\ Ends(gradeMove(t, t, q), Keys, GradeRow, {"none", "unknown"})
         /\ Ends(gradeSeed(t, t), Keys, GradeRow, {"none"})
<1>0. Ordered(t, Keys, GradeRow) /\ Placed(GradeRow) /\ Keys \in SUBSET Keys
  BY RowsPlaced DEF GoodGrades, GradeRow
<1>1. ASSUME q.op = "updateMvpGrade"
      PROVE  Ends(gradeUpdate(t, q), Keys, GradeRow, {"none", "unknown"})
  <2> DEFINE row == [t[q.key] EXCEPT !.text = q.text]
  <2>1. q.text \in Texts
    BY <1>1 DEF GradeRequests
  <2>2. q.key \in DOMAIN t => row \in GradeRow /\ row.order = t[q.key].order
    BY <1>0, <2>1 DEF GradeRow, PlainRow, Ordered, IsTable
  <2>3. gradeUpdate(t, q) = IF q.key \in DOMAIN t THEN Wrote([t EXCEPT ![q.key] = row])
                            ELSE Unknown(t)
    BY DEF gradeUpdate, Updated
  <2> HIDE DEF row
  <2> QED
    BY <1>0, <2>2, <2>3, UpdatedOrdered
<1>2. Ends(gradeMove(t, t, q), Keys, GradeRow, {"none", "unknown"})
  BY <1>0, MovedOrdered DEF gradeMove
<1>3. Ends(gradeSeed(t, t), Keys, GradeRow, {"none"})
  <2>1. Ordered(PlainSeed, Keys, GradeRow)
    BY SeedOrdered DEF Ordered, IsTable, GradeRow
  <2> QED
    BY <1>0, <2>1, SeededOrdered DEF gradeSeed
<1> QED
  BY <1>1, <1>2, <1>3

LEMMA GradesStep ==
  ASSUME GoodGrades(mvpGrades), NEW r, Q(r) \in GradeRequests, Seen(r) = mvpGrades,
         UpdateMvpGrade(r) \/ MoveMvpGrade(r) \/ SeedMvpGrades(r)
  PROVE  GoodGrades(mvpGrades') /\ answer'.status \in Told
<1>1. CASE UpdateMvpGrade(r)
  BY <1>1, GradesOutcomes, CloseTells, CodesTold
     DEF UpdateMvpGrade, Grades, Asked, Q, Ends, GoodGrades, Caught
<1>2. CASE MoveMvpGrade(r)
  BY <1>2, GradesOutcomes, CloseTells, CodesTold
     DEF MoveMvpGrade, Grades, Asked, Q, Ends, GoodGrades, Caught
<1>3. CASE SeedMvpGrades(r)
  BY <1>3, GradesOutcomes, CloseTells, CodesTold
     DEF SeedMvpGrades, Grades, Asked, Q, Ends, GoodGrades, Caught
<1> QED
  BY <1>1, <1>2, <1>3

GoodLoot(t) == Ordered(t, Keys, LootRow)

LootEnds(t, q) ==
  /\ q.op = "createHuntLoot" => Ends(lootCreate(t, t, q), Keys, LootRow, {"none", "HuntLootExists"})
  /\ q.op = "updateHuntLoot" =>
       Ends(lootUpdate(t, q), Keys, LootRow, {"none", "unknown", "HuntLootPriceShape"})
  /\ Ends(lootMove(t, t, q), Keys, LootRow, {"none", "unknown"})
  /\ Ends(lootSeed(t, t), Keys, LootRow, {"none"})

LEMMA LootOutcomes ==
  ASSUME NEW t, GoodLoot(t), NEW q \in LootRequests
  PROVE  LootEnds(t, q)
<1>0. Ordered(t, Keys, LootRow) /\ Placed(LootRow) /\ Keys \in SUBSET Keys
  BY RowsPlaced DEF GoodLoot
<1>n. NextOrder(t, DOMAIN t) \in Nat
  BY <1>0, OrderedTables, NextOrderBehind DEF Ordered, HasOrders
<1>1. ASSUME q.op = "createHuntLoot"
      PROVE  Ends(lootCreate(t, t, q), Keys, LootRow, {"none", "HuntLootExists"})
  <2> DEFINE row == [text |-> q.text, kind |-> q.kind, price |-> q.price,
                     order |-> NextOrder(t, DOMAIN t)]
  <2>1. q.key \in Keys /\ row \in LootRow /\ row.order = NextOrder(t, DOMAIN t)
    BY <1>1, <1>n DEF LootRequests, LootRow
  <2> QED
    BY <1>0, <2>1, InsertedOrdered DEF lootCreate
<1>2. ASSUME q.op = "updateHuntLoot"
      PROVE  Ends(lootUpdate(t, q), Keys, LootRow, {"none", "unknown", "HuntLootPriceShape"})
  <2> DEFINE row == [t[q.key] EXCEPT !.text = q.text, !.price = q.price]
             out == IF q.key \in DOMAIN t THEN Wrote([t EXCEPT ![q.key] = row]) ELSE Unknown(t)
  <2>1. q.text \in Texts /\ q.price \in {None, 1}
    BY <1>2 DEF LootRequests
  <2>2. CASE q.key \in DOMAIN t /\ ~PriceFits(t[q.key].kind, q.price)
    BY <1>0, <2>2, OutsAreOuts DEF lootUpdate, Failed, Ends
  <2>3. CASE ~(q.key \in DOMAIN t /\ ~PriceFits(t[q.key].kind, q.price))
    <3>1. q.key \in DOMAIN t => row \in LootRow /\ row.order = t[q.key].order
      BY <1>0, <2>1, <2>3 DEF LootRow, Ordered, IsTable
    <3>2. lootUpdate(t, q) = out
      BY <2>3 DEF lootUpdate, Updated
    <3> HIDE DEF row
    <3>3. Ends(out, Keys, LootRow, {"none", "unknown"})
      BY <1>0, <3>1, UpdatedOrdered
    <3> QED
      BY <3>2, <3>3 DEF Ends
  <2> QED
    BY <2>2, <2>3
<1>3. Ends(lootMove(t, t, q), Keys, LootRow, {"none", "unknown"})
  BY <1>0, MovedOrdered DEF lootMove
<1>4. Ends(lootSeed(t, t), Keys, LootRow, {"none"})
  <2> DEFINE rows == [k \in SeedKeys |-> [text |-> 1, kind |-> "fragment", price |-> None,
                                          order |-> k - 1]]
  <2>1. PriceFits("fragment", None)
    BY DEF PriceFits
  <2>2. Ordered(rows, Keys, LootRow)
    BY <2>1, SeedOrdered, CatalogueAssumption DEF Ordered, IsTable, OrdersDiffer, LootRow, SeedKeys
  <2> QED
    BY <1>0, <2>2, SeededOrdered DEF lootSeed
<1> QED
  BY <1>1, <1>2, <1>3, <1>4 DEF LootEnds

LEMMA LootStep ==
  ASSUME GoodLoot(huntLoot), NEW r, Q(r) \in LootRequests, Seen(r) = huntLoot,
         CreateHuntLoot(r) \/ UpdateHuntLoot(r) \/ MoveHuntLoot(r) \/ SeedHuntLoot(r)
  PROVE  GoodLoot(huntLoot') /\ answer'.status \in Told
<1>0. LootEnds(huntLoot, Q(r))
  BY LootOutcomes
<1>1. CASE CreateHuntLoot(r)
  BY <1>0, <1>1, CloseTells
     DEF CreateHuntLoot, Loot, Asked, Q, Pictured, Failed, LootEnds, Ends, GoodLoot, Caught, Told
<1>2. CASE UpdateHuntLoot(r)
  BY <1>0, <1>2, CloseTells
     DEF UpdateHuntLoot, Loot, Asked, Q, Pictured, Failed, LootEnds, Ends, GoodLoot, Caught, Told
<1>3. CASE MoveHuntLoot(r)
  BY <1>0, <1>3, CloseTells, CodesTold
     DEF MoveHuntLoot, Loot, LootEnds, Ends, GoodLoot, Caught
<1>4. CASE SeedHuntLoot(r)
  BY <1>0, <1>4, CloseTells, CodesTold
     DEF SeedHuntLoot, Loot, LootEnds, Ends, GoodLoot, Caught
<1> QED
  BY <1>1, <1>2, <1>3, <1>4

-----------------------------------------------------------------------------
(* The cashbook. *)

CashbookTables == {"income", "spend", "kinds"}
GoodCashbook(t) ==
  DOMAIN t = CashbookTables /\ \A c \in CashbookTables : Ordered(t[c], FewKeys, PlainRow)

\* How a transaction on the cashbook ends.  A category of spending is never removed.
EndsCashbook(out, t, errors) ==
  /\ GoodCashbook(out.now) /\ out.error \in errors
  /\ DOMAIN t.spend \subseteq DOMAIN out.now.spend

\* A transaction on one of the tables ends as that on the table did.
LEMMA CashbookPart ==
  ASSUME NEW t, GoodCashbook(t), NEW c \in CashbookTables, NEW out, NEW errors,
         Ends(out, FewKeys, PlainRow, errors), DOMAIN t[c] \subseteq DOMAIN out.now
  PROVE  EndsCashbook(In(t, c, out), t, errors)
<1>0. /\ DOMAIN t = CashbookTables /\ IsOut(out)
      /\ Ordered(out.now, FewKeys, PlainRow) /\ out.error \in errors
  BY DEF Ends, GoodCashbook
<1>1. In(t, c, out).now = [t EXCEPT ![c] = out.now] /\ In(t, c, out).error = out.error
  BY <1>0 DEF In, IsOut
<1> DEFINE new == [t EXCEPT ![c] = out.now]
<1>2. DOMAIN new = CashbookTables /\ \A x \in CashbookTables : new[x] = IF x = c THEN out.now ELSE t[x]
  BY <1>0
<1> HIDE DEF new
<1>3. \A x \in CashbookTables : Ordered(new[x], FewKeys, PlainRow) /\ DOMAIN t[x] \subseteq DOMAIN new[x]
  BY <1>0, <1>2 DEF GoodCashbook
<1>4. GoodCashbook(new) /\ DOMAIN t.spend \subseteq DOMAIN new.spend
  BY <1>2, <1>3 DEF GoodCashbook, CashbookTables
<1> QED
  BY <1>0, <1>1, <1>4 DEF EndsCashbook, new

CashbookEnds(t, q) ==
  /\ q.op = "createCashbookCategory" =>
       EndsCashbook(categoryCreate(t, t, q), t, {"none", "CashbookCategoryExists"})
  /\ q.op = "updateCashbookCategory" => EndsCashbook(categoryUpdate(t, q), t, {"none", "unknown"})
  /\ q.op = "moveCashbookCategory" => EndsCashbook(categoryMove(t, t, q), t, {"none", "unknown"})
  /\ q.op = "updateCashbookItemKind" => EndsCashbook(itemKindUpdate(t, q), t, {"none", "unknown"})
  /\ EndsCashbook(cashbookSeed(t, t), t, {"none", "unique"})

LEMMA CashbookOutcomes ==
  ASSUME NEW t, GoodCashbook(t), NEW q \in CashbookRequests
  PROVE  CashbookEnds(t, q)
<1>0. Placed(PlainRow) /\ FewKeys \in SUBSET Keys
  BY RowsPlaced, SeedOrdered
<1>t. \A c \in CashbookTables : Ordered(t[c], FewKeys, PlainRow)
  BY DEF GoodCashbook
<1>u. ASSUME NEW c \in CashbookTables, q.text \in Texts, NEW out,
             out = Updated(t[c], q.key, LAMBDA row : [row EXCEPT !.text = q.text])
      PROVE  Ends(out, FewKeys, PlainRow, {"none", "unknown"}) /\ DOMAIN out.now = DOMAIN t[c]
  <2> DEFINE row == [t[c][q.key] EXCEPT !.text = q.text]
  <2>1. q.key \in DOMAIN t[c] => row \in PlainRow /\ row.order = t[c][q.key].order
    BY <1>t, <1>u DEF PlainRow, Ordered, IsTable
  <2>2. out = IF q.key \in DOMAIN t[c] THEN Wrote([t[c] EXCEPT ![q.key] = row]) ELSE Unknown(t[c])
    BY <1>u DEF Updated
  <2> HIDE DEF row
  <2>3. Ends(out, FewKeys, PlainRow, {"none", "unknown"})
    BY <1>t, <2>1, <2>2, UpdatedOrdered
  <2>4. DOMAIN out.now = DOMAIN t[c]
    BY <2>2 DEF Wrote, Unknown, Failed
  <2> QED
    BY <2>3, <2>4
<1>1. ASSUME q.op = "createCashbookCategory"
      PROVE  EndsCashbook(categoryCreate(t, t, q), t, {"none", "CashbookCategoryExists"})
  <2> DEFINE c == q.type
             row == [text |-> q.text, order |-> NextOrder(t[c], DOMAIN t[c])]
             out == Inserted(t[c], One(q.key, row), "CashbookCategoryExists")
  <2>1. c \in CashbookTables /\ q.key \in FewKeys /\ q.text \in Texts
    BY <1>1 DEF CashbookRequests, CashbookTables
  <2>2. row \in PlainRow /\ row.order = NextOrder(t[c], DOMAIN t[c])
    BY <1>0, <1>t, <2>1, OrderedTables, NextOrderBehind DEF Ordered, HasOrders, PlainRow
  <2>3. Ends(out, FewKeys, PlainRow, {"none", "CashbookCategoryExists"})
    <3> HIDE DEF row
    <3> QED
      BY <1>0, <1>t, <2>1, <2>2, InsertedOrdered
  <2>4. DOMAIN t[c] \subseteq DOMAIN out.now
    BY DEF Inserted, Wrote, Failed, Join
  <2> QED
    BY <2>1, <2>3, <2>4, CashbookPart DEF categoryCreate
<1>2. ASSUME q.op = "updateCashbookCategory"
      PROVE  EndsCashbook(categoryUpdate(t, q), t, {"none", "unknown"})
  <2>1. q.type \in CashbookTables /\ q.text \in Texts
    BY <1>2 DEF CashbookRequests, CashbookTables
  <2> QED
    BY <2>1, <1>u, CashbookPart DEF categoryUpdate
<1>3. ASSUME q.op = "moveCashbookCategory"
      PROVE  EndsCashbook(categoryMove(t, t, q), t, {"none", "unknown"})
  <2> DEFINE c == q.type
             out == Moved(t[c], t[c], DOMAIN t[c], q.key, q.dir)
  <2>1. c \in CashbookTables
    BY <1>3 DEF CashbookRequests, CashbookTables
  <2>2. Ends(out, FewKeys, PlainRow, {"none", "unknown"})
    BY <1>0, <1>t, <2>1, MovedOrdered
  <2>3. DOMAIN t[c] \subseteq DOMAIN out.now
    BY DEF Moved, Wrote, Kept, Unknown, Failed
  <2> QED
    BY <2>1, <2>2, <2>3, CashbookPart DEF categoryMove
<1>4. ASSUME q.op = "updateCashbookItemKind"
      PROVE  EndsCashbook(itemKindUpdate(t, q), t, {"none", "unknown"})
  <2>1. "kinds" \in CashbookTables /\ q.text \in Texts
    BY <1>4 DEF CashbookRequests, CashbookTables
  <2> QED
    BY <2>1, <1>u, CashbookPart DEF itemKindUpdate
<1>5. EndsCashbook(cashbookSeed(t, t), t, {"none", "unique"})
  <2> DEFINE noCategories == DOMAIN t.income \cup DOMAIN t.spend = {}
             noKinds      == DOMAIN t.kinds = {}
             fill(c, empty) == IF empty THEN Inserted(c, PlainSeed, "unique") ELSE Kept(c)
             parts == [income |-> fill(t.income, noCategories),
                       spend |-> fill(t.spend, noCategories), kinds |-> fill(t.kinds, noKinds)]
  <2>1. ASSUME NEW c \in CashbookTables, NEW empty \in BOOLEAN, empty => DOMAIN t[c] = {}
        PROVE  Ordered(fill(t[c], empty).now, FewKeys, PlainRow)
               /\ DOMAIN t[c] \subseteq DOMAIN fill(t[c], empty).now
    <3>1. CASE empty
      <4>1. fill(t[c], empty) = Seeded(t[c], t[c], PlainSeed)
        BY <2>1, <3>1 DEF Seeded
      <4>2. Ordered(Seeded(t[c], t[c], PlainSeed).now, FewKeys, PlainRow)
        BY <1>t, SeedOrdered, SeededOrdered DEF Ends
      <4> QED
        BY <2>1, <3>1, <4>1, <4>2
    <3>2. CASE ~empty
      BY <1>t, <3>2 DEF Kept
    <3> QED
      BY <3>1, <3>2
  <2>2. ASSUME NEW c \in CashbookTables
        PROVE  Ordered(parts[c].now, FewKeys, PlainRow) /\ DOMAIN t[c] \subseteq DOMAIN parts[c].now
    <3>1. parts[c] = fill(t[c], IF c = "kinds" THEN noKinds ELSE noCategories)
      BY DEF CashbookTables
    <3>2. noKinds \in BOOLEAN /\ noCategories \in BOOLEAN
      OBVIOUS
    <3>3. (IF c = "kinds" THEN noKinds ELSE noCategories) => DOMAIN t[c] = {}
      BY DEF CashbookTables
    <3> HIDE DEF parts, fill, noKinds, noCategories
    <3> QED
      BY <2>1, <3>1, <3>2, <3>3
  <2>3. \/ cashbookSeed(t, t) = Kept(t)
        \/ cashbookSeed(t, t) = Failed(t, "unique")
        \/ cashbookSeed(t, t) = Wrote([c \in DOMAIN t |-> parts[c].now])
    BY DEF cashbookSeed
  <2> HIDE DEF parts
  <2> QED
    BY <2>2, <2>3 DEF EndsCashbook, GoodCashbook, Wrote, Kept, Failed, CashbookTables
<1> QED
  BY <1>1, <1>2, <1>3, <1>4, <1>5 DEF CashbookEnds

LEMMA CashbookStep ==
  ASSUME GoodCashbook(cashbook), NEW r, Q(r) \in CashbookRequests, Seen(r) = cashbook,
         \/ CreateCashbookCategory(r) \/ UpdateCashbookCategory(r) \/ MoveCashbookCategory(r)
         \/ UpdateCashbookItemKind(r) \/ SeedCashbook(r)
  PROVE  /\ GoodCashbook(cashbook') /\ answer'.status \in Told
         /\ DOMAIN cashbook.spend \subseteq DOMAIN cashbook'.spend
<1>0. CashbookEnds(cashbook, Q(r))
  BY CashbookOutcomes
<1>1. CASE CreateCashbookCategory(r)
  BY <1>0, <1>1, CloseTells
     DEF CreateCashbookCategory, Cashbook, Asked, Q, Pictured, Failed, CashbookEnds, EndsCashbook, Caught, Told
<1>2. CASE UpdateCashbookCategory(r)
  BY <1>0, <1>2, CloseTells, CodesTold
     DEF UpdateCashbookCategory, Cashbook, Asked, Q, Pictured, Failed, CashbookEnds, EndsCashbook, Caught
<1>3. CASE MoveCashbookCategory(r)
  BY <1>0, <1>3, CloseTells, CodesTold
     DEF MoveCashbookCategory, Cashbook, Asked, Q, CashbookEnds, EndsCashbook, Caught
<1>4. CASE UpdateCashbookItemKind(r)
  BY <1>0, <1>4, CloseTells, CodesTold
     DEF UpdateCashbookItemKind, Cashbook, Asked, Q, CashbookEnds, EndsCashbook, Caught
<1>5. CASE SeedCashbook(r)
  BY <1>0, <1>5, CloseTells, CodesTold
     DEF SeedCashbook, Cashbook, Asked, Q, CashbookEnds, EndsCashbook, Caught
<1> QED
  BY <1>1, <1>2, <1>3, <1>4, <1>5

-----------------------------------------------------------------------------
(* FAQs. *)

GoodFaqs(t) ==
  /\ DOMAIN t = {"sheets", "items"}
  /\ Ordered(t.sheets, FewKeys, FaqSheetRow) /\ OrderedBy(t.items, FewKeys, FaqItemRow, "sheet")
  /\ \A i \in DOMAIN t.items : t.items[i].sheet \in DOMAIN t.sheets

EndsFaqs(out, errors) == GoodFaqs(out.now) /\ out.error \in errors

LEMMA FaqsPart ==
  ASSUME NEW t, GoodFaqs(t), NEW out, NEW errors
  PROVE  /\ Ends(out, FewKeys, FaqSheetRow, errors) /\ DOMAIN t.sheets \subseteq DOMAIN out.now
              => EndsFaqs(In(t, "sheets", out), errors)
         /\ EndsBy(out, FewKeys, FaqItemRow, "sheet", errors)
              /\ (\A i \in DOMAIN out.now : out.now[i].sheet \in DOMAIN t.sheets)
              => EndsFaqs(In(t, "items", out), errors)
<1>1. \A x : x \in {"sheets", "items"} =>
        DOMAIN [t EXCEPT ![x] = out.now] = {"sheets", "items"}
  BY DEF GoodFaqs
<1>2. [t EXCEPT !["sheets"] = out.now].sheets = out.now
      /\ [t EXCEPT !["sheets"] = out.now].items = t.items
  BY DEF GoodFaqs
<1>3. [t EXCEPT !["items"] = out.now].items = out.now
      /\ [t EXCEPT !["items"] = out.now].sheets = t.sheets
  BY DEF GoodFaqs
<1>4. ASSUME IsOut(out), NEW x \in {"sheets", "items"}
      PROVE  In(t, x, out).now = [t EXCEPT ![x] = out.now] /\ In(t, x, out).error = out.error
  BY <1>4 DEF In, IsOut
<1>5. ASSUME Ends(out, FewKeys, FaqSheetRow, errors), DOMAIN t.sheets \subseteq DOMAIN out.now
      PROVE  EndsFaqs(In(t, "sheets", out), errors)
  BY <1>1, <1>2, <1>4, <1>5 DEF GoodFaqs, EndsFaqs, Ends
<1>6. ASSUME EndsBy(out, FewKeys, FaqItemRow, "sheet", errors),
             \A i \in DOMAIN out.now : out.now[i].sheet \in DOMAIN t.sheets
      PROVE  EndsFaqs(In(t, "items", out), errors)
  BY <1>1, <1>3, <1>4, <1>6 DEF GoodFaqs, EndsFaqs, EndsBy
<1> QED
  BY <1>5, <1>6

FaqsEnds(t, q) ==
  /\ q.op = "createFaqSheet" => EndsFaqs(sheetCreate(t, t, q), {"none", "FaqSheetExists"})
  /\ q.op = "updateFaqSheet" => EndsFaqs(sheetUpdate(t, q), {"none", "unknown"})
  /\ EndsFaqs(sheetRemove(t, q), {"none", "unknown"})
  /\ EndsFaqs(sheetMove(t, t, q), {"none", "unknown"})
  /\ q.op = "createFaqItem" => \A id \in Fresh(FewKeys, t.items) :
       EndsFaqs(faqCreate(t, t, q, id), {"none", "NoFaqSheet"})
  /\ q.op = "updateFaqItem" => EndsFaqs(faqUpdate(t, q), {"none", "unknown"})
  /\ EndsFaqs(faqRemove(t, q), {"none", "unknown"})
  /\ EndsFaqs(faqMove(t, t, q), {"none", "unknown"})
  /\ EndsFaqs(faqSeed(t, t), {"none"})

LEMMA FaqsOutcomes ==
  ASSUME NEW t, GoodFaqs(t), NEW q \in FaqRequests
  PROVE  FaqsEnds(t, q)
<1>0. /\ Placed(FaqSheetRow) /\ Placed(FaqItemRow) /\ FewKeys \in SUBSET Keys
      /\ \A row \in FaqItemRow : "sheet" \in DOMAIN row
  BY RowsPlaced, SeedOrdered DEF FaqSheetRow, FaqItemRow
<1>t. /\ DOMAIN t = {"sheets", "items"}
      /\ Ordered(t.sheets, FewKeys, FaqSheetRow) /\ OrderedBy(t.items, FewKeys, FaqItemRow, "sheet")
      /\ \A i \in DOMAIN t.items : t.items[i].sheet \in DOMAIN t.sheets
  BY DEF GoodFaqs
<1>k. \A e : EndsFaqs(Kept(t), {"none"}) /\ EndsFaqs(Failed(t, e), {e}) /\ EndsFaqs(Unknown(t), {"unknown"})
  BY DEF EndsFaqs, Kept, Failed, Unknown
<1>1. ASSUME q.op = "createFaqSheet"
      PROVE  EndsFaqs(sheetCreate(t, t, q), {"none", "FaqSheetExists"})
  <2> DEFINE row == [text |-> q.text, order |-> NextOrder(t.sheets, DOMAIN t.sheets)]
  <2>1. q.key \in FewKeys /\ q.text \in Texts
    BY <1>1, CatalogueAssumption DEF FaqRequests
  <2>2. row \in FaqSheetRow /\ row.order = NextOrder(t.sheets, DOMAIN t.sheets)
    BY <1>0, <1>t, <2>1, OrderedTables, NextOrderBehind DEF Ordered, HasOrders, FaqSheetRow, PlainRow
  <2>3. sheetCreate(t, t, q) = In(t, "sheets", Inserted(t.sheets, One(q.key, row), "FaqSheetExists"))
    BY DEF sheetCreate
  <2> HIDE DEF row
  <2> QED
    BY <1>0, <1>t, <2>1, <2>2, <2>3, InsertedOrdered, InsertedBeside, FaqsPart
<1>2. ASSUME q.op = "updateFaqSheet"
      PROVE  EndsFaqs(sheetUpdate(t, q), {"none", "unknown"})
  <2> DEFINE row == [t.sheets[q.key] EXCEPT !.text = q.text]
             out == IF q.key \in DOMAIN t.sheets THEN Wrote([t.sheets EXCEPT ![q.key] = row])
                    ELSE Unknown(t.sheets)
  <2>1. q.text \in Texts
    BY <1>2, CatalogueAssumption DEF FaqRequests
  <2>2. q.key \in DOMAIN t.sheets => row \in FaqSheetRow /\ row.order = t.sheets[q.key].order
    BY <1>t, <2>1 DEF FaqSheetRow, PlainRow, Ordered, IsTable
  <2>3. sheetUpdate(t, q) = In(t, "sheets", out)
    BY DEF sheetUpdate, Updated
  <2> HIDE DEF row
  <2>4. Ends(out, FewKeys, FaqSheetRow, {"none", "unknown"})
    BY <1>t, <2>2, UpdatedOrdered
  <2>5. DOMAIN t.sheets \subseteq DOMAIN out.now
    BY DEF Wrote, Unknown, Failed
  <2> QED
    BY <2>3, <2>4, <2>5, FaqsPart
<1>3. EndsFaqs(sheetRemove(t, q), {"none", "unknown"})
  <2> DEFINE sheets == Without(t.sheets, {q.key})
             faqItems == Without(t.items, ItemsOf(t, q.key))
  <2>1. Ordered(sheets, FewKeys, FaqSheetRow)
    BY <1>t DEF Ordered, IsTable, OrdersDiffer, Without
  <2>2. OrderedBy(faqItems, FewKeys, FaqItemRow, "sheet")
    BY <1>t, WithoutOrderedBy
  <2>3. \A i \in DOMAIN faqItems : faqItems[i].sheet \in DOMAIN sheets
    BY <1>t DEF Without, ItemsOf
  <2>4. \/ sheetRemove(t, q) = Unknown(t)
        \/ sheetRemove(t, q) = Wrote([sheets |-> sheets, items |-> faqItems])
    BY DEF sheetRemove
  <2> HIDE DEF sheets, faqItems
  <2> QED
    BY <1>k, <2>1, <2>2, <2>3, <2>4 DEF EndsFaqs, GoodFaqs, Wrote
<1>4. EndsFaqs(sheetMove(t, t, q), {"none", "unknown"})
  <2> DEFINE out == Moved(t.sheets, t.sheets, DOMAIN t.sheets, q.key, q.dir)
  <2>1. Ends(out, FewKeys, FaqSheetRow, {"none", "unknown"})
    BY <1>0, <1>t, MovedOrdered
  <2>2. DOMAIN t.sheets \subseteq DOMAIN out.now
    BY DEF Moved, Wrote, Kept, Unknown, Failed
  <2> QED
    BY <2>1, <2>2, FaqsPart DEF sheetMove
<1>5. ASSUME q.op = "createFaqItem", NEW id \in Fresh(FewKeys, t.items)
      PROVE  EndsFaqs(faqCreate(t, t, q, id), {"none", "NoFaqSheet"})
  <2> DEFINE row == [sheet |-> q.key, text |-> q.text,
                     order |-> NextOrder(t.items, ItemsOf(t, q.key))]
             out == Inserted(t.items, One(id, row), "unique")
  <2>1. q.key \in FewKeys /\ q.text \in Texts /\ id \in FewKeys /\ id \notin DOMAIN t.items
    BY <1>5, CatalogueAssumption DEF FaqRequests, Fresh
  <2>2. ItemsOf(t, q.key) = Siblings(t.items, "sheet", q.key)
    BY DEF ItemsOf, Siblings
  <2>3. NextOrder(t.items, ItemsOf(t, q.key)) \in Nat
    BY <1>0, <1>t, <2>2, SiblingsPlaced
  <2>4. row \in FaqItemRow /\ row.order = NextOrder(t.items, Siblings(t.items, "sheet", row["sheet"]))
    BY <2>1, <2>2, <2>3 DEF FaqItemRow
  <2>5. row.sheet = q.key
    OBVIOUS
  <2>6. CASE q.key \notin DOMAIN t.sheets
    BY <1>k, <2>6 DEF faqCreate, EndsFaqs
  <2>7. CASE q.key \in DOMAIN t.sheets
    <3>1. faqCreate(t, t, q, id) = In(t, "items", out)
      BY <2>7 DEF faqCreate
    <3> HIDE DEF row
    <3>2. EndsBy(out, FewKeys, FaqItemRow, "sheet", {"none"})
      BY <1>0, <1>t, <2>1, <2>4, InsertedOrderedBy, InsertedBeside DEF EndsBy
    <3>3. \A i \in DOMAIN out.now : out.now[i].sheet \in DOMAIN t.sheets
      BY <1>t, <2>5, <2>7, InsertedBeside
    <3>4. EndsFaqs(In(t, "items", out), {"none"})
      BY <3>2, <3>3, FaqsPart
    <3> QED
      BY <3>1, <3>4 DEF EndsFaqs
  <2> QED
    BY <2>6, <2>7
<1>6. ASSUME q.op = "updateFaqItem"
      PROVE  EndsFaqs(faqUpdate(t, q), {"none", "unknown"})
  <2> DEFINE row == [t.items[q.id] EXCEPT !.text = q.text]
             out == IF q.id \in DOMAIN t.items THEN Wrote([t.items EXCEPT ![q.id] = row])
                    ELSE Unknown(t.items)
  <2>1. q.text \in Texts
    BY <1>6, CatalogueAssumption DEF FaqRequests
  <2>2. q.id \in DOMAIN t.items => /\ row \in FaqItemRow /\ row.order = t.items[q.id].order
                                   /\ row["sheet"] = t.items[q.id]["sheet"]
    BY <1>t, <2>1 DEF FaqItemRow, OrderedBy, IsTable
  <2>3. faqUpdate(t, q) = In(t, "items", out)
    BY DEF faqUpdate, Updated
  <2> HIDE DEF row
  <2>4. EndsBy(out, FewKeys, FaqItemRow, "sheet", {"none", "unknown"})
    BY <1>t, <2>2, UpdatedOrderedBy
  <2>5. \A i \in DOMAIN out.now : out.now[i].sheet \in DOMAIN t.sheets
    BY <1>t, <2>2 DEF Wrote, Unknown, Failed
  <2> QED
    BY <2>3, <2>4, <2>5, FaqsPart
<1>7. EndsFaqs(faqRemove(t, q), {"none", "unknown"})
  <2> DEFINE left == Without(t.items, {q.id})
             new == [t EXCEPT !.items = left]
  <2>1. OrderedBy(left, FewKeys, FaqItemRow, "sheet")
    BY <1>t, WithoutOrderedBy
  <2>2. \A i \in DOMAIN left : left[i].sheet \in DOMAIN t.sheets
    BY <1>t DEF Without
  <2>3. faqRemove(t, q) = Unknown(t) \/ faqRemove(t, q) = Wrote(new)
    BY DEF faqRemove
  <2> HIDE DEF left
  <2>4. GoodFaqs(new)
    BY <1>t, <2>1, <2>2 DEF GoodFaqs
  <2> QED
    BY <1>k, <2>3, <2>4 DEF EndsFaqs, Wrote
<1>8. EndsFaqs(faqMove(t, t, q), {"none", "unknown"})
  <2> DEFINE kin == ItemsOf(t, t.items[q.id].sheet)
             out == Moved(t.items, t.items, kin, q.id, q.dir)
  <2>1. kin = Siblings(t.items, "sheet", t.items[q.id].sheet)
    BY DEF ItemsOf, Siblings
  <2>2. EndsBy(out, FewKeys, FaqItemRow, "sheet", {"none", "unknown"})
    BY <1>0, <1>t, <2>1, MovedOrderedBy
  <2>3. PlacesOnly(t.items, out.now)
    BY <1>0, <1>t, <2>1, SiblingsPlaced, MoveKeepsColumns
  <2>4. faqMove(t, t, q) = Unknown(t) \/ faqMove(t, t, q) = In(t, "items", out)
    BY DEF faqMove
  <2> HIDE DEF out
  <2>5. \A i \in DOMAIN out.now : out.now[i].sheet \in DOMAIN t.sheets
    BY <1>0, <1>t, <2>3 DEF PlacesOnly, OrderedBy, IsTable
  <2> QED
    BY <1>k, <2>2, <2>4, <2>5, FaqsPart DEF EndsFaqs
<1>9. EndsFaqs(faqSeed(t, t), {"none"})
  <2> DEFINE row == [sheet |-> 1, text |-> 1, order |-> 0]
             sheets == Join(t.sheets, PlainSeed)
             faqItems == Join(t.items, One(1, row))
  <2>1. CASE DOMAIN t.sheets # {}
    BY <1>k, <2>1 DEF faqSeed
  <2>2. CASE DOMAIN t.sheets = {}
    <3>1. DOMAIN t.items = {}
      BY <1>t, <2>2
    <3>2. faqSeed(t, t) = Wrote([sheets |-> sheets, items |-> faqItems])
      BY <2>2 DEF faqSeed
    <3>3. Ordered(sheets, FewKeys, FaqSheetRow) /\ 1 \in DOMAIN sheets
      BY <2>2, SeedOrdered DEF Ordered, IsTable, OrdersDiffer, Join, FaqSheetRow
    <3>4. row \in FaqItemRow /\ row.sheet = 1
      BY SeedOrdered, CatalogueAssumption DEF FaqItemRow
    <3> HIDE DEF row
    <3>5. DOMAIN faqItems = {1} /\ faqItems[1] = row
      BY <3>1 DEF Join, One
    <3> HIDE DEF sheets, faqItems
    <3>6. OrderedBy(faqItems, FewKeys, FaqItemRow, "sheet")
      BY <3>4, <3>5, SeedOrdered DEF OrderedBy, IsTable
    <3> QED
      BY <3>2, <3>3, <3>4, <3>5, <3>6 DEF EndsFaqs, GoodFaqs, Wrote
  <2> QED
    BY <2>1, <2>2
<1> QED
  BY <1>1, <1>2, <1>3, <1>4, <1>5, <1>6, <1>7, <1>8, <1>9 DEF FaqsEnds

LEMMA FaqsStep ==
  ASSUME GoodFaqs(faqs), NEW r, Q(r) \in FaqRequests, Seen(r) = faqs,
         \/ CreateFaqSheet(r) \/ UpdateFaqSheet(r) \/ RemoveFaqSheet(r) \/ MoveFaqSheet(r)
         \/ CreateFaqItem(r) \/ UpdateFaqItem(r) \/ RemoveFaqItem(r) \/ MoveFaqItem(r)
         \/ SeedFaqs(r)
  PROVE  /\ GoodFaqs(faqs') /\ answer'.status \in Told
<1>0. FaqsEnds(faqs, Q(r))
  BY FaqsOutcomes
<1>1. CASE CreateFaqSheet(r)
  BY <1>0, <1>1, CloseTells
     DEF CreateFaqSheet, Faqs, Asked, Q, FaqsEnds, EndsFaqs, Caught, Told
<1>2. CASE UpdateFaqSheet(r)
  BY <1>0, <1>2, CloseTells, CodesTold
     DEF UpdateFaqSheet, Faqs, Asked, Q, FaqsEnds, EndsFaqs, Caught
<1>3. CASE RemoveFaqSheet(r)
  BY <1>0, <1>3, CloseTells, CodesTold
     DEF RemoveFaqSheet, Faqs, Asked, Q, FaqsEnds, EndsFaqs, Caught
<1>4. CASE MoveFaqSheet(r)
  BY <1>0, <1>4, CloseTells, CodesTold
     DEF MoveFaqSheet, Faqs, Asked, Q, FaqsEnds, EndsFaqs, Caught
<1>5. CASE CreateFaqItem(r)
  BY <1>0, <1>5, CloseTells
     DEF CreateFaqItem, Faqs, Asked, Q, FaqsEnds, EndsFaqs, Caught, Told
<1>6. CASE UpdateFaqItem(r)
  BY <1>0, <1>6, CloseTells, CodesTold
     DEF UpdateFaqItem, Faqs, Asked, Q, FaqsEnds, EndsFaqs, Caught
<1>7. CASE RemoveFaqItem(r)
  BY <1>0, <1>7, CloseTells, CodesTold
     DEF RemoveFaqItem, Faqs, Asked, Q, FaqsEnds, EndsFaqs, Caught
<1>8. CASE MoveFaqItem(r)
  BY <1>0, <1>8, CloseTells, CodesTold
     DEF MoveFaqItem, Faqs, Asked, Q, FaqsEnds, EndsFaqs, Caught
<1>9. CASE SeedFaqs(r)
  BY <1>0, <1>9, CloseTells, CodesTold
     DEF SeedFaqs, Faqs, Asked, Q, FaqsEnds, EndsFaqs, Caught
<1> QED
  BY <1>1, <1>2, <1>3, <1>4, <1>5, <1>6, <1>7, <1>8, <1>9

-----------------------------------------------------------------------------
(* Contents. *)

\* Rows whose category is there, and whose names differ in more than spaces.
ContentsFit(rows, categories) ==
  /\ \A k \in DOMAIN rows : rows[k].category \in DOMAIN categories
  /\ \A a, b \in DOMAIN rows : Comparable(rows[a].text) = Comparable(rows[b].text) => a = b

GoodContents(t) ==
  /\ DOMAIN t = {"categories", "rows"}
  /\ Ordered(t.categories, Categories, ContentCategoryRow)
  /\ OrderedBy(t.rows, Keys, ContentRow, "section") /\ ContentsFit(t.rows, t.categories)

EndsContents(out, errors) == GoodContents(out.now) /\ out.error \in errors

LEMMA ContentsPart ==
  ASSUME NEW t, GoodContents(t), NEW out, NEW errors
  PROVE  /\ Ends(out, Categories, ContentCategoryRow, errors)
              /\ DOMAIN t.categories \subseteq DOMAIN out.now
              => EndsContents(In(t, "categories", out), errors)
         /\ EndsBy(out, Keys, ContentRow, "section", errors) /\ ContentsFit(out.now, t.categories)
              => EndsContents(In(t, "rows", out), errors)
<1> DEFINE first == [t EXCEPT !["categories"] = out.now]
           second == [t EXCEPT !["rows"] = out.now]
<1>1. /\ DOMAIN first = {"categories", "rows"} /\ first.categories = out.now /\ first.rows = t.rows
      /\ DOMAIN second = {"categories", "rows"} /\ second.rows = out.now
      /\ second.categories = t.categories
  BY DEF GoodContents
<1>2. IsOut(out) => /\ In(t, "categories", out).now = first /\ In(t, "rows", out).now = second
                    /\ In(t, "categories", out).error = out.error
                    /\ In(t, "rows", out).error = out.error
  BY DEF In, IsOut
<1> HIDE DEF first, second
<1>3. ASSUME Ends(out, Categories, ContentCategoryRow, errors),
             DOMAIN t.categories \subseteq DOMAIN out.now
      PROVE  EndsContents(In(t, "categories", out), errors)
  BY <1>1, <1>2, <1>3 DEF GoodContents, EndsContents, Ends, ContentsFit
<1>4. ASSUME EndsBy(out, Keys, ContentRow, "section", errors), ContentsFit(out.now, t.categories)
      PROVE  EndsContents(In(t, "rows", out), errors)
  BY <1>1, <1>2, <1>4 DEF GoodContents, EndsContents, EndsBy
<1> QED
  BY <1>3, <1>4

ContentsEnds(t, q) ==
  /\ q.op = "updateContentCategory" =>
       EndsContents(contentCategoryUpdate(t, q), {"none", "unknown"})
  /\ EndsContents(contentCategoryMove(t, t, q), {"none", "unknown"})
  /\ q.op = "createContent" =>
       EndsContents(contentCreate(t, t, q),
                    {"none", "NoContentCategory", "ApiNameTaken", "ContentExists"})
  /\ q.op = "updateContent" =>
       EndsContents(contentUpdate(t, t, q),
                    {"none", "unknown", "NoContentCategory", "ApiNameTaken"})
  /\ EndsContents(contentMove(t, t, q), {"none", "unknown"})
  /\ EndsContents(contentSeed(t, t), {"none"})

LEMMA ContentsOutcomes ==
  ASSUME NEW t, GoodContents(t), NEW q \in ContentRequests
  PROVE  ContentsEnds(t, q)
<1>0. /\ Placed(ContentCategoryRow) /\ Placed(ContentRow)
      /\ Categories \in SUBSET Keys /\ Keys \in SUBSET Keys
      /\ \A row \in ContentRow : "section" \in DOMAIN row
      /\ None \notin Keys /\ 1 \in Texts /\ 1 \in Names /\ {1, 2} \subseteq Texts
  BY RowsPlaced, SeedOrdered, CatalogueAssumption DEF Categories, ContentRow
<1>t. /\ Ordered(t.categories, Categories, ContentCategoryRow)
      /\ OrderedBy(t.rows, Keys, ContentRow, "section")
      /\ \A k \in DOMAIN t.rows : t.rows[k].category \in DOMAIN t.categories
      /\ \A a, b \in DOMAIN t.rows : Comparable(t.rows[a].text) = Comparable(t.rows[b].text) => a = b
  BY DEF GoodContents, ContentsFit
<1>k. \A e : EndsContents(Kept(t), {"none"}) /\ EndsContents(Failed(t, e), {e})
             /\ EndsContents(Unknown(t), {"unknown"})
  BY DEF EndsContents, Kept, Failed, Unknown
<1>1. ASSUME q.op = "updateContentCategory"
      PROVE  EndsContents(contentCategoryUpdate(t, q), {"none", "unknown"})
  <2> DEFINE row == [t.categories[q.key] EXCEPT !.text = q.text]
             out == IF q.key \in DOMAIN t.categories
                    THEN Wrote([t.categories EXCEPT ![q.key] = row]) ELSE Unknown(t.categories)
  <2>1. q.text \in Texts
    BY <1>0, <1>1 DEF ContentRequests
  <2>2. q.key \in DOMAIN t.categories =>
          row \in ContentCategoryRow /\ row.order = t.categories[q.key].order
    BY <1>t, <2>1 DEF ContentCategoryRow, Ordered, IsTable
  <2>3. contentCategoryUpdate(t, q) = In(t, "categories", out)
    BY DEF contentCategoryUpdate, Updated
  <2> HIDE DEF row
  <2>4. Ends(out, Categories, ContentCategoryRow, {"none", "unknown"})
    BY <1>t, <2>2, UpdatedOrdered
  <2>5. DOMAIN t.categories \subseteq DOMAIN out.now
    BY DEF Wrote, Unknown, Failed
  <2> QED
    BY <2>3, <2>4, <2>5, ContentsPart
<1>2. EndsContents(contentCategoryMove(t, t, q), {"none", "unknown"})
  <2> DEFINE out == Moved(t.categories, t.categories, DOMAIN t.categories, q.key, q.dir)
  <2>1. Ends(out, Categories, ContentCategoryRow, {"none", "unknown"})
    BY <1>0, <1>t, MovedOrdered
  <2>2. DOMAIN t.categories \subseteq DOMAIN out.now
    BY DEF Moved, Wrote, Kept, Unknown, Failed
  <2> QED
    BY <2>1, <2>2, ContentsPart DEF contentCategoryMove
<1>3. ASSUME q.op = "createContent"
      PROVE  EndsContents(contentCreate(t, t, q),
                          {"none", "NoContentCategory", "ApiNameTaken", "ContentExists"})
  <2> DEFINE row == [section |-> q.section, category |-> q.category, text |-> q.text,
                     order |-> NextOrder(t.rows, InSection(t, q.section))]
             out == Inserted(t.rows, One(q.key, row), "ContentExists")
  <2>1. /\ q.key \in Keys /\ q.section \in Sections /\ q.category \in Categories
        /\ q.text \in Names
    BY <1>3, SeedOrdered DEF ContentRequests, Categories
  <2>2. InSection(t, q.section) = Siblings(t.rows, "section", q.section)
    BY DEF InSection, Siblings
  <2>3. NextOrder(t.rows, InSection(t, q.section)) \in Nat
    BY <1>0, <1>t, <2>2, SiblingsPlaced
  <2>4. /\ row \in ContentRow /\ row.category = q.category /\ row.text = q.text
        /\ row.order = NextOrder(t.rows, Siblings(t.rows, "section", row["section"]))
    BY <2>1, <2>2, <2>3 DEF ContentRow
  <2>5. CASE \/ q.category \notin DOMAIN t.categories \/ ApiNameTaken(t, None, q.text)
             \/ \E k \in DOMAIN t.rows : t.rows[k].text = q.text
    BY <1>k, <2>5 DEF contentCreate, EndsContents
  <2>6. CASE ~ \/ q.category \notin DOMAIN t.categories \/ ApiNameTaken(t, None, q.text)
               \/ \E k \in DOMAIN t.rows : t.rows[k].text = q.text
    <3>1. contentCreate(t, t, q) = In(t, "rows", out)
      BY <2>6 DEF contentCreate
    <3> HIDE DEF row
    <3>2. EndsBy(out, Keys, ContentRow, "section", {"none", "ContentExists"})
      BY <1>0, <1>t, <2>1, <2>4, InsertedOrderedBy
    <3>3. \A k \in DOMAIN t.rows : Comparable(t.rows[k].text) # Comparable(q.text)
      BY <1>0, <1>t, <2>6 DEF ApiNameTaken, OrderedBy, IsTable
    <3>4. CASE q.key \in DOMAIN t.rows
      <4>1. out.now = t.rows
        BY <3>4 DEF Inserted, Failed, One
      <4>2. ContentsFit(out.now, t.categories)
        BY <1>t, <4>1 DEF ContentsFit
      <4> HIDE DEF out
      <4>3. EndsContents(In(t, "rows", out), {"none", "ContentExists"})
        BY <3>2, <4>2, ContentsPart
      <4> QED
        BY <3>1, <4>3 DEF EndsContents
    <3>5. CASE q.key \notin DOMAIN t.rows
      <4>1. out.now = Join(t.rows, One(q.key, row))
        BY <3>5 DEF Inserted, Wrote, One
      <4>2. DOMAIN out.now = DOMAIN t.rows \cup {q.key} /\ out.now[q.key] = row
            /\ \A k \in DOMAIN t.rows : out.now[k] = t.rows[k]
        BY <3>5, <4>1 DEF Join, One
      <4> HIDE DEF out
      <4>3. ContentsFit(out.now, t.categories)
        BY <1>t, <2>4, <2>6, <3>3, <4>2 DEF ContentsFit
      <4>4. EndsContents(In(t, "rows", out), {"none", "ContentExists"})
        BY <3>2, <4>3, ContentsPart
      <4> QED
        BY <3>1, <4>4 DEF EndsContents
    <3> QED
      BY <3>4, <3>5
  <2> QED
    BY <2>5, <2>6
<1>4. ASSUME q.op = "updateContent"
      PROVE  EndsContents(contentUpdate(t, t, q),
                          {"none", "unknown", "NoContentCategory", "ApiNameTaken"})
  <2> DEFINE row == [t.rows[q.key] EXCEPT !.text = q.text, !.category = q.category]
             new == [t.rows EXCEPT ![q.key] = row]
  <2>1. q.category \in Categories /\ q.text \in Names
    BY <1>4, SeedOrdered DEF ContentRequests, Categories
  <2>2. CASE \/ q.key \notin DOMAIN t.rows \/ q.category \notin DOMAIN t.categories
             \/ ApiNameTaken(t, q.key, q.text)
    BY <1>k, <2>2 DEF contentUpdate, EndsContents
  <2>3. CASE ~ \/ q.key \notin DOMAIN t.rows \/ q.category \notin DOMAIN t.categories
               \/ ApiNameTaken(t, q.key, q.text)
    <3>1. \A k \in DOMAIN t.rows \ {q.key} : Comparable(t.rows[k].text) # Comparable(q.text)
      BY <2>3 DEF ApiNameTaken
    <3>2. contentUpdate(t, t, q) = In(t, "rows", Wrote(new))
      <4>1. ~ \E k \in DOMAIN t.rows \ {q.key} : t.rows[k].text = q.text
        BY <3>1
      <4> QED
        BY <2>3, <4>1 DEF contentUpdate, Updated
    <3>3. /\ row \in ContentRow /\ row.order = t.rows[q.key].order
          /\ row["section"] = t.rows[q.key]["section"]
          /\ row.text = q.text /\ row.category = q.category
      BY <1>t, <2>1, <2>3 DEF ContentRow, OrderedBy, IsTable
    <3> HIDE DEF row
    <3>4. EndsBy(Wrote(new), Keys, ContentRow, "section", {"none"})
      BY <1>t, <2>3, <3>3, ReplacedOrderedBy, OutsAreOuts DEF EndsBy, Wrote
    <3>5. ContentsFit(new, t.categories)
      BY <1>t, <2>3, <3>1, <3>3 DEF ContentsFit
    <3>6. Wrote(new).now = new
      BY DEF Wrote
    <3> HIDE DEF new
    <3>7. EndsContents(In(t, "rows", Wrote(new)), {"none"})
      BY <3>4, <3>5, <3>6, ContentsPart
    <3> QED
      BY <3>2, <3>7 DEF EndsContents
  <2> QED
    BY <2>2, <2>3
<1>5. EndsContents(contentMove(t, t, q), {"none", "unknown"})
  <2> DEFINE kin == InSection(t, t.rows[q.key].section)
             out == Moved(t.rows, t.rows, kin, q.key, q.dir)
  <2>1. kin = Siblings(t.rows, "section", t.rows[q.key].section)
    BY DEF InSection, Siblings
  <2>2. EndsBy(out, Keys, ContentRow, "section", {"none", "unknown"})
    BY <1>0, <1>t, <2>1, MovedOrderedBy
  <2>3. PlacesOnly(t.rows, out.now)
    BY <1>0, <1>t, <2>1, SiblingsPlaced, MoveKeepsColumns
  <2>4. contentMove(t, t, q) = Unknown(t) \/ contentMove(t, t, q) = In(t, "rows", out)
    BY DEF contentMove
  <2> HIDE DEF out
  <2>5. \A k \in DOMAIN t.rows : {"category", "text"} \subseteq DOMAIN t.rows[k] \ {"order"}
    BY <1>t DEF OrderedBy, IsTable, ContentRow
  <2>6. DOMAIN out.now = DOMAIN t.rows
        /\ \A k \in DOMAIN t.rows : out.now[k].category = t.rows[k].category
                                    /\ out.now[k].text = t.rows[k].text
    BY <2>3, <2>5 DEF PlacesOnly
  <2>7. ContentsFit(out.now, t.categories)
    BY <1>t, <2>6 DEF ContentsFit
  <2> QED
    BY <1>k, <2>2, <2>4, <2>7, ContentsPart DEF EndsContents
<1>6. EndsContents(contentSeed(t, t), {"none"})
  <2> DEFINE categories == [k \in Categories |-> [text |-> 1, order |-> k - 1]]
             row == [section |-> 1, category |-> 1, text |-> 1, order |-> 0]
             rows == One(1, row)
  <2>1. contentSeed(t, t) = Kept(t)
        \/ contentSeed(t, t) = Wrote([categories |-> categories, rows |-> rows])
    BY DEF contentSeed
  <2>2. Ordered(categories, Categories, ContentCategoryRow) /\ DOMAIN categories = Categories
    BY <1>0, CatalogueAssumption
       DEF Ordered, IsTable, OrdersDiffer, ContentCategoryRow, Categories
  <2>3. row \in ContentRow /\ row.category = 1
    BY <1>0, SeedOrdered DEF ContentRow, Sections, Categories
  <2> HIDE DEF categories, row
  <2>4. DOMAIN rows = {1} /\ rows[1] = row /\ 1 \in Categories /\ 1 \in Keys
    BY SeedOrdered DEF One, Categories
  <2> HIDE DEF rows
  <2>5. OrderedBy(rows, Keys, ContentRow, "section") /\ ContentsFit(rows, categories)
    BY <2>2, <2>3, <2>4 DEF OrderedBy, IsTable, ContentsFit
  <2> QED
    BY <1>k, <2>1, <2>2, <2>5 DEF EndsContents, GoodContents, Wrote
<1> QED
  BY <1>1, <1>2, <1>3, <1>4, <1>5, <1>6 DEF ContentsEnds

LEMMA ContentsStep ==
  ASSUME GoodContents(contents), NEW r, Q(r) \in ContentRequests, Seen(r) = contents,
         \/ UpdateContentCategory(r) \/ MoveContentCategory(r) \/ CreateContent(r)
         \/ UpdateContent(r) \/ MoveContent(r) \/ SeedContents(r)
  PROVE  /\ GoodContents(contents') /\ answer'.status \in Told
<1>0. ContentsEnds(contents, Q(r))
  BY ContentsOutcomes
<1>1. CASE UpdateContentCategory(r)
  BY <1>0, <1>1, CloseTells, CodesTold
     DEF UpdateContentCategory, OnContents, Asked, Q, ContentsEnds, EndsContents, Caught
<1>2. CASE MoveContentCategory(r)
  BY <1>0, <1>2, CloseTells, CodesTold
     DEF MoveContentCategory, OnContents, Asked, Q, ContentsEnds, EndsContents, Caught
<1>3. CASE CreateContent(r)
  BY <1>0, <1>3, CloseTells
     DEF CreateContent, OnContents, Asked, Q, Pictured, Failed, ContentsEnds, EndsContents,
         Caught, Told, ContentCodes
<1>4. CASE UpdateContent(r)
  BY <1>0, <1>4, CloseTells
     DEF UpdateContent, OnContents, Asked, Q, Pictured, Failed, ContentsEnds, EndsContents,
         Caught, Told, ContentCodes
<1>5. CASE MoveContent(r)
  BY <1>0, <1>5, CloseTells, CodesTold
     DEF MoveContent, OnContents, Asked, Q, ContentsEnds, EndsContents, Caught
<1>6. CASE SeedContents(r)
  BY <1>0, <1>6, CloseTells, CodesTold
     DEF SeedContents, OnContents, Asked, Q, ContentsEnds, EndsContents, Caught
<1> QED
  BY <1>1, <1>2, <1>3, <1>4, <1>5, <1>6

-----------------------------------------------------------------------------
(* Hunting grounds. *)

GoodHunting(t) ==
  /\ DOMAIN t = {"regions", "grounds"}
  /\ Ordered(t.regions, FewKeys, RegionRow) /\ OrderedBy(t.grounds, Keys, GroundRow, "region")
  /\ \A k \in DOMAIN t.grounds : t.grounds[k].region \in DOMAIN t.regions

EndsHunting(out, errors) == GoodHunting(out.now) /\ out.error \in errors

LEMMA HuntingPart ==
  ASSUME NEW t, GoodHunting(t), NEW out, NEW errors
  PROVE  /\ Ends(out, FewKeys, RegionRow, errors) /\ DOMAIN t.regions \subseteq DOMAIN out.now
              => EndsHunting(In(t, "regions", out), errors)
         /\ EndsBy(out, Keys, GroundRow, "region", errors)
              /\ (\A k \in DOMAIN out.now : out.now[k].region \in DOMAIN t.regions)
              => EndsHunting(In(t, "grounds", out), errors)
<1> DEFINE first == [t EXCEPT !["regions"] = out.now]
           second == [t EXCEPT !["grounds"] = out.now]
<1>1. /\ DOMAIN first = {"regions", "grounds"} /\ first.regions = out.now
      /\ first.grounds = t.grounds
      /\ DOMAIN second = {"regions", "grounds"} /\ second.grounds = out.now
      /\ second.regions = t.regions
  BY DEF GoodHunting
<1>2. IsOut(out) => /\ In(t, "regions", out).now = first /\ In(t, "grounds", out).now = second
                    /\ In(t, "regions", out).error = out.error
                    /\ In(t, "grounds", out).error = out.error
  BY DEF In, IsOut
<1> HIDE DEF first, second
<1>3. ASSUME Ends(out, FewKeys, RegionRow, errors), DOMAIN t.regions \subseteq DOMAIN out.now
      PROVE  EndsHunting(In(t, "regions", out), errors)
  BY <1>1, <1>2, <1>3 DEF GoodHunting, EndsHunting, Ends
<1>4. ASSUME EndsBy(out, Keys, GroundRow, "region", errors),
             \A k \in DOMAIN out.now : out.now[k].region \in DOMAIN t.regions
      PROVE  EndsHunting(In(t, "grounds", out), errors)
  BY <1>1, <1>2, <1>4 DEF GoodHunting, EndsHunting, EndsBy
<1> QED
  BY <1>3, <1>4

HuntingEnds(t, q) ==
  /\ q.op = "createHuntingRegion" => EndsHunting(regionCreate(t, t, q), {"none", "RegionExists"})
  /\ q.op = "updateHuntingRegion" => EndsHunting(regionUpdate(t, q), {"none", "unknown"})
  /\ EndsHunting(regionMove(t, t, q), {"none", "unknown"})
  /\ q.op = "createHuntingGround" =>
       EndsHunting(groundCreate(t, t, q),
                   {"none", "NoRegion", "GroundKeyPrefix", "GroundNameTaken", "GroundExists"})
  /\ q.op = "updateHuntingGround" =>
       EndsHunting(groundUpdate(t, t, q), {"none", "unknown", "GroundNameTaken"})
  /\ EndsHunting(groundMove(t, t, q), {"none", "unknown"})
  /\ EndsHunting(huntingSeed(t, t), {"none"})

LEMMA HuntingOutcomes ==
  ASSUME NEW t, GoodHunting(t), NEW q \in HuntingRequests
  PROVE  HuntingEnds(t, q)
<1>0. /\ Placed(RegionRow) /\ Placed(GroundRow) /\ FewKeys \in SUBSET Keys /\ Keys \in SUBSET Keys
      /\ \A row \in GroundRow : "region" \in DOMAIN row
      /\ {1, 2} \subseteq Texts
  BY RowsPlaced, SeedOrdered, CatalogueAssumption DEF GroundRow
<1>t. /\ Ordered(t.regions, FewKeys, RegionRow) /\ OrderedBy(t.grounds, Keys, GroundRow, "region")
      /\ \A k \in DOMAIN t.grounds : t.grounds[k].region \in DOMAIN t.regions
  BY DEF GoodHunting
<1>k. \A e : EndsHunting(Kept(t), {"none"}) /\ EndsHunting(Failed(t, e), {e})
             /\ EndsHunting(Unknown(t), {"unknown"})
  BY DEF EndsHunting, Kept, Failed, Unknown
<1>1. ASSUME q.op = "createHuntingRegion"
      PROVE  EndsHunting(regionCreate(t, t, q), {"none", "RegionExists"})
  <2> DEFINE row == [text |-> q.text, order |-> NextOrder(t.regions, DOMAIN t.regions)]
  <2>1. q.key \in FewKeys /\ q.text \in Texts
    BY <1>0, <1>1 DEF HuntingRequests
  <2>2. row \in RegionRow /\ row.order = NextOrder(t.regions, DOMAIN t.regions)
    BY <1>0, <1>t, <2>1, OrderedTables, NextOrderBehind DEF Ordered, HasOrders, RegionRow
  <2>3. regionCreate(t, t, q) = In(t, "regions", Inserted(t.regions, One(q.key, row), "RegionExists"))
    BY DEF regionCreate
  <2> HIDE DEF row
  <2> QED
    BY <1>0, <1>t, <2>1, <2>2, <2>3, InsertedOrdered, InsertedBeside, HuntingPart
<1>2. ASSUME q.op = "updateHuntingRegion"
      PROVE  EndsHunting(regionUpdate(t, q), {"none", "unknown"})
  <2> DEFINE row == [t.regions[q.key] EXCEPT !.text = q.text]
             out == IF q.key \in DOMAIN t.regions THEN Wrote([t.regions EXCEPT ![q.key] = row])
                    ELSE Unknown(t.regions)
  <2>1. q.text \in Texts
    BY <1>0, <1>2 DEF HuntingRequests
  <2>2. q.key \in DOMAIN t.regions => row \in RegionRow /\ row.order = t.regions[q.key].order
    BY <1>t, <2>1 DEF RegionRow, Ordered, IsTable
  <2>3. regionUpdate(t, q) = In(t, "regions", out)
    BY DEF regionUpdate, Updated
  <2> HIDE DEF row
  <2>4. Ends(out, FewKeys, RegionRow, {"none", "unknown"})
    BY <1>t, <2>2, UpdatedOrdered
  <2>5. DOMAIN t.regions \subseteq DOMAIN out.now
    BY DEF Wrote, Unknown, Failed
  <2> QED
    BY <2>3, <2>4, <2>5, HuntingPart
<1>3. EndsHunting(regionMove(t, t, q), {"none", "unknown"})
  <2> DEFINE out == Moved(t.regions, t.regions, DOMAIN t.regions, q.key, q.dir)
  <2>1. Ends(out, FewKeys, RegionRow, {"none", "unknown"})
    BY <1>0, <1>t, MovedOrdered
  <2>2. DOMAIN t.regions \subseteq DOMAIN out.now
    BY DEF Moved, Wrote, Kept, Unknown, Failed
  <2> QED
    BY <2>1, <2>2, HuntingPart DEF regionMove
<1>4. ASSUME q.op = "createHuntingGround"
      PROVE  EndsHunting(groundCreate(t, t, q),
                         {"none", "NoRegion", "GroundKeyPrefix", "GroundNameTaken", "GroundExists"})
  <2> DEFINE row == [region |-> q.region, name |-> q.name, levels |-> q.levels,
                     order |-> NextOrder(t.grounds, GroundsOf(t, q.region))]
             out == Inserted(t.grounds, One(q.key, row), "GroundExists")
  <2>1. q.key \in Keys /\ q.region \in FewKeys /\ q.name \in {1, 2} /\ q.levels \in LevelLists
    BY <1>4 DEF HuntingRequests
  <2>2. GroundsOf(t, q.region) = Siblings(t.grounds, "region", q.region)
    BY DEF GroundsOf, Siblings
  <2>3. NextOrder(t.grounds, GroundsOf(t, q.region)) \in Nat
    BY <1>0, <1>t, <2>2, SiblingsPlaced
  <2>4. /\ row \in GroundRow /\ row.region = q.region
        /\ row.order = NextOrder(t.grounds, Siblings(t.grounds, "region", row["region"]))
    BY <2>1, <2>2, <2>3 DEF GroundRow
  <2>5. \/ q.region \notin DOMAIN t.regions /\ groundCreate(t, t, q) = Failed(t, "NoRegion")
        \/ groundCreate(t, t, q) \in {Failed(t, "GroundKeyPrefix"), Failed(t, "GroundNameTaken"),
                                      Failed(t, "GroundExists")}
        \/ q.region \in DOMAIN t.regions /\ groundCreate(t, t, q) = In(t, "grounds", out)
    BY DEF groundCreate
  <2> HIDE DEF row
  <2>6. EndsBy(out, Keys, GroundRow, "region", {"none", "GroundExists"})
    BY <1>0, <1>t, <2>1, <2>4, InsertedOrderedBy
  <2>7. ASSUME q.region \in DOMAIN t.regions
        PROVE  \A k \in DOMAIN out.now : out.now[k].region \in DOMAIN t.regions
    BY <1>t, <2>4, <2>7, InsertedBeside
  <2> HIDE DEF out
  <2> QED
    BY <1>k, <2>5, <2>6, <2>7, HuntingPart DEF EndsHunting
<1>5. ASSUME q.op = "updateHuntingGround"
      PROVE  EndsHunting(groundUpdate(t, t, q), {"none", "unknown", "GroundNameTaken"})
  <2> DEFINE row == [t.grounds[q.key] EXCEPT !.name = q.name, !.levels = q.levels]
             out == IF q.key \in DOMAIN t.grounds THEN Wrote([t.grounds EXCEPT ![q.key] = row])
                    ELSE Unknown(t.grounds)
  <2>1. q.name \in {1, 2} /\ q.levels \in LevelLists
    BY <1>5 DEF HuntingRequests
  <2>2. q.key \in DOMAIN t.grounds =>
          /\ row \in GroundRow /\ row.order = t.grounds[q.key].order
          /\ row["region"] = t.grounds[q.key]["region"]
    BY <1>t, <2>1 DEF GroundRow, OrderedBy, IsTable
  <2>3. \/ groundUpdate(t, t, q) \in {Unknown(t), Failed(t, "GroundNameTaken")}
        \/ groundUpdate(t, t, q) = In(t, "grounds", out)
    BY DEF groundUpdate, Updated
  <2> HIDE DEF row
  <2>4. EndsBy(out, Keys, GroundRow, "region", {"none", "unknown"})
    BY <1>t, <2>2, UpdatedOrderedBy
  <2>5. \A k \in DOMAIN out.now : out.now[k].region \in DOMAIN t.regions
    BY <1>t, <2>2 DEF Wrote, Unknown, Failed
  <2> HIDE DEF out
  <2> QED
    BY <1>k, <2>3, <2>4, <2>5, HuntingPart DEF EndsHunting
<1>6. EndsHunting(groundMove(t, t, q), {"none", "unknown"})
  <2> DEFINE kin == GroundsOf(t, t.grounds[q.key].region)
             out == Moved(t.grounds, t.grounds, kin, q.key, q.dir)
  <2>1. kin = Siblings(t.grounds, "region", t.grounds[q.key].region)
    BY DEF GroundsOf, Siblings
  <2>2. EndsBy(out, Keys, GroundRow, "region", {"none", "unknown"})
    BY <1>0, <1>t, <2>1, MovedOrderedBy
  <2>3. PlacesOnly(t.grounds, out.now)
    BY <1>0, <1>t, <2>1, SiblingsPlaced, MoveKeepsColumns
  <2>4. groundMove(t, t, q) = Unknown(t) \/ groundMove(t, t, q) = In(t, "grounds", out)
    BY DEF groundMove
  <2> HIDE DEF out
  <2>5. \A k \in DOMAIN out.now : out.now[k].region \in DOMAIN t.regions
    BY <1>0, <1>t, <2>3 DEF PlacesOnly, OrderedBy, IsTable
  <2> QED
    BY <1>k, <2>2, <2>4, <2>5, HuntingPart DEF EndsHunting
<1>7. EndsHunting(huntingSeed(t, t), {"none"})
  <2> DEFINE row == [region |-> 1, name |-> 1, levels |-> {1}, order |-> 0]
             regions == Join(t.regions, PlainSeed)
             grounds == Join(t.grounds, One(1, row))
  <2>1. CASE DOMAIN t.regions # {}
    BY <1>k, <2>1 DEF huntingSeed
  <2>2. CASE DOMAIN t.regions = {}
    <3>1. DOMAIN t.grounds = {}
      BY <1>t, <2>2
    <3>2. huntingSeed(t, t) = Wrote([regions |-> regions, grounds |-> grounds])
      BY <2>2 DEF huntingSeed
    <3>3. Ordered(regions, FewKeys, RegionRow) /\ 1 \in DOMAIN regions
      BY <2>2, SeedOrdered DEF Ordered, IsTable, OrdersDiffer, Join, RegionRow, PlainRow
    <3>4. row \in GroundRow /\ row.region = 1
      BY SeedOrdered DEF GroundRow, LevelLists
    <3> HIDE DEF row
    <3>5. DOMAIN grounds = {1} /\ grounds[1] = row
      BY <3>1 DEF Join, One
    <3> HIDE DEF regions, grounds
    <3>6. OrderedBy(grounds, Keys, GroundRow, "region")
      BY <3>4, <3>5, SeedOrdered DEF OrderedBy, IsTable
    <3> QED
      BY <3>2, <3>3, <3>4, <3>5, <3>6 DEF EndsHunting, GoodHunting, Wrote
  <2> QED
    BY <2>1, <2>2
<1> QED
  BY <1>1, <1>2, <1>3, <1>4, <1>5, <1>6, <1>7 DEF HuntingEnds

LEMMA HuntingStep ==
  ASSUME GoodHunting(hunting), NEW r, Q(r) \in HuntingRequests, Seen(r) = hunting,
         \/ CreateHuntingRegion(r) \/ UpdateHuntingRegion(r) \/ MoveHuntingRegion(r)
         \/ CreateHuntingGround(r) \/ UpdateHuntingGround(r) \/ MoveHuntingGround(r)
         \/ SeedHuntingGrounds(r)
  PROVE  /\ GoodHunting(hunting') /\ answer'.status \in Told
<1>0. HuntingEnds(hunting, Q(r))
  BY HuntingOutcomes
<1>1. CASE CreateHuntingRegion(r)
  BY <1>0, <1>1, CloseTells
     DEF CreateHuntingRegion, Hunting, Asked, Q, Pictured, Failed, HuntingEnds, EndsHunting,
         Caught, Told, RegionCodes
<1>2. CASE UpdateHuntingRegion(r)
  BY <1>0, <1>2, CloseTells, CodesTold
     DEF UpdateHuntingRegion, Hunting, Asked, Q, Pictured, Failed, HuntingEnds, EndsHunting, Caught
<1>3. CASE MoveHuntingRegion(r)
  BY <1>0, <1>3, CloseTells, CodesTold
     DEF MoveHuntingRegion, Hunting, Asked, Q, HuntingEnds, EndsHunting, Caught
<1>4. CASE CreateHuntingGround(r)
  BY <1>0, <1>4, CloseTells
     DEF CreateHuntingGround, Hunting, Asked, Q, HuntingEnds, EndsHunting, Caught, Told, GroundCodes
<1>5. CASE UpdateHuntingGround(r)
  BY <1>0, <1>5, CloseTells
     DEF UpdateHuntingGround, Hunting, Asked, Q, HuntingEnds, EndsHunting, Caught, Told, GroundCodes
<1>6. CASE MoveHuntingGround(r)
  BY <1>0, <1>6, CloseTells, CodesTold
     DEF MoveHuntingGround, Hunting, Asked, Q, HuntingEnds, EndsHunting, Caught
<1>7. CASE SeedHuntingGrounds(r)
  BY <1>0, <1>7, CloseTells, CodesTold
     DEF SeedHuntingGrounds, Hunting, Asked, Q, HuntingEnds, EndsHunting, Caught
<1> QED
  BY <1>1, <1>2, <1>3, <1>4, <1>5, <1>6, <1>7

-----------------------------------------------------------------------------
(* Dated prices as stacks.  A table of prices moves as a stack does: new    *)
(* prices on top of each of some things, one of a thing taken from its top, *)
(* one thing gone, or the first prices.                                     *)

RowsAt(t, p) == IF p \in DOMAIN t THEN t[p] ELSE {}
StartsAt(t, p) == Starts(RowsAt(t, p))

Pushed(old, new) == \E day \in {0} \cup Days : \A p \in DOMAIN old \cup DOMAIN new :
  \/ StartsAt(new, p) = StartsAt(old, p)
  \/ /\ \A below \in StartsAt(old, p) : below < day
     /\ StartsAt(new, p) = StartsAt(old, p) \cup {day}

Popped(old, new) == \E p \in DOMAIN old : \E top \in StartsAt(old, p) :
  /\ \A below \in StartsAt(old, p) : below <= top
  /\ StartsAt(new, p) = StartsAt(old, p) \ {top}
  /\ \A other \in (DOMAIN old \cup DOMAIN new) \ {p} : StartsAt(new, other) = StartsAt(old, other)

Cleared(old, new) == \E p \in DOMAIN old : new = Without(old, {p})

StackMoves(old, new) ==
  \/ new = old
  \/ Pushed(old, new) \/ Popped(old, new) \/ Cleared(old, new)
  \/ \A p \in DOMAIN old : old[p] = {}

Chains(t) == \A p \in DOMAIN t : Chain(t[p])

\* The rows of a table without a price are a chain.
LEMMA RowsAtChain ==
  ASSUME NEW t, Chains(t), NEW p
  PROVE  Chain(RowsAt(t, p))
BY DEF Chains, RowsAt, Chain

\* The first price of a thing, without a start.
LEMMA FirstIsChain ==
  Chain({Row(None, None)})
<1> DEFINE first == Row(None, None)
<1>1. first \in DatedRow /\ first.until = None /\ StartOf(first) = 0
  BY DEF Row, DatedRow, StartOf
<1> HIDE DEF first
<1>2. Chain({first})
  BY <1>1 DEF Chain, Standing
<1> QED
  BY <1>2 DEF first

\* New prices from one day on, on top of those of some things.
LEMMA OpenedPushes ==
  ASSUME NEW t, Chains(t), NEW P, NEW from \in Days \cup {None},
         \A p \in P : \A x \in Standing(RowsAt(t, p)) : StartsAfter(from, x),
         NEW new, DOMAIN new = DOMAIN t \cup P, \A p \in DOMAIN t \ P : new[p] = t[p],
         \A p \in P : new[p] = Opened(RowsAt(t, p), Standing(RowsAt(t, p)), from)
  PROVE  /\ Chains(new) /\ Pushed(t, new) /\ \A p \in P : new[p] # {}
         /\ \A p \in P : ~ SameStart(RowsAt(t, p), from)
<1> DEFINE rows(p) == Opened(RowsAt(t, p), Standing(RowsAt(t, p)), from)
           last == Row(from, None)
           day == StartOf(last)
<1>1. /\ DOMAIN new = DOMAIN t \cup P /\ \A p \in P : new[p] = rows(p)
      /\ \A p \in DOMAIN t \ P : new[p] = t[p]
  OBVIOUS
<1>2. \A p \in P : rows(p) # {}
  BY DEF Opened
<1>3. \A p \in P : /\ Chain(rows(p)) /\ Starts(rows(p)) = StartsAt(t, p) \cup {day}
                   /\ \A below \in StartsAt(t, p) : below < day
  BY RowsAtChain, OpenedKeepsChain DEF StartsAt
<1>4. day \in {0} \cup Days /\ day \in Nat /\ last.from = from
  BY DaysAreNumbers DEF StartOf, Row
<1> HIDE DEF rows, last
<1>5. Chains(new)
  BY <1>1, <1>3 DEF Chains
<1>6. Pushed(t, new)
  <2>1. \A p \in P : StartsAt(new, p) = StartsAt(t, p) \cup {day}
    BY <1>1, <1>3 DEF StartsAt, RowsAt
  <2>2. \A p \in DOMAIN t \ P : StartsAt(new, p) = StartsAt(t, p)
    BY <1>1 DEF StartsAt, RowsAt
  <2> HIDE DEF day
  <2> QED
    BY <1>1, <1>3, <1>4, <2>1, <2>2 DEF Pushed
<1>7. \A p \in P : ~ SameStart(RowsAt(t, p), from)
  <2> SUFFICES ASSUME NEW p \in P, NEW x \in RowsAt(t, p), x.from = from PROVE FALSE
    BY DEF SameStart
  <2>1. StartOf(x) = day
    BY <1>4 DEF StartOf
  <2>2. StartOf(x) \in StartsAt(t, p)
    BY DEF StartsAt, Starts
  <2> QED
    BY <1>3, <1>4, <2>1, <2>2
<1> QED
  BY <1>1, <1>2, <1>5, <1>6, <1>7

\* The price of now of one thing taken back.
LEMMA TakenBackPops ==
  ASSUME NEW t, Chains(t), NEW p \in DOMAIN t, NEW row \in t[p], row.until = None,
         NEW new, new = Join(t, One(p, TakenBack(t[p], row)))
  PROVE  /\ Chains(new) /\ Popped(t, new) /\ DOMAIN new = DOMAIN t
         /\ \A other \in DOMAIN t \ {p} : new[other] = t[other]
         /\ BeforeRow(t[p], row) # {} => new[p] # {}
<1> DEFINE rows == TakenBack(t[p], row)
<1>1. /\ DOMAIN new = DOMAIN t /\ new[p] = rows
      /\ \A other \in DOMAIN t \ {p} : new[other] = t[other]
  BY DEF Join, One
<1>2. /\ Chain(rows) /\ Starts(rows) = Starts(t[p]) \ {StartOf(row)}
      /\ StartOf(row) \in Starts(t[p]) /\ \A below \in Starts(t[p]) : below <= StartOf(row)
      /\ BeforeRow(t[p], row) # {} => rows # {}
  BY TakenBackKeepsChain DEF Chains
<1> HIDE DEF rows
<1>3. Popped(t, new)
  BY <1>1, <1>2 DEF Popped, StartsAt, RowsAt
<1> QED
  BY <1>1, <1>2, <1>3 DEF Chains

-----------------------------------------------------------------------------
(* Symbols. *)

\* A symbol has costs of its levels up to one below its top, without a gap.
CostsWhole(costs, symbol, max) ==
  \E n \in 1..max : \A l \in Levels : <<symbol, l>> \in DOMAIN costs <=> l < n

GoodSymbols(t) ==
  /\ DOMAIN t = {"groups", "symbols", "costs"}
  /\ Ordered(t.groups, FewKeys, SymbolGroupRow)
  /\ OrderedBy(t.symbols, FewKeys, SymbolRow, "group")
  /\ DOMAIN t.costs \subseteq (DOMAIN t.symbols) \X Levels
  /\ Chains(t.costs) /\ \A p \in DOMAIN t.costs : t.costs[p] # {}
  /\ \A k \in DOMAIN t.symbols :
       /\ t.symbols[k].group \in DOMAIN t.groups
       /\ CostsWhole(t.costs, k, t.groups[t.symbols[k].group].max)

EndsSymbols(t, out, errors) ==
  GoodSymbols(out.now) /\ out.error \in errors /\ StackMoves(t.costs, out.now.costs)

\* Pairs of what is in two sets.
LEMMA PairsOf ==
  ASSUME NEW S, NEW L, NEW D, D \subseteq S \X L
  PROVE  (\A k, l : <<k, l>> \in D => k \in S /\ l \in L) /\ (S = {} => D = {})
OBVIOUS

\* What a good table shows of itself.
LEMMA SymbolsParts ==
  ASSUME NEW t, GoodSymbols(t)
  PROVE  /\ \A k \in DOMAIN t.groups : t.groups[k] \in SymbolGroupRow /\ t.groups[k].max \in 2..3
         /\ \A k \in DOMAIN t.symbols, l \in Levels :
              /\ RowsOf(t, k, l) = RowsAt(t.costs, <<k, l>>)
              /\ Standing(RowsOf(t, k, l)) # {} <=> <<k, l>> \in DOMAIN t.costs
<1>1. \A k \in DOMAIN t.groups : t.groups[k] \in SymbolGroupRow /\ t.groups[k].max \in 2..3
  BY DEF GoodSymbols, Ordered, IsTable, SymbolGroupRow, TopLevels
<1>2. ASSUME NEW k \in DOMAIN t.symbols, NEW l \in Levels
      PROVE  /\ RowsOf(t, k, l) = RowsAt(t.costs, <<k, l>>)
             /\ Standing(RowsOf(t, k, l)) # {} <=> <<k, l>> \in DOMAIN t.costs
  <2>1. RowsOf(t, k, l) = RowsAt(t.costs, <<k, l>>)
    BY DEF RowsOf, RowsAt
  <2>2. Standing({}) = {}
    BY DEF Standing
  <2>3. \A p \in DOMAIN t.costs : Standing(t.costs[p]) # {}
    BY DEF GoodSymbols, Chains, Chain
  <2> QED
    BY <2>1, <2>2, <2>3 DEF RowsAt
<1> QED
  BY <1>1, <1>2

LEMMA SymbolsPart ==
  ASSUME NEW t, GoodSymbols(t), NEW out, NEW errors
  PROVE  /\ Ends(out, FewKeys, SymbolGroupRow, errors)
              /\ (\A k \in DOMAIN t.groups : k \in DOMAIN out.now
                                             /\ out.now[k].max = t.groups[k].max)
              => EndsSymbols(t, In(t, "groups", out), errors)
         /\ EndsBy(out, FewKeys, SymbolRow, "group", errors)
              /\ (\A k \in DOMAIN t.symbols : k \in DOMAIN out.now)
              /\ (\A k \in DOMAIN out.now : out.now[k].group \in DOMAIN t.groups)
              /\ (\A k \in DOMAIN t.symbols : out.now[k].group = t.symbols[k].group)
              => EndsSymbols(t, In(t, "symbols", out), errors)
<1> DEFINE first == [t EXCEPT !["groups"] = out.now]
           second == [t EXCEPT !["symbols"] = out.now]
<1>1. /\ DOMAIN first = {"groups", "symbols", "costs"} /\ first.groups = out.now
      /\ first.symbols = t.symbols /\ first.costs = t.costs
      /\ DOMAIN second = {"groups", "symbols", "costs"} /\ second.symbols = out.now
      /\ second.groups = t.groups /\ second.costs = t.costs
  BY DEF GoodSymbols
<1>2. IsOut(out) => /\ In(t, "groups", out).now = first /\ In(t, "symbols", out).now = second
                    /\ In(t, "groups", out).error = out.error
                    /\ In(t, "symbols", out).error = out.error
  BY DEF In, IsOut
<1>p. /\ DOMAIN t.costs \subseteq (DOMAIN t.symbols) \X Levels
      /\ Ordered(t.groups, FewKeys, SymbolGroupRow)
      /\ OrderedBy(t.symbols, FewKeys, SymbolRow, "group")
      /\ Chains(t.costs) /\ \A p \in DOMAIN t.costs : t.costs[p] # {}
      /\ \A k \in DOMAIN t.symbols :
           /\ t.symbols[k].group \in DOMAIN t.groups
           /\ CostsWhole(t.costs, k, t.groups[t.symbols[k].group].max)
  BY DEF GoodSymbols
<1> HIDE DEF first, second
<1>3. ASSUME Ends(out, FewKeys, SymbolGroupRow, errors),
             \A k \in DOMAIN t.groups : k \in DOMAIN out.now /\ out.now[k].max = t.groups[k].max
      PROVE  EndsSymbols(t, In(t, "groups", out), errors)
  <2>1. GoodSymbols(first)
    BY <1>1, <1>p, <1>3 DEF GoodSymbols, Ends
  <2> QED
    BY <1>1, <1>2, <1>3, <2>1 DEF EndsSymbols, Ends, StackMoves
<1>4. ASSUME EndsBy(out, FewKeys, SymbolRow, "group", errors),
             \A k \in DOMAIN t.symbols : k \in DOMAIN out.now,
             \A k \in DOMAIN out.now : out.now[k].group \in DOMAIN t.groups,
             \A k \in DOMAIN t.symbols : out.now[k].group = t.symbols[k].group
      PROVE  EndsSymbols(t, In(t, "symbols", out), errors)
  <2>1. ASSUME NEW k \in DOMAIN out.now
        PROVE  CostsWhole(t.costs, k, t.groups[out.now[k].group].max)
    <3>1. CASE k \in DOMAIN t.symbols
      BY <1>p, <1>4, <3>1
    <3>2. CASE k \notin DOMAIN t.symbols
      <4>1. \A l \in Levels : <<k, l>> \notin DOMAIN t.costs
        BY <1>p, <3>2, PairsOf
      <4>2. t.groups[out.now[k].group].max \in 2..3
        BY <1>4, SymbolsParts
      <4>3. 1 \in 1..t.groups[out.now[k].group].max /\ \A l \in Levels : ~(l < 1)
        BY <4>2 DEF Levels
      <4> QED
        BY <4>1, <4>3 DEF CostsWhole
    <3> QED
      BY <3>1, <3>2
  <2>2. GoodSymbols(second)
    BY <1>1, <1>p, <1>4, <2>1 DEF GoodSymbols, EndsBy
  <2> QED
    BY <1>1, <1>2, <1>4, <2>2 DEF EndsSymbols, EndsBy, StackMoves
<1> QED
  BY <1>3, <1>4

\* Costs of levels change, and groups and symbols stay.
LEMMA CostsPart ==
  ASSUME NEW t, GoodSymbols(t), NEW costs, Chains(costs), StackMoves(t.costs, costs),
         DOMAIN costs \subseteq (DOMAIN t.symbols) \X Levels,
         \A p \in DOMAIN costs : costs[p] # {},
         \A k \in DOMAIN t.symbols : CostsWhole(costs, k, t.groups[t.symbols[k].group].max)
  PROVE  EndsSymbols(t, Wrote([t EXCEPT !.costs = costs]), {"none"})
<1> DEFINE new == [t EXCEPT !.costs = costs]
<1>1. /\ DOMAIN new = {"groups", "symbols", "costs"} /\ new.groups = t.groups
      /\ new.symbols = t.symbols /\ new.costs = costs
  BY DEF GoodSymbols
<1>2. Wrote(new).now = new /\ Wrote(new).error = "none"
  BY DEF Wrote
<1> HIDE DEF new
<1>3. GoodSymbols(new)
  BY <1>1 DEF GoodSymbols
<1>4. EndsSymbols(t, Wrote(new), {"none"})
  BY <1>1, <1>2, <1>3 DEF EndsSymbols
<1> QED
  BY <1>4 DEF new

SymbolsEnds(t, q) ==
  /\ q.op = "createSymbolGroup" =>
       EndsSymbols(t, symbolGroupCreate(t, t, q), {"none", "SymbolGroupExists"})
  /\ q.op = "updateSymbolGroup" =>
       EndsSymbols(t, symbolGroupUpdate(t, t, q), {"none", "unknown", "LevelsAboveMax"})
  /\ q.op = "createSymbol" =>
       EndsSymbols(t, symbolCreate(t, t, q), {"none", "NoSymbolGroup", "SymbolExists"})
  /\ q.op = "updateSymbol" => EndsSymbols(t, symbolUpdate(t, q), {"none", "unknown"})
  /\ EndsSymbols(t, symbolMove(t, t, q), {"none", "unknown"})
  /\ q.op = "addSymbolCosts" =>
       EndsSymbols(t, costsAdd(t, t, q),
                   {"none", "NoSymbol", "LevelOutOfRange", "NotAfterCurrent", "LevelsIncomplete"})
  /\ q.op = "removeSymbolCost" =>
       EndsSymbols(t, costRemove(t, q), {"none", "unknown", "NotLatest", "OnlyRow"})
  /\ EndsSymbols(t, symbolsSeed(t, t), {"none"})

LEMMA SymbolsOutcomes ==
  ASSUME NEW t, GoodSymbols(t), NEW q \in SymbolRequests \cup SymbolCostRequests
  PROVE  SymbolsEnds(t, q)
<1>0. /\ Placed(SymbolGroupRow) /\ Placed(SymbolRow) /\ FewKeys \in SUBSET Keys
      /\ \A row \in SymbolRow : "group" \in DOMAIN row
      /\ {1, 2} \subseteq Texts /\ 1 \in FewKeys
  BY RowsPlaced, SeedOrdered, CatalogueAssumption DEF SymbolRow
<1>t. /\ Ordered(t.groups, FewKeys, SymbolGroupRow)
      /\ OrderedBy(t.symbols, FewKeys, SymbolRow, "group")
      /\ DOMAIN t.costs \subseteq (DOMAIN t.symbols) \X Levels
      /\ Chains(t.costs) /\ \A p \in DOMAIN t.costs : t.costs[p] # {}
      /\ \A k \in DOMAIN t.symbols :
           /\ t.symbols[k].group \in DOMAIN t.groups
           /\ CostsWhole(t.costs, k, t.groups[t.symbols[k].group].max)
  BY DEF GoodSymbols
<1>k. \A e : EndsSymbols(t, Kept(t), {"none"}) /\ EndsSymbols(t, Failed(t, e), {e})
             /\ EndsSymbols(t, Unknown(t), {"unknown"})
  BY DEF EndsSymbols, Kept, Failed, Unknown, StackMoves
<1>1. ASSUME q.op = "createSymbolGroup"
      PROVE  EndsSymbols(t, symbolGroupCreate(t, t, q), {"none", "SymbolGroupExists"})
  <2> DEFINE row == [text |-> q.text, max |-> q.max,
                     order |-> NextOrder(t.groups, DOMAIN t.groups)]
             out == Inserted(t.groups, One(q.key, row), "SymbolGroupExists")
  <2>1. q.key \in FewKeys /\ q.text \in Texts /\ q.max \in TopLevels
    BY <1>0, <1>1 DEF SymbolRequests, SymbolCostRequests, TopLevels
  <2>2. row \in SymbolGroupRow /\ row.order = NextOrder(t.groups, DOMAIN t.groups)
    BY <1>0, <1>t, <2>1, OrderedTables, NextOrderBehind DEF Ordered, HasOrders, SymbolGroupRow
  <2>3. symbolGroupCreate(t, t, q) = In(t, "groups", out)
    BY DEF symbolGroupCreate
  <2> HIDE DEF row
  <2>4. Ends(out, FewKeys, SymbolGroupRow, {"none", "SymbolGroupExists"})
    BY <1>0, <1>t, <2>1, <2>2, InsertedOrdered
  <2>5. \A k \in DOMAIN t.groups : k \in DOMAIN out.now /\ out.now[k] = t.groups[k]
    BY DEF Inserted, Wrote, Failed, Join, One
  <2> HIDE DEF out
  <2> QED
    BY <2>3, <2>4, <2>5, SymbolsPart
<1>2. ASSUME q.op = "updateSymbolGroup"
      PROVE  EndsSymbols(t, symbolGroupUpdate(t, t, q), {"none", "unknown", "LevelsAboveMax"})
  <2> DEFINE row == [t.groups[q.key] EXCEPT !.text = q.text, !.max = q.max]
             new == [t EXCEPT !.groups = [t.groups EXCEPT ![q.key] = row]]
             above == \E p \in DOMAIN t.costs :
                        p[1] \in SymbolsOf(t, q.key) /\ p[2] >= q.max /\ t.costs[p] # {}
  <2>1. q.text \in Texts /\ q.max \in TopLevels
    BY <1>0, <1>2 DEF SymbolRequests, SymbolCostRequests, TopLevels
  <2>2. CASE q.key \notin DOMAIN t.groups \/ above
    BY <1>k, <2>2 DEF symbolGroupUpdate, EndsSymbols
  <2>3. CASE q.key \in DOMAIN t.groups /\ ~above
    <3>1. symbolGroupUpdate(t, t, q) = Wrote(new)
      <4>1. symbolGroupUpdate(t, t, q) =
              Wrote([t EXCEPT !.groups[q.key].text = q.text, !.groups[q.key].max = q.max])
        BY <2>3 DEF symbolGroupUpdate
      <4>2. [t EXCEPT !.groups[q.key].text = q.text, !.groups[q.key].max = q.max] = new
        BY <2>3 DEF GoodSymbols
      <4> QED
        BY <4>1, <4>2
    <3>2. /\ row \in SymbolGroupRow /\ row.order = t.groups[q.key].order /\ row.max = q.max
      BY <1>t, <2>1, <2>3 DEF Ordered, IsTable, SymbolGroupRow
    <3> HIDE DEF row
    <3>3. Ordered([t.groups EXCEPT ![q.key] = row], FewKeys, SymbolGroupRow)
      BY <1>t, <2>3, <3>2, ReplacedOrdered
    <3>4. /\ DOMAIN new = {"groups", "symbols", "costs"} /\ new.symbols = t.symbols
          /\ new.costs = t.costs /\ DOMAIN new.groups = DOMAIN t.groups
          /\ new.groups[q.key].max = q.max
          /\ \A k \in DOMAIN t.groups \ {q.key} : new.groups[k] = t.groups[k]
          /\ Ordered(new.groups, FewKeys, SymbolGroupRow)
      BY <2>3, <3>2, <3>3 DEF GoodSymbols
    <3> HIDE DEF new
    <3>5. ASSUME NEW k \in DOMAIN t.symbols
          PROVE  CostsWhole(t.costs, k, new.groups[t.symbols[k].group].max)
      <4>1. CASE t.symbols[k].group # q.key
        BY <1>t, <3>4, <4>1
      <4>2. CASE t.symbols[k].group = q.key
        <5>1. PICK n \in 1..t.groups[q.key].max :
                \A l \in Levels : <<k, l>> \in DOMAIN t.costs <=> l < n
          BY <1>t, <4>2 DEF CostsWhole
        <5>2. t.groups[q.key].max \in 2..3 /\ q.max \in 2..3
          BY <2>1, <2>3, SymbolsParts DEF TopLevels
        <5>3. \A l \in Levels : <<k, l>> \in DOMAIN t.costs => ~(l >= q.max)
          BY <1>t, <2>3, <4>2 DEF SymbolsOf
        <5>4. n \in 1..q.max
          <6>1. CASE n = 1
            BY <5>2, <6>1
          <6>2. CASE n # 1
            <7>1. n - 1 \in Levels /\ n - 1 < n
              BY <5>1, <5>2, <6>2 DEF Levels
            <7>2. ~(n - 1 >= q.max)
              BY <5>1, <5>3, <7>1
            <7> QED
              BY <5>1, <5>2, <7>2
          <6> QED
            BY <6>1, <6>2
        <5> QED
          BY <3>4, <4>2, <5>1, <5>4 DEF CostsWhole
      <4> QED
        BY <4>1, <4>2
    <3>6. GoodSymbols(new)
      BY <1>t, <3>4, <3>5 DEF GoodSymbols
    <3> QED
      BY <3>1, <3>4, <3>6 DEF EndsSymbols, Wrote, StackMoves
  <2> QED
    BY <2>2, <2>3
<1>3. ASSUME q.op = "createSymbol"
      PROVE  EndsSymbols(t, symbolCreate(t, t, q), {"none", "NoSymbolGroup", "SymbolExists"})
  <2> DEFINE row == [group |-> q.group, text |-> q.text,
                     order |-> NextOrder(t.symbols, SymbolsOf(t, q.group))]
             out == Inserted(t.symbols, One(q.key, row), "SymbolExists")
  <2>1. q.key \in FewKeys /\ q.group \in FewKeys /\ q.text \in Texts
    BY <1>0, <1>3 DEF SymbolRequests, SymbolCostRequests
  <2>2. SymbolsOf(t, q.group) = Siblings(t.symbols, "group", q.group)
    BY DEF SymbolsOf, Siblings
  <2>3. NextOrder(t.symbols, SymbolsOf(t, q.group)) \in Nat
    BY <1>0, <1>t, <2>2, SiblingsPlaced
  <2>4. /\ row \in SymbolRow /\ row.group = q.group
        /\ row.order = NextOrder(t.symbols, Siblings(t.symbols, "group", row["group"]))
    BY <2>1, <2>2, <2>3 DEF SymbolRow
  <2>5. \/ symbolCreate(t, t, q) = Failed(t, "NoSymbolGroup")
        \/ q.group \in DOMAIN t.groups /\ symbolCreate(t, t, q) = In(t, "symbols", out)
    BY DEF symbolCreate
  <2> HIDE DEF row
  <2>6. EndsBy(out, FewKeys, SymbolRow, "group", {"none", "SymbolExists"})
    BY <1>0, <1>t, <2>1, <2>4, InsertedOrderedBy
  <2>7. /\ \A k \in DOMAIN t.symbols : k \in DOMAIN out.now /\ out.now[k] = t.symbols[k]
        /\ \A k \in DOMAIN out.now : k \in DOMAIN t.symbols \/ out.now[k] = row
    BY DEF Inserted, Wrote, Failed, Join, One
  <2> HIDE DEF out
  <2>8. ASSUME q.group \in DOMAIN t.groups
        PROVE  \A k \in DOMAIN out.now : out.now[k].group \in DOMAIN t.groups
    BY <1>t, <2>4, <2>7, <2>8
  <2>9. ASSUME q.group \in DOMAIN t.groups
        PROVE  EndsSymbols(t, In(t, "symbols", out), {"none", "SymbolExists"})
    BY <2>6, <2>7, <2>8, <2>9, SymbolsPart
  <2> QED
    BY <1>k, <2>5, <2>9 DEF EndsSymbols
<1>4. ASSUME q.op = "updateSymbol"
      PROVE  EndsSymbols(t, symbolUpdate(t, q), {"none", "unknown"})
  <2> DEFINE row == [t.symbols[q.key] EXCEPT !.text = q.text]
             out == IF q.key \in DOMAIN t.symbols THEN Wrote([t.symbols EXCEPT ![q.key] = row])
                    ELSE Unknown(t.symbols)
  <2>1. q.text \in Texts
    BY <1>0, <1>4 DEF SymbolRequests, SymbolCostRequests
  <2>2. q.key \in DOMAIN t.symbols =>
          /\ row \in SymbolRow /\ row.order = t.symbols[q.key].order
          /\ row["group"] = t.symbols[q.key]["group"]
    BY <1>t, <2>1 DEF SymbolRow, OrderedBy, IsTable
  <2>3. symbolUpdate(t, q) = In(t, "symbols", out)
    BY DEF symbolUpdate, Updated
  <2> HIDE DEF row
  <2>4. EndsBy(out, FewKeys, SymbolRow, "group", {"none", "unknown"})
    BY <1>t, <2>2, UpdatedOrderedBy
  <2>5. DOMAIN out.now = DOMAIN t.symbols
        /\ \A k \in DOMAIN t.symbols : out.now[k].group = t.symbols[k].group
    BY <2>2 DEF Wrote, Unknown, Failed
  <2> HIDE DEF out
  <2> QED
    BY <1>t, <2>3, <2>4, <2>5, SymbolsPart
<1>5. EndsSymbols(t, symbolMove(t, t, q), {"none", "unknown"})
  <2> DEFINE kin == SymbolsOf(t, t.symbols[q.key].group)
             out == Moved(t.symbols, t.symbols, kin, q.key, q.dir)
  <2>1. kin = Siblings(t.symbols, "group", t.symbols[q.key].group)
    BY DEF SymbolsOf, Siblings
  <2>2. EndsBy(out, FewKeys, SymbolRow, "group", {"none", "unknown"})
    BY <1>0, <1>t, <2>1, MovedOrderedBy
  <2>3. PlacesOnly(t.symbols, out.now)
    BY <1>0, <1>t, <2>1, SiblingsPlaced, MoveKeepsColumns
  <2>4. symbolMove(t, t, q) = Unknown(t) \/ symbolMove(t, t, q) = In(t, "symbols", out)
    BY DEF symbolMove
  <2> HIDE DEF out
  <2>5. DOMAIN out.now = DOMAIN t.symbols
        /\ \A k \in DOMAIN t.symbols : out.now[k].group = t.symbols[k].group
    BY <1>0, <1>t, <2>3 DEF PlacesOnly, OrderedBy, IsTable
  <2>6. EndsSymbols(t, In(t, "symbols", out), {"none", "unknown"})
    BY <1>t, <2>2, <2>5, SymbolsPart
  <2> QED
    BY <1>k, <2>4, <2>6 DEF EndsSymbols
<1>6. ASSUME q.op = "addSymbolCosts"
      PROVE  EndsSymbols(t, costsAdd(t, t, q),
                         {"none", "NoSymbol", "LevelOutOfRange", "NotAfterCurrent",
                          "LevelsIncomplete"})
  <2> DEFINE max == t.groups[t.symbols[q.key].group].max
             P == {q.key} \X q.levels
             new == [p \in P |-> Opened(RowsOf(t, q.key, p[2]),
                                        Standing(RowsOf(t, q.key, p[2])), q.from)]
             costs == Join(t.costs, new)
             after == [t EXCEPT !.costs = costs]
             errors == {"none", "NoSymbol", "LevelOutOfRange", "NotAfterCurrent",
                        "LevelsIncomplete"}
  <2>1. q.levels \in (SUBSET Levels) \ {{}} /\ q.from \in Days \cup {None} /\ q.levels \subseteq Nat
    BY <1>6 DEF SymbolRequests, SymbolCostRequests, Levels
  <2>2. \/ costsAdd(t, t, q) \in {Failed(t, "NoSymbol"), Failed(t, "LevelOutOfRange"),
                                  Failed(t, "NotAfterCurrent"), Failed(t, "LevelsIncomplete")}
        \/ /\ q.key \in DOMAIN t.symbols /\ q.levels \subseteq 1..(max - 1)
           /\ \A l \in q.levels : \A x \in Standing(RowsOf(t, q.key, l)) : StartsAfter(q.from, x)
           /\ \/ \E l \in q.levels : SameStart(RowsOf(t, q.key, l), q.from)
              \/ /\ 1..(max - 1) \subseteq StandingLevels(after, q.key)
                 /\ costsAdd(t, t, q) = Wrote(after)
    BY DEF costsAdd, WithCosts
  <2>3. CASE costsAdd(t, t, q) \in {Failed(t, "NoSymbol"), Failed(t, "LevelOutOfRange"),
                                    Failed(t, "NotAfterCurrent"), Failed(t, "LevelsIncomplete")}
    BY <1>k, <2>3 DEF EndsSymbols
  <2>4. CASE /\ q.key \in DOMAIN t.symbols /\ q.levels \subseteq 1..(max - 1)
             /\ \A l \in q.levels : \A x \in Standing(RowsOf(t, q.key, l)) : StartsAfter(q.from, x)
             /\ \/ \E l \in q.levels : SameStart(RowsOf(t, q.key, l), q.from)
                \/ /\ 1..(max - 1) \subseteq StandingLevels(after, q.key)
                   /\ costsAdd(t, t, q) = Wrote(after)
    <3>1. \A p \in P : p = <<q.key, p[2]>> /\ p[2] \in q.levels
                       /\ RowsAt(t.costs, p) = RowsOf(t, q.key, p[2])
      <4>1. \A p \in P : p = <<q.key, p[2]>> /\ p[2] \in q.levels
        OBVIOUS
      <4>2. \A l : RowsAt(t.costs, <<q.key, l>>) = RowsOf(t, q.key, l)
        BY DEF RowsAt, RowsOf
      <4> HIDE DEF P
      <4> QED
        BY <4>1, <4>2
    <3>2. new = [p \in P |-> Opened(RowsAt(t.costs, p), Standing(RowsAt(t.costs, p)), q.from)]
      BY <3>1
    <3>3. \A p \in P : \A x \in Standing(RowsAt(t.costs, p)) : StartsAfter(q.from, x)
      BY <2>4, <3>1
    <3> HIDE DEF P
    <3>4. /\ DOMAIN costs = DOMAIN t.costs \cup P
          /\ \A p \in DOMAIN t.costs \ P : costs[p] = t.costs[p]
          /\ \A p \in P : costs[p] = Opened(RowsAt(t.costs, p), Standing(RowsAt(t.costs, p)), q.from)
      BY <3>2 DEF Join
    <3> HIDE DEF costs
    <3>p. /\ Chains(costs) /\ Pushed(t.costs, costs) /\ \A p \in P : costs[p] # {}
          /\ \A p \in P : ~ SameStart(RowsAt(t.costs, p), q.from)
      BY <1>t, <2>1, <3>3, <3>4, OpenedPushes
    <3>5. \A l \in q.levels : ~ SameStart(RowsOf(t, q.key, l), q.from)
      BY <3>p DEF P, RowsAt, RowsOf
    <3>6. 1..(max - 1) \subseteq StandingLevels(after, q.key) /\ costsAdd(t, t, q) = Wrote(after)
      BY <2>4, <3>5
    <3>7. DOMAIN costs \subseteq (DOMAIN t.symbols) \X Levels
      BY <1>t, <2>1, <2>4, <3>4 DEF P
    <3>8. \A p \in DOMAIN costs : costs[p] # {}
      BY <1>t, <3>4, <3>p
    <3>9. ASSUME NEW k \in DOMAIN t.symbols
          PROVE  CostsWhole(costs, k, t.groups[t.symbols[k].group].max)
      <4>1. CASE k # q.key
        <5>1. \A l \in Levels : <<k, l>> \in DOMAIN costs <=> <<k, l>> \in DOMAIN t.costs
          BY <3>4, <4>1 DEF P
        <5> QED
          BY <1>t, <5>1 DEF CostsWhole
      <4>2. CASE k = q.key
        <5>1. max \in 2..3
          BY <1>t, <2>4, SymbolsParts
        <5>2. PICK n \in 1..max : \A l \in Levels : <<k, l>> \in DOMAIN t.costs <=> l < n
          BY <1>t, <4>2 DEF CostsWhole
        <5>3. after.costs = costs
          BY DEF GoodSymbols
        <5>4. \A l \in StandingLevels(after, q.key) : <<q.key, l>> \in DOMAIN costs
          <6>1. Standing({}) = {}
            BY DEF Standing
          <6> QED
            BY <5>3, <6>1 DEF StandingLevels, RowsOf
        <5> HIDE DEF costs, after
        <5>5. \A l \in 1..(max - 1) : <<k, l>> \in DOMAIN costs
          BY <3>6, <4>2, <5>4
        <5>6. \A l \in Levels : <<k, l>> \in DOMAIN costs => l < max
          <6> SUFFICES ASSUME NEW l \in Levels, <<k, l>> \in DOMAIN costs PROVE l < max
            OBVIOUS
          <6>1. CASE <<k, l>> \in DOMAIN t.costs
            BY <5>1, <5>2, <6>1 DEF Levels
          <6>2. CASE <<k, l>> \in P
            <7>1. l \in q.levels
              BY <6>2 DEF P
            <7>2. l \in 1..(max - 1)
              BY <2>4, <7>1
            <7> QED
              BY <5>1, <7>2
          <6> QED
            BY <3>4, <6>1, <6>2
        <5>7. \A l \in Levels : <<k, l>> \in DOMAIN costs <=> l < max
          BY <5>1, <5>5, <5>6 DEF Levels
        <5>8. max \in 1..max
          BY <5>1
        <5> QED
          BY <4>2, <5>7, <5>8 DEF CostsWhole
      <4> QED
        BY <4>1, <4>2
    <3>10. EndsSymbols(t, Wrote(after), {"none"})
      <4> HIDE DEF costs
      <4> QED
        BY <3>p, <3>7, <3>8, <3>9, CostsPart DEF StackMoves
    <3> QED
      BY <3>6, <3>10 DEF EndsSymbols
  <2> QED
    BY <2>2, <2>3, <2>4
<1>7. ASSUME q.op = "removeSymbolCost"
      PROVE  EndsSymbols(t, costRemove(t, q), {"none", "unknown", "NotLatest", "OnlyRow"})
  <2> DEFINE rows == RowsOf(t, q.symbol, q.level)
             named == {x \in rows : x.from = q.from}
             row == CHOOSE x \in named : TRUE
             p == <<q.symbol, q.level>>
             new == [x \in {q.symbol} \X {q.level} |-> TakenBack(rows, row)]
             costs == Join(t.costs, new)
             after == [t EXCEPT !.costs = costs]
  <2>1. \/ costRemove(t, q) \in {Unknown(t), Failed(t, "NotLatest"), Failed(t, "OnlyRow")}
        \/ /\ named # {} /\ ~(row.until # None) /\ BeforeRow(rows, row) # {}
           /\ costRemove(t, q) = Wrote(after)
    BY DEF costRemove, WithCosts
  <2>2. CASE costRemove(t, q) \in {Unknown(t), Failed(t, "NotLatest"), Failed(t, "OnlyRow")}
    BY <1>k, <2>2 DEF EndsSymbols
  <2>3. CASE /\ named # {} /\ ~(row.until # None) /\ BeforeRow(rows, row) # {}
             /\ costRemove(t, q) = Wrote(after)
    <3>1. row \in rows
      BY <2>3
    <3>2. p \in DOMAIN t.costs /\ rows = t.costs[p]
      BY <3>1 DEF RowsOf
    <3> HIDE DEF row
    <3>3. new = One(p, TakenBack(t.costs[p], row))
      BY <3>2 DEF One
    <3>4. /\ Chains(costs) /\ Popped(t.costs, costs) /\ DOMAIN costs = DOMAIN t.costs
          /\ \A other \in DOMAIN t.costs \ {p} : costs[other] = t.costs[other]
          /\ costs[p] # {}
      <4> HIDE DEF new, p
      <4> QED
        BY <1>t, <2>3, <3>1, <3>2, <3>3, TakenBackPops
    <3> HIDE DEF costs, p
    <3>5. \A k \in DOMAIN t.symbols : CostsWhole(costs, k, t.groups[t.symbols[k].group].max)
      BY <1>t, <3>4 DEF CostsWhole
    <3>6. \A x \in DOMAIN costs : costs[x] # {}
      BY <1>t, <3>4
    <3>7. EndsSymbols(t, Wrote(after), {"none"})
      BY <1>t, <3>4, <3>5, <3>6, CostsPart DEF StackMoves
    <3> QED
      BY <2>3, <3>7 DEF EndsSymbols
  <2> QED
    BY <2>1, <2>2, <2>3
<1>8. EndsSymbols(t, symbolsSeed(t, t), {"none"})
  <2> DEFINE groups == Join(t.groups, [k \in SeedKeys |-> [text |-> 1, max |-> 2, order |-> k - 1]])
             rows == Join(t.symbols, [k \in SeedKeys |-> [group |-> k, text |-> 1, order |-> 0]])
             costs == Join(t.costs, [p \in SeedKeys \X {1} |-> {Row(None, None)}])
             new == [groups |-> groups, symbols |-> rows, costs |-> costs]
  <2>1. CASE DOMAIN t.groups # {}
    BY <1>k, <2>1 DEF symbolsSeed
  <2>2. CASE DOMAIN t.groups = {}
    <3>1. DOMAIN t.symbols = {} /\ DOMAIN t.costs = {}
      <4>1. DOMAIN t.symbols = {}
        BY <1>t, <2>2
      <4> QED
        BY <1>t, <4>1, PairsOf
    <3>2. symbolsSeed(t, t) = Wrote(new)
      BY <2>2 DEF symbolsSeed
    <3>3. /\ DOMAIN groups = SeedKeys
          /\ \A k \in SeedKeys : groups[k] = [text |-> 1, max |-> 2, order |-> k - 1]
      BY <2>2 DEF Join
    <3>4. /\ DOMAIN rows = SeedKeys
          /\ \A k \in SeedKeys : rows[k] = [group |-> k, text |-> 1, order |-> 0]
      BY <3>1 DEF Join
    <3>5. DOMAIN costs = SeedKeys \X {1} /\ \A p \in SeedKeys \X {1} : costs[p] = {Row(None, None)}
      BY <3>1 DEF Join
    <3> HIDE DEF groups, rows, costs
    <3>6. Ordered(groups, FewKeys, SymbolGroupRow)
      BY <1>0, <3>3, SeedOrdered, CatalogueAssumption
         DEF Ordered, IsTable, OrdersDiffer, SymbolGroupRow, TopLevels, SeedKeys
    <3>7. OrderedBy(rows, FewKeys, SymbolRow, "group")
      <4>1. \A k \in SeedKeys : rows[k] \in SymbolRow /\ rows[k]["group"] = k
        BY <1>0, <3>4, SeedOrdered DEF SymbolRow
      <4>2. DOMAIN rows = SeedKeys /\ SeedKeys \subseteq FewKeys
        BY <3>4, SeedOrdered
      <4> QED
        BY <4>1, <4>2 DEF OrderedBy, IsTable
    <3>8. Chains(costs)
      BY <3>5, FirstIsChain DEF Chains
    <3>9. ASSUME NEW k \in SeedKeys PROVE CostsWhole(costs, k, groups[rows[k].group].max)
      <4>1. groups[rows[k].group].max = 2
        BY <3>3, <3>4
      <4>2. \A l \in Levels : <<k, l>> \in DOMAIN costs <=> l < 2
        BY <3>5 DEF Levels
      <4>3. 2 \in 1..2
        OBVIOUS
      <4> QED
        BY <4>1, <4>2, <4>3 DEF CostsWhole
    <3>10. \A k \in SeedKeys : rows[k].group \in SeedKeys
      BY <3>4
    <3>11. DOMAIN costs \subseteq SeedKeys \X Levels /\ \A p \in DOMAIN costs : costs[p] # {}
      BY <3>5 DEF Levels
    <3>12. GoodSymbols(new)
      BY <3>3, <3>4, <3>6, <3>7, <3>8, <3>9, <3>10, <3>11 DEF GoodSymbols
    <3>13. StackMoves(t.costs, costs)
      BY <3>1 DEF StackMoves
    <3> QED
      BY <3>2, <3>12, <3>13 DEF EndsSymbols, Wrote
  <2> QED
    BY <2>1, <2>2
<1> QED
  BY <1>1, <1>2, <1>3, <1>4, <1>5, <1>6, <1>7, <1>8 DEF SymbolsEnds

LEMMA SymbolsStep ==
  ASSUME GoodSymbols(symbols), NEW r, Q(r) \in SymbolRequests \cup SymbolCostRequests, Seen(r) = symbols,
         \/ CreateSymbolGroup(r) \/ UpdateSymbolGroup(r) \/ CreateSymbol(r) \/ UpdateSymbol(r)
         \/ MoveSymbol(r) \/ AddSymbolCosts(r) \/ RemoveSymbolCost(r) \/ SeedSymbolCosts(r)
  PROVE  /\ GoodSymbols(symbols') /\ answer'.status \in Told
         /\ StackMoves(symbols.costs, symbols'.costs)
<1>0. SymbolsEnds(symbols, Q(r))
  BY SymbolsOutcomes
<1>1. CASE CreateSymbolGroup(r)
  BY <1>0, <1>1, CloseTells
     DEF CreateSymbolGroup, OnSymbols, Asked, Q, SymbolsEnds, EndsSymbols, Caught, StackMoves, Told
<1>2. CASE UpdateSymbolGroup(r)
  BY <1>0, <1>2, CloseTells
     DEF UpdateSymbolGroup, OnSymbols, Asked, Q, SymbolsEnds, EndsSymbols, Caught, StackMoves, Told
<1>3. CASE CreateSymbol(r)
  BY <1>0, <1>3, CloseTells
     DEF CreateSymbol, OnSymbols, Asked, Q, Pictured, Failed, SymbolsEnds, EndsSymbols, Caught,
         StackMoves, Told
<1>4. CASE UpdateSymbol(r)
  BY <1>0, <1>4, CloseTells, CodesTold
     DEF UpdateSymbol, OnSymbols, Asked, Q, Pictured, Failed, SymbolsEnds, EndsSymbols, Caught,
         StackMoves
<1>5. CASE MoveSymbol(r)
  BY <1>0, <1>5, CloseTells, CodesTold
     DEF MoveSymbol, OnSymbols, Asked, Q, SymbolsEnds, EndsSymbols, Caught, StackMoves
<1>6. CASE AddSymbolCosts(r)
  BY <1>0, <1>6, CloseTells
     DEF AddSymbolCosts, OnSymbols, Asked, Q, SymbolsEnds, EndsSymbols, Caught, StackMoves, Told
<1>7. CASE RemoveSymbolCost(r)
  BY <1>0, <1>7, CloseTells
     DEF RemoveSymbolCost, OnSymbols, Asked, Q, SymbolsEnds, EndsSymbols, Caught, StackMoves, Told
<1>8. CASE SeedSymbolCosts(r)
  BY <1>0, <1>8, CloseTells, CodesTold
     DEF SeedSymbolCosts, OnSymbols, Asked, Q, SymbolsEnds, EndsSymbols, Caught, StackMoves
<1> QED
  BY <1>1, <1>2, <1>3, <1>4, <1>5, <1>6, <1>7, <1>8

-----------------------------------------------------------------------------
(* Enhancement. *)

\* Steps of star force from 0 on, without a gap.
StarsWhole(stars) ==
  /\ \E n \in 0..(MaxStar + 1) : DOMAIN stars = 0..(n - 1)
  /\ \A star \in DOMAIN stars : stars[star] \in StarRow

GoodEnhancement(t) ==
  /\ DOMAIN t = {"rules", "bands", "soul", "stars"}
  /\ t.rules \in {None} \cup Texts /\ t.soul \in {None} \cup SoulCostRow
  /\ IsTable(t.bands, MinLevels, PotentialCostRow) /\ StarsWhole(t.stars)

EndsEnhancement(out, errors) == GoodEnhancement(out.now) /\ out.error \in errors

\* What may be asked of a table: no step is added behind the last there may be.
EnhancementAsked(t) ==
  {q \in EnhancementRequests :
     (q.op = "addStarforceStep" /\ DOMAIN t.stars # {}) => LastStar(t) < MaxStar}
    \cup {[op |-> "seedEnhancementCosts"]}

\* The last of the steps is the one behind which there is none.
LEMMA LastOfStars ==
  ASSUME NEW t, NEW n \in Nat \ {0}, DOMAIN t.stars = 0..(n - 1)
  PROVE  LastStar(t) = n - 1
<1>1. 0..(n - 1) \in SUBSET Nat /\ IsFiniteSet(0..(n - 1)) /\ 0..(n - 1) # {}
  <2>1. 0 \in 0..(n - 1) /\ 0..(n - 1) \in SUBSET Nat /\ n - 1 \in Int /\ 0 \in Int
    OBVIOUS
  <2>2. IsFiniteSet(0..(n - 1))
    BY <2>1, FS_Interval
  <2> QED
    BY <2>1, <2>2
<1>2. LastStar(t) \in 0..(n - 1) /\ \A star \in 0..(n - 1) : star <= LastStar(t)
  BY <1>1, MaxOf DEF LastStar
<1>3. n - 1 \in 0..(n - 1) /\ n - 1 \in Int
  OBVIOUS
<1> QED
  BY <1>2, <1>3

\* A table of which one part is set, or changed by a transaction on it.
LEMMA EnhancementSet ==
  ASSUME NEW t, GoodEnhancement(t), NEW x
  PROVE  /\ x \in {None} \cup Texts => EndsEnhancement(Set(t, "rules", x), {"none"})
         /\ x \in {None} \cup Texts => EndsEnhancement(Set(t, "soul", x), {"none"})
         /\ IsTable(x, MinLevels, PotentialCostRow) => EndsEnhancement(Set(t, "bands", x), {"none"})
         /\ StarsWhole(x) => EndsEnhancement(Set(t, "stars", x), {"none"})
<1>1. \A field : Set(t, field, x).now = [t EXCEPT ![field] = x] /\ Set(t, field, x).error = "none"
  BY DEF Set, Wrote
<1>2. x \in {None} \cup Texts => /\ GoodEnhancement([t EXCEPT !["rules"] = x])
                                /\ GoodEnhancement([t EXCEPT !["soul"] = x])
  BY DEF GoodEnhancement, SoulCostRow
<1>3. IsTable(x, MinLevels, PotentialCostRow) => GoodEnhancement([t EXCEPT !["bands"] = x])
  BY DEF GoodEnhancement
<1>4. StarsWhole(x) => GoodEnhancement([t EXCEPT !["stars"] = x])
  BY DEF GoodEnhancement
<1> QED
  BY <1>1, <1>2, <1>3, <1>4 DEF EndsEnhancement

LEMMA EnhancementPart ==
  ASSUME NEW t, GoodEnhancement(t), NEW out, IsOut(out), NEW errors, out.error \in errors
  PROVE  /\ IsTable(out.now, MinLevels, PotentialCostRow)
              => EndsEnhancement(In(t, "bands", out), errors)
         /\ StarsWhole(out.now) => EndsEnhancement(In(t, "stars", out), errors)
<1>1. /\ In(t, "bands", out).now = Set(t, "bands", out.now).now
      /\ In(t, "stars", out).now = Set(t, "stars", out.now).now
      /\ In(t, "bands", out).error = out.error /\ In(t, "stars", out).error = out.error
  BY DEF In, IsOut, Set, Wrote
<1> QED
  BY <1>1, EnhancementSet DEF EndsEnhancement

EnhancementEnds(t, q) ==
  /\ q.op = "setEnhancementRules" => EndsEnhancement(rulesSet(t, q), {"none"})
  /\ q.op = "setSoulPotentialResetCost" => EndsEnhancement(soulSet(t, q), {"none"})
  /\ q.op = "setPotentialResetCost" => EndsEnhancement(costSet(t, q), {"none", "unknown"})
  /\ q.op = "addPotentialResetBand" => EndsEnhancement(bandAdd(t, q), {"none", "BandExists"})
  /\ EndsEnhancement(bandRemove(t, q), {"none", "BaseBand", "unknown"})
  /\ q.op = "setStarforceStep" => EndsEnhancement(starSet(t, q), {"none", "unknown"})
  /\ q.op = "addStarforceStep" => EndsEnhancement(starAdd(t, t, q), {"none"})
  /\ EndsEnhancement(starRemoveLast(t, t), {"none", "unknown"})
  /\ EndsEnhancement(rulesSeed(t), {"none"})
  /\ EndsEnhancement(costsSeed(t, t), {"none"})

LEMMA EnhancementOutcomes ==
  ASSUME NEW t, GoodEnhancement(t), NEW q \in EnhancementAsked(t)
  PROVE  EnhancementEnds(t, q)
<1>0. {1, 2} \subseteq Texts /\ 1 \in MinLevels /\ MaxStar \in Nat \ {0}
  BY CatalogueAssumption, EnhancementAssumption
<1>t. /\ DOMAIN t = {"rules", "bands", "soul", "stars"} /\ t.rules \in {None} \cup Texts
      /\ IsTable(t.bands, MinLevels, PotentialCostRow) /\ StarsWhole(t.stars)
  BY DEF GoodEnhancement
<1>k. \A e : EndsEnhancement(Kept(t), {"none"}) /\ EndsEnhancement(Failed(t, e), {e})
             /\ EndsEnhancement(Unknown(t), {"unknown"})
  BY DEF EndsEnhancement, Kept, Failed, Unknown
<1>q. /\ q.op \in {"setEnhancementRules", "setSoulPotentialResetCost", "addStarforceStep",
                   "setPotentialResetCost", "addPotentialResetBand", "setStarforceStep"}
           => q.text \in Texts
      /\ q.op \in {"setPotentialResetCost", "addPotentialResetBand"} => q.min \in MinLevels
  BY <1>0 DEF EnhancementAsked, EnhancementRequests
<1>1. /\ q.op = "setEnhancementRules" => EndsEnhancement(rulesSet(t, q), {"none"})
      /\ q.op = "setSoulPotentialResetCost" => EndsEnhancement(soulSet(t, q), {"none"})
  BY <1>q, EnhancementSet DEF rulesSet, soulSet
<1>2. ASSUME q.op = "setPotentialResetCost"
      PROVE  EndsEnhancement(costSet(t, q), {"none", "unknown"})
  <2> DEFINE out == IF q.min \in DOMAIN t.bands THEN Wrote([t.bands EXCEPT ![q.min] = q.text])
                    ELSE Unknown(t.bands)
  <2>1. costSet(t, q) = In(t, "bands", out)
    BY DEF costSet, Updated
  <2>2. IsOut(out) /\ out.error \in {"none", "unknown"}
    BY OutsAreOuts DEF Wrote, Unknown, Failed
  <2>3. IsTable(out.now, MinLevels, PotentialCostRow)
    BY <1>t, <1>q, <1>2 DEF IsTable, PotentialCostRow, Wrote, Unknown, Failed
  <2> HIDE DEF out
  <2> QED
    BY <2>1, <2>2, <2>3, EnhancementPart
<1>3. ASSUME q.op = "addPotentialResetBand"
      PROVE  EndsEnhancement(bandAdd(t, q), {"none", "BandExists"})
  <2> DEFINE out == Inserted(t.bands, One(q.min, q.text), "BandExists")
  <2>1. bandAdd(t, q) = In(t, "bands", out)
    BY DEF bandAdd
  <2>2. IsOut(out) /\ out.error \in {"none", "BandExists"}
    BY OutsAreOuts DEF Inserted, Wrote, Failed
  <2>3. IsTable(out.now, MinLevels, PotentialCostRow)
    BY <1>t, <1>q, <1>3 DEF IsTable, PotentialCostRow, Inserted, Wrote, Failed, Join, One
  <2> HIDE DEF out
  <2> QED
    BY <2>1, <2>2, <2>3, EnhancementPart
<1>4. EndsEnhancement(bandRemove(t, q), {"none", "BaseBand", "unknown"})
  <2> DEFINE rows == Without(t.bands, {q.min})
  <2>1. IsTable(rows, MinLevels, PotentialCostRow)
    BY <1>t DEF IsTable, Without
  <2>2. \/ bandRemove(t, q) \in {Failed(t, "BaseBand"), Unknown(t)}
        \/ bandRemove(t, q) = Set(t, "bands", rows)
    BY DEF bandRemove
  <2> HIDE DEF rows
  <2> QED
    BY <1>k, <2>1, <2>2, EnhancementSet DEF EndsEnhancement
<1>5. ASSUME q.op = "setStarforceStep"
      PROVE  EndsEnhancement(starSet(t, q), {"none", "unknown"})
  <2> DEFINE out == IF q.star \in DOMAIN t.stars THEN Wrote([t.stars EXCEPT ![q.star] = q.text])
                    ELSE Unknown(t.stars)
  <2>1. starSet(t, q) = In(t, "stars", out)
    BY DEF starSet, Updated
  <2>2. IsOut(out) /\ out.error \in {"none", "unknown"}
    BY OutsAreOuts DEF Wrote, Unknown, Failed
  <2>3. DOMAIN out.now = DOMAIN t.stars /\ \A star \in DOMAIN out.now : out.now[star] \in Texts
    BY <1>t, <1>q, <1>5 DEF StarsWhole, StarRow, Wrote, Unknown, Failed
  <2> HIDE DEF out
  <2>4. StarsWhole(out.now)
    BY <1>t, <2>3 DEF StarsWhole, StarRow
  <2> QED
    BY <2>1, <2>2, <2>4, EnhancementPart
<1>6. ASSUME q.op = "addStarforceStep"
      PROVE  EndsEnhancement(starAdd(t, t, q), {"none"})
  <2> DEFINE star == IF DOMAIN t.stars = {} THEN 0 ELSE LastStar(t) + 1
             out == Inserted(t.stars, One(star, q.text), "unique")
             new == Join(t.stars, One(star, q.text))
  <2>1. PICK n \in 0..(MaxStar + 1) : DOMAIN t.stars = 0..(n - 1)
    BY <1>t DEF StarsWhole
  <2>2. star = n /\ n <= MaxStar
    <3>1. CASE n = 0
      BY <1>0, <2>1, <3>1
    <3>2. CASE n # 0
      <4>1. n \in Nat \ {0} /\ 0 \in 0..(n - 1)
        BY <1>0, <3>2
      <4>2. LastStar(t) = n - 1
        BY <2>1, <4>1, LastOfStars
      <4>3. LastStar(t) < MaxStar
        <5>1. DOMAIN t.stars # {}
          BY <2>1, <4>1
        <5>2. q \notin {[op |-> "seedEnhancementCosts"]}
          BY <1>6
        <5> QED
          BY <1>6, <5>1, <5>2 DEF EnhancementAsked
      <4> QED
        BY <1>0, <2>1, <4>1, <4>2, <4>3
    <3> QED
      BY <3>1, <3>2
  <2>3. starAdd(t, t, q) = In(t, "stars", out)
    BY DEF starAdd
  <2> HIDE DEF star
  <2>4. out = Wrote(new)
    BY <1>0, <2>1, <2>2 DEF Inserted, One
  <2>5. DOMAIN new = 0..n /\ \A s \in DOMAIN new : new[s] \in Texts
    BY <1>0, <1>t, <1>q, <1>6, <2>1, <2>2 DEF Join, One, StarsWhole, StarRow
  <2> HIDE DEF out, new
  <2>6. StarsWhole(new)
    <3>1. n + 1 \in 0..(MaxStar + 1) /\ (n + 1) - 1 = n
      BY <1>0, <2>1, <2>2
    <3> QED
      BY <2>5, <3>1 DEF StarsWhole, StarRow
  <2>7. IsOut(out) /\ out.now = new /\ out.error = "none"
    BY <2>4, OutsAreOuts DEF Wrote
  <2> QED
    BY <2>3, <2>6, <2>7, EnhancementPart
<1>7. EndsEnhancement(starRemoveLast(t, t), {"none", "unknown"})
  <2> DEFINE rows == Without(t.stars, {LastStar(t)})
  <2>1. PICK n \in 0..(MaxStar + 1) : DOMAIN t.stars = 0..(n - 1)
    BY <1>t DEF StarsWhole
  <2>2. CASE DOMAIN t.stars = {}
    BY <1>k, <2>2 DEF starRemoveLast, EndsEnhancement
  <2>3. CASE DOMAIN t.stars # {}
    <3>1. n \in Nat \ {0}
      BY <1>0, <2>1, <2>3
    <3>2. LastStar(t) = n - 1
      BY <2>1, <3>1, LastOfStars
    <3>3. DOMAIN rows = 0..((n - 1) - 1) /\ \A star \in DOMAIN rows : rows[star] \in StarRow
      BY <1>t, <2>1, <3>1, <3>2 DEF Without, StarsWhole
    <3> HIDE DEF rows
    <3>4. n - 1 \in 0..(MaxStar + 1)
      BY <1>0, <2>1, <3>1
    <3>5. StarsWhole(rows)
      BY <3>3, <3>4 DEF StarsWhole
    <3>6. starRemoveLast(t, t) = Set(t, "stars", rows)
      BY <2>3 DEF starRemoveLast, rows
    <3> QED
      BY <3>5, <3>6, EnhancementSet DEF EndsEnhancement
  <2> QED
    BY <2>2, <2>3
<1>8. EndsEnhancement(rulesSeed(t), {"none"})
  <2>1. EndsEnhancement(Set(t, "rules", 1), {"none"})
    BY <1>0, EnhancementSet
  <2> QED
    BY <1>k, <2>1 DEF rulesSeed, EndsEnhancement, Kept, Set, Wrote
<1>9. EndsEnhancement(costsSeed(t, t), {"none"})
  <2> DEFINE bands == Join(t.bands, One(1, 1))
             stars == Join(t.stars, [n \in 0..1 |-> 1])
             new == [t EXCEPT !.bands = bands, !.soul = 1, !.stars = stars]
  <2>1. CASE DOMAIN t.bands # {} \/ t.soul # None \/ DOMAIN t.stars # {}
    BY <1>k, <2>1 DEF costsSeed
  <2>2. CASE ~(DOMAIN t.bands # {} \/ t.soul # None \/ DOMAIN t.stars # {})
    <3>1. costsSeed(t, t) = Wrote(new)
      BY <2>2 DEF costsSeed
    <3>2. IsTable(bands, MinLevels, PotentialCostRow)
      BY <1>0, <2>2 DEF IsTable, Join, One, PotentialCostRow
    <3>3. DOMAIN stars = 0..1 /\ \A n \in 0..1 : stars[n] = 1
      BY <2>2 DEF Join
    <3> HIDE DEF bands, stars
    <3>4. StarsWhole(stars)
      <4>1. 2 \in 0..(MaxStar + 1) /\ 2 - 1 = 1
        BY <1>0
      <4> QED
        BY <1>0, <3>3, <4>1 DEF StarsWhole, StarRow
    <3>5. /\ DOMAIN new = {"rules", "bands", "soul", "stars"} /\ new.rules = t.rules
          /\ new.bands = bands /\ new.soul = 1 /\ new.stars = stars
      BY <1>t
    <3> HIDE DEF new
    <3>6. GoodEnhancement(new)
      BY <1>0, <1>t, <3>2, <3>4, <3>5 DEF GoodEnhancement, SoulCostRow
    <3> QED
      BY <3>1, <3>6 DEF EndsEnhancement, Wrote
  <2> QED
    BY <2>1, <2>2
<1> QED
  BY <1>1, <1>2, <1>3, <1>4, <1>5, <1>6, <1>7, <1>8, <1>9 DEF EnhancementEnds

LEMMA EnhancementStep ==
  ASSUME GoodEnhancement(enhancement), NEW r, Q(r) \in EnhancementAsked(enhancement), Seen(r) = enhancement,
         \/ SetEnhancementRules(r) \/ SetPotentialResetCost(r) \/ AddPotentialResetBand(r)
         \/ RemovePotentialResetBand(r) \/ SetSoulPotentialResetCost(r) \/ SetStarforceStep(r)
         \/ AddStarforceStep(r) \/ RemoveLastStarforceStep(r) \/ SeedEnhancementCosts(r)
  PROVE  /\ GoodEnhancement(enhancement') /\ answer'.status \in Told
<1>0. EnhancementEnds(enhancement, Q(r))
  BY EnhancementOutcomes
<1>1. CASE SetEnhancementRules(r)
  BY <1>0, <1>1, CloseTells, CodesTold
     DEF SetEnhancementRules, OnEnhancement, Asked, Q, EnhancementEnds, EndsEnhancement, Caught
<1>2. CASE SetPotentialResetCost(r)
  BY <1>0, <1>2, CloseTells, CodesTold
     DEF SetPotentialResetCost, OnEnhancement, Asked, Q, EnhancementEnds, EndsEnhancement, Caught
<1>3. CASE AddPotentialResetBand(r)
  BY <1>0, <1>3, CloseTells
     DEF AddPotentialResetBand, OnEnhancement, Asked, Q, EnhancementEnds, EndsEnhancement, Caught,
         Told
<1>4. CASE RemovePotentialResetBand(r)
  BY <1>0, <1>4, CloseTells
     DEF RemovePotentialResetBand, OnEnhancement, Asked, Q, EnhancementEnds, EndsEnhancement,
         Caught, Told
<1>5. CASE SetSoulPotentialResetCost(r)
  BY <1>0, <1>5, CloseTells, CodesTold
     DEF SetSoulPotentialResetCost, OnEnhancement, Asked, Q, EnhancementEnds, EndsEnhancement,
         Caught
<1>6. CASE SetStarforceStep(r)
  BY <1>0, <1>6, CloseTells, CodesTold
     DEF SetStarforceStep, OnEnhancement, Asked, Q, EnhancementEnds, EndsEnhancement, Caught
<1>7. CASE AddStarforceStep(r)
  BY <1>0, <1>7, CloseTells, CodesTold
     DEF AddStarforceStep, OnEnhancement, Asked, Q, EnhancementEnds, EndsEnhancement, Caught
<1>8. CASE RemoveLastStarforceStep(r)
  BY <1>0, <1>8, CloseTells, CodesTold
     DEF RemoveLastStarforceStep, OnEnhancement, Asked, Q, EnhancementEnds, EndsEnhancement, Caught
<1>9. CASE SeedEnhancementCosts(r)
  BY <1>0, <1>9, CloseTells, CodesTold
     DEF SeedEnhancementCosts, OnEnhancement, Asked, Q, EnhancementEnds, EndsEnhancement, Caught
<1> QED
  BY <1>1, <1>2, <1>3, <1>4, <1>5, <1>6, <1>7, <1>8, <1>9

\* Between the two transactions of a seeding its call goes on, of the table as it is.
LEMMA EnhancementGoesOn ==
  ASSUME GoodEnhancement(enhancement), NEW r, Q(r) \in EnhancementAsked(enhancement),
         Seen(r) = enhancement, SeedEnhancementRules(r)
  PROVE  GoodEnhancement(enhancement') /\ answer'.status \in Told
BY EnhancementOutcomes
   DEF SeedEnhancementRules, EnhancementEnds, EndsEnhancement, NoAnswer, Told

-----------------------------------------------------------------------------
(* Hexa matrix. *)

\* Of an API type one kind at most is the default.
OneDefault(kinds) == \A a, b \in DOMAIN kinds :
  kinds[a].default /\ kinds[b].default /\ kinds[a].api = kinds[b].api => a = b

\* A kind has costs of its levels from 0 on, without a gap.
KindsPriced(kinds, costs) ==
  /\ DOMAIN costs = DOMAIN kinds
  /\ \A k \in DOMAIN kinds : \E n \in 0..kinds[k].max : costs[k] = CostLevels(n)

NamesKnown(names, kinds) ==
  DOMAIN names \subseteq {1} /\ \A name \in DOMAIN names : names[name] \in DOMAIN kinds

GoodHexa(t) ==
  /\ DOMAIN t = {"kinds", "costs", "names", "cores", "stats"}
  /\ Ordered(t.kinds, FewKeys, KindRow) /\ OneDefault(t.kinds)
  /\ KindsPriced(t.kinds, t.costs) /\ NamesKnown(t.names, t.kinds)
  /\ OrderedBy(t.cores, Keys, CoreRow, "job") /\ Ordered(t.stats, {1}, StatRow)

\* Where cores are not written, there is none before there is a kind.
KindsFirst(t) == GoodHexa(t) /\ (DOMAIN t.kinds = {} => DOMAIN t.cores = {})

EndsHexa(out, errors)  == GoodHexa(out.now) /\ out.error \in errors
EndsKinds(out, errors) == KindsFirst(out.now) /\ out.error \in errors

\* Kinds and their costs change, and the rest stays.
LEMMA KindsPart ==
  ASSUME NEW t, KindsFirst(t), NEW kinds, NEW costs,
         Ordered(kinds, FewKeys, KindRow), OneDefault(kinds), KindsPriced(kinds, costs),
         DOMAIN t.kinds \subseteq DOMAIN kinds
  PROVE  EndsKinds(Wrote([t EXCEPT !.kinds = kinds, !.costs = costs]), {"none"})
<1> DEFINE new == [t EXCEPT !.kinds = kinds, !.costs = costs]
<1>1. /\ DOMAIN new = {"kinds", "costs", "names", "cores", "stats"} /\ new.kinds = kinds
      /\ new.costs = costs /\ new.names = t.names /\ new.cores = t.cores /\ new.stats = t.stats
  BY DEF KindsFirst, GoodHexa
<1>2. NamesKnown(t.names, kinds)
  BY DEF KindsFirst, GoodHexa, NamesKnown
<1> HIDE DEF new
<1>3. KindsFirst(new)
  BY <1>1, <1>2 DEF KindsFirst, GoodHexa
<1>4. EndsKinds(Wrote(new), {"none"})
  BY <1>3 DEF EndsKinds, Wrote
<1> QED
  BY <1>4 DEF new

LEMMA HexaPart ==
  ASSUME NEW t, GoodHexa(t), NEW out, IsOut(out), NEW errors, out.error \in errors
  PROVE  /\ NamesKnown(out.now, t.kinds) => EndsHexa(In(t, "names", out), errors)
         /\ OrderedBy(out.now, Keys, CoreRow, "job") => EndsHexa(In(t, "cores", out), errors)
         /\ Ordered(out.now, {1}, StatRow) => EndsHexa(In(t, "stats", out), errors)
<1>1. \A part : In(t, part, out).now = [t EXCEPT ![part] = out.now]
                /\ In(t, part, out).error = out.error
  BY DEF In, IsOut
<1>2. NamesKnown(out.now, t.kinds) => GoodHexa([t EXCEPT !["names"] = out.now])
  BY DEF GoodHexa
<1>3. OrderedBy(out.now, Keys, CoreRow, "job") => GoodHexa([t EXCEPT !["cores"] = out.now])
  BY DEF GoodHexa
<1>4. Ordered(out.now, {1}, StatRow) => GoodHexa([t EXCEPT !["stats"] = out.now])
  BY DEF GoodHexa
<1> QED
  BY <1>1, <1>2, <1>3, <1>4 DEF EndsHexa

KindsEnds(t, q) ==
  /\ q.op = "createHexaKind" =>
       EndsKinds(kindCreate(t, t, q), {"none", "HexaKindExists", "DefaultKindTaken"})
  /\ q.op = "updateHexaKind" =>
       EndsKinds(kindUpdate(t, t, q), {"none", "unknown", "DefaultKindTaken", "LevelsAboveMax"})
  /\ EndsKinds(costsReplace(t, t, q), {"none", "unknown", "CostLevelsMismatch"})
  /\ EndsKinds(hexaSeed(t, t), {"none", "unique"})

LEMMA KindsOutcomes ==
  ASSUME NEW t, KindsFirst(t), NEW q \in KindRequests
  PROVE  KindsEnds(t, q)
<1>0. /\ Placed(KindRow) /\ FewKeys \in SUBSET Keys /\ {1, 2} \subseteq Texts
      /\ 1 \in FewKeys /\ 1 \in Keys /\ None \notin FewKeys
  BY RowsPlaced, SeedOrdered, CatalogueAssumption
<1>t. /\ Ordered(t.kinds, FewKeys, KindRow) /\ OneDefault(t.kinds)
      /\ KindsPriced(t.kinds, t.costs) /\ NamesKnown(t.names, t.kinds)
      /\ OrderedBy(t.cores, Keys, CoreRow, "job") /\ Ordered(t.stats, {1}, StatRow)
      /\ DOMAIN t = {"kinds", "costs", "names", "cores", "stats"}
      /\ DOMAIN t.kinds = {} => DOMAIN t.cores = {}
  BY DEF GoodHexa, KindsFirst
<1>k. \A e : EndsKinds(Kept(t), {"none"}) /\ EndsKinds(Failed(t, e), {e})
             /\ EndsKinds(Unknown(t), {"unknown"})
  BY DEF EndsKinds, Kept, Failed, Unknown
<1>m. \A k \in DOMAIN t.kinds : t.kinds[k] \in KindRow /\ t.kinds[k].max \in 1..2
  BY <1>t DEF Ordered, IsTable, KindRow, MaxLevels
<1>1. ASSUME q.op = "createHexaKind"
      PROVE  EndsKinds(kindCreate(t, t, q), {"none", "HexaKindExists", "DefaultKindTaken"})
  <2> DEFINE row == [api |-> q.api, default |-> q.default, max |-> q.max,
                     order |-> NextOrder(t.kinds, DOMAIN t.kinds)]
             kinds == Join(t.kinds, One(q.key, row))
             costs == Join(t.costs, One(q.key, {}))
  <2>1. q.key \in FewKeys /\ q.api \in Apis /\ q.default \in BOOLEAN /\ q.max \in MaxLevels
    BY <1>1 DEF KindRequests
  <2>2. /\ row \in KindRow /\ row.order = NextOrder(t.kinds, DOMAIN t.kinds)
        /\ row.default = q.default /\ row.api = q.api /\ row.max \in 1..2
    BY <1>0, <1>t, <2>1, OrderedTables, NextOrderBehind DEF Ordered, HasOrders, KindRow, MaxLevels
  <2>3. \/ kindCreate(t, t, q) \in {Failed(t, "HexaKindExists"), Failed(t, "DefaultKindTaken")}
        \/ /\ q.key \notin DOMAIN t.kinds /\ ~(q.default /\ OtherDefault(t, None, q.api))
           /\ kindCreate(t, t, q) = Wrote([t EXCEPT !.kinds = kinds, !.costs = costs])
    BY DEF kindCreate
  <2> HIDE DEF row
  <2>4. CASE kindCreate(t, t, q) \in {Failed(t, "HexaKindExists"), Failed(t, "DefaultKindTaken")}
    BY <1>k, <2>4 DEF EndsKinds
  <2>5. CASE /\ q.key \notin DOMAIN t.kinds /\ ~(q.default /\ OtherDefault(t, None, q.api))
             /\ kindCreate(t, t, q) = Wrote([t EXCEPT !.kinds = kinds, !.costs = costs])
    <3>1. Ends(Inserted(t.kinds, One(q.key, row), "HexaKindExists"), FewKeys, KindRow,
               {"none", "HexaKindExists"})
      BY <1>0, <1>t, <2>1, <2>2, InsertedOrdered
    <3>2. Inserted(t.kinds, One(q.key, row), "HexaKindExists").now = kinds
      BY <2>5 DEF Inserted, Wrote, One
    <3>3. /\ DOMAIN kinds = DOMAIN t.kinds \cup {q.key} /\ kinds[q.key] = row
          /\ \A k \in DOMAIN t.kinds : kinds[k] = t.kinds[k]
          /\ DOMAIN costs = DOMAIN t.kinds \cup {q.key} /\ costs[q.key] = {}
          /\ \A k \in DOMAIN t.kinds : costs[k] = t.costs[k]
      BY <1>t, <2>5 DEF Join, One, KindsPriced
    <3> HIDE DEF kinds, costs
    <3>4. Ordered(kinds, FewKeys, KindRow)
      BY <3>1, <3>2 DEF Ends
    <3>5. OneDefault(kinds)
      <4>1. q.default => \A k \in DOMAIN t.kinds : ~(t.kinds[k].default /\ t.kinds[k].api = q.api)
        BY <1>0, <1>t, <2>5 DEF OtherDefault, Ordered, IsTable
      <4> QED
        BY <1>t, <2>2, <3>3, <4>1 DEF OneDefault
    <3>6. KindsPriced(kinds, costs)
      <4>1. CostLevels(0) = {} /\ 0 \in 0..row.max
        BY <2>2 DEF CostLevels
      <4> QED
        BY <1>t, <3>3, <4>1 DEF KindsPriced
    <3>7. EndsKinds(Wrote([t EXCEPT !.kinds = kinds, !.costs = costs]), {"none"})
      BY <3>3, <3>4, <3>5, <3>6, KindsPart
    <3> QED
      BY <2>5, <3>7 DEF EndsKinds
  <2> QED
    BY <2>3, <2>4, <2>5
<1>2. ASSUME q.op = "updateHexaKind"
      PROVE  EndsKinds(kindUpdate(t, t, q), {"none", "unknown", "DefaultKindTaken", "LevelsAboveMax"})
  <2> DEFINE row == [t.kinds[q.key] EXCEPT !.api = q.api, !.default = q.default, !.max = q.max]
             kinds == [t.kinds EXCEPT ![q.key] = row]
             above == \E level \in t.costs[q.key] : level >= q.max
  <2>1. q.api \in Apis /\ q.default \in BOOLEAN /\ q.max \in MaxLevels
    BY <1>2 DEF KindRequests
  <2>2. CASE \/ q.key \notin DOMAIN t.kinds \/ (q.default /\ OtherDefault(t, q.key, q.api))
             \/ above
    BY <1>k, <2>2 DEF kindUpdate, EndsKinds
  <2>3. CASE ~ \/ q.key \notin DOMAIN t.kinds \/ (q.default /\ OtherDefault(t, q.key, q.api))
               \/ above
    <3>1. kindUpdate(t, t, q) = Wrote([t EXCEPT !.kinds = kinds, !.costs = t.costs])
      <4>1. kindUpdate(t, t, q) =
              Wrote([t EXCEPT !.kinds[q.key].api = q.api, !.kinds[q.key].default = q.default,
                              !.kinds[q.key].max = q.max])
        BY <2>3 DEF kindUpdate
      <4>2. [t EXCEPT !.kinds[q.key].api = q.api, !.kinds[q.key].default = q.default,
                      !.kinds[q.key].max = q.max]
              = [t EXCEPT !.kinds = kinds, !.costs = t.costs]
        BY <1>t, <2>3
      <4> QED
        BY <4>1, <4>2
    <3>2. /\ row \in KindRow /\ row.order = t.kinds[q.key].order
          /\ row.default = q.default /\ row.api = q.api /\ row.max = q.max /\ q.max \in 1..2
      <4> DEFINE kind == t.kinds[q.key]
      <4>1. kind \in KindRow
        BY <1>m, <2>3
      <4>2. row = [kind EXCEPT !.api = q.api, !.default = q.default, !.max = q.max]
        OBVIOUS
      <4> HIDE DEF row, kind
      <4>3. row = [api |-> q.api, default |-> q.default, max |-> q.max, order |-> kind.order]
        BY <4>1, <4>2 DEF KindRow
      <4>4. row \in KindRow
        BY <2>1, <4>1, <4>3 DEF KindRow
      <4>5. q.max \in 1..2
        BY <2>1 DEF MaxLevels
      <4> QED
        BY <4>3, <4>4, <4>5 DEF kind
    <3> HIDE DEF row
    <3>3. Ordered(kinds, FewKeys, KindRow)
      BY <1>t, <2>3, <3>2, ReplacedOrdered
    <3>4. /\ DOMAIN kinds = DOMAIN t.kinds /\ kinds[q.key] = row
          /\ \A k \in DOMAIN t.kinds \ {q.key} : kinds[k] = t.kinds[k]
      BY <2>3
    <3> HIDE DEF kinds
    <3>5. OneDefault(kinds)
      BY <1>t, <2>3, <3>2, <3>4 DEF OneDefault, OtherDefault
    <3>6. KindsPriced(kinds, t.costs)
      <4>1. ASSUME NEW k \in DOMAIN kinds
            PROVE  \E n \in 0..kinds[k].max : t.costs[k] = CostLevels(n)
        <5>1. CASE k # q.key
          BY <1>t, <3>4, <5>1 DEF KindsPriced
        <5>2. CASE k = q.key
          <6>1. PICK n \in 0..t.kinds[k].max : t.costs[k] = CostLevels(n)
            BY <1>t, <3>4 DEF KindsPriced
          <6>2. n \in Nat /\ t.costs[k] = 0..(n - 1)
            BY <1>m, <3>4, <6>1 DEF CostLevels
          <6>3. ~(q.max \in 0..(n - 1))
            BY <2>3, <3>2, <5>2, <6>2
          <6>4. n \in 0..q.max
            BY <3>2, <6>2, <6>3
          <6> QED
            BY <3>2, <3>4, <5>2, <6>1, <6>4
        <5> QED
          BY <5>1, <5>2
      <4> QED
        BY <1>t, <3>4, <4>1 DEF KindsPriced
    <3>7. EndsKinds(Wrote([t EXCEPT !.kinds = kinds, !.costs = t.costs]), {"none"})
      BY <3>3, <3>4, <3>5, <3>6, KindsPart
    <3> QED
      BY <3>1, <3>7 DEF EndsKinds
  <2> QED
    BY <2>2, <2>3
<1>3. EndsKinds(costsReplace(t, t, q), {"none", "unknown", "CostLevelsMismatch"})
  <2> DEFINE costs == [t.costs EXCEPT ![q.key] = q.levels]
  <2>1. \/ costsReplace(t, t, q) \in {Unknown(t), Failed(t, "CostLevelsMismatch")}
        \/ /\ q.key \in DOMAIN t.kinds /\ q.levels = CostLevels(t.kinds[q.key].max)
           /\ costsReplace(t, t, q) = Wrote([t EXCEPT !.costs[q.key] = q.levels])
    BY DEF costsReplace
  <2>2. CASE costsReplace(t, t, q) \in {Unknown(t), Failed(t, "CostLevelsMismatch")}
    BY <1>k, <2>2 DEF EndsKinds
  <2>3. CASE /\ q.key \in DOMAIN t.kinds /\ q.levels = CostLevels(t.kinds[q.key].max)
             /\ costsReplace(t, t, q) = Wrote([t EXCEPT !.costs[q.key] = q.levels])
    <3>1. [t EXCEPT !.costs[q.key] = q.levels] = [t EXCEPT !.kinds = t.kinds, !.costs = costs]
      BY <1>t
    <3>2. /\ DOMAIN costs = DOMAIN t.kinds /\ costs[q.key] = CostLevels(t.kinds[q.key].max)
          /\ \A k \in DOMAIN t.kinds \ {q.key} : costs[k] = t.costs[k]
      BY <1>t, <2>3 DEF KindsPriced
    <3> HIDE DEF costs
    <3>3. t.kinds[q.key].max \in 0..t.kinds[q.key].max
      BY <1>m, <2>3
    <3>4. KindsPriced(t.kinds, costs)
      BY <1>t, <3>2, <3>3 DEF KindsPriced
    <3>5. EndsKinds(Wrote([t EXCEPT !.kinds = t.kinds, !.costs = costs]), {"none"})
      BY <1>t, <3>4, KindsPart
    <3> QED
      BY <2>3, <3>1, <3>5 DEF EndsKinds
  <2> QED
    BY <2>1, <2>2, <2>3
<1>4. EndsKinds(hexaSeed(t, t), {"none", "unique"})
  <2>1. \/ hexaSeed(t, t) \in {Kept(t), Failed(t, "unique")}
        \/ /\ DOMAIN t.kinds = {} /\ 1 \notin DOMAIN t.stats
           /\ hexaSeed(t, t) = Wrote(HexaReady(t))
    BY DEF hexaSeed
  <2>2. CASE hexaSeed(t, t) \in {Kept(t), Failed(t, "unique")}
    BY <1>k, <2>2 DEF EndsKinds
  <2>3. CASE /\ DOMAIN t.kinds = {} /\ 1 \notin DOMAIN t.stats
             /\ hexaSeed(t, t) = Wrote(HexaReady(t))
    <3>1. GoodHexa(HexaReady(t)) /\ DOMAIN HexaReady(t).kinds = {1}
      <4> DEFINE id == CHOOSE i \in Keys : i \notin DOMAIN t.cores
                 kind == [api |-> 1, default |-> TRUE, max |-> 2, order |-> 0]
                 core == [job |-> 1, name |-> 1, text |-> 1, order |-> 0]
                 stat == [text |-> 1, order |-> 0]
                 new == HexaReady(t)
      <4>1. DOMAIN t.cores = {} /\ DOMAIN t.names = {} /\ DOMAIN t.stats = {}
        BY <1>t, <2>3 DEF NamesKnown, Ordered, IsTable
      <4>2. id \in Keys
        BY <1>0, <4>1
      <4>3. kind \in KindRow /\ core \in CoreRow /\ stat \in StatRow
        BY <1>0 DEF KindRow, CoreRow, StatRow, Apis, MaxLevels
      <4>4. kind.max = 2
        OBVIOUS
      <4>5. /\ new.kinds = One(1, kind) /\ new.costs = One(1, CostLevels(2))
            /\ new.names = Join(t.names, One(1, 1)) /\ new.cores = Join(t.cores, One(id, core))
            /\ new.stats = Join(t.stats, One(1, stat))
            /\ DOMAIN new = {"kinds", "costs", "names", "cores", "stats"}
        BY DEF HexaReady
      <4> HIDE DEF id, kind, core, stat, new
      <4>6. /\ DOMAIN new.kinds = {1} /\ new.kinds[1] = kind
            /\ DOMAIN new.costs = {1} /\ new.costs[1] = CostLevels(2)
            /\ DOMAIN new.names = {1} /\ new.names[1] = 1
            /\ DOMAIN new.cores = {id} /\ new.cores[id] = core
            /\ DOMAIN new.stats = {1} /\ new.stats[1] = stat
        BY <4>1, <4>5 DEF Join, One
      <4>7. /\ Ordered(new.kinds, FewKeys, KindRow) /\ OneDefault(new.kinds)
            /\ Ordered(new.stats, {1}, StatRow)
        BY <1>0, <4>3, <4>6 DEF Ordered, IsTable, OrdersDiffer, OneDefault
      <4>8. OrderedBy(new.cores, Keys, CoreRow, "job")
        BY <4>2, <4>3, <4>6 DEF OrderedBy, IsTable
      <4>9. KindsPriced(new.kinds, new.costs) /\ NamesKnown(new.names, new.kinds)
        BY <4>4, <4>6 DEF KindsPriced, NamesKnown
      <4> QED
        BY <4>5, <4>6, <4>7, <4>8, <4>9 DEF GoodHexa, new
    <3> QED
      BY <2>3, <3>1 DEF EndsKinds, KindsFirst, Wrote
  <2> QED
    BY <2>1, <2>2, <2>3
<1> QED
  BY <1>1, <1>2, <1>3, <1>4 DEF KindsEnds

LEMMA KindsStep ==
  ASSUME KindsFirst(hexa), NEW r, Q(r) \in KindRequests, Seen(r) = hexa,
         \/ CreateHexaKind(r) \/ UpdateHexaKind(r) \/ ReplaceHexaCosts(r) \/ SeedHexaMatrix(r)
  PROVE  /\ KindsFirst(hexa') /\ answer'.status \in Told
<1>0. KindsEnds(hexa, Q(r))
  BY KindsOutcomes
<1>1. CASE CreateHexaKind(r)
  BY <1>0, <1>1, CloseTells
     DEF CreateHexaKind, OnHexa, Asked, Q, KindsEnds, EndsKinds, Caught, Told
<1>2. CASE UpdateHexaKind(r)
  BY <1>0, <1>2, CloseTells
     DEF UpdateHexaKind, OnHexa, Asked, Q, KindsEnds, EndsKinds, Caught, Told
<1>3. CASE ReplaceHexaCosts(r)
  BY <1>0, <1>3, CloseTells
     DEF ReplaceHexaCosts, OnHexa, Asked, Q, KindsEnds, EndsKinds, Caught, Told
<1>4. CASE SeedHexaMatrix(r)
  BY <1>0, <1>4, CloseTells, CodesTold
     DEF SeedHexaMatrix, OnHexa, Asked, Q, KindsEnds, EndsKinds, Caught
<1> QED
  BY <1>1, <1>2, <1>3, <1>4

CoresEnds(t, q) ==
  /\ q.op = "addHexaNameKind" =>
       EndsHexa(nameAdd(t, t, q), {"none", "NoHexaKind", "NameKindExists"})
  /\ EndsHexa(nameRemove(t, q), {"none", "unknown"})
  /\ q.op = "createHexaJobCore" => \A id \in Fresh(FewKeys, t.cores) :
       EndsHexa(coreCreate(t, t, q, id), {"none", "JobCoreExists"})
  /\ q.op = "updateHexaJobCore" =>
       EndsHexa(coreUpdate(t, q), {"none", "unknown", "JobCoreExists"})
  /\ EndsHexa(coreRemove(t, q), {"none", "unknown"})
  /\ EndsHexa(coreMove(t, t, q), {"none", "unknown"})
  /\ q.op = "createHexaStat" => EndsHexa(statCreate(t, t, q), {"none", "HexaStatExists"})
  /\ q.op = "updateHexaStat" => EndsHexa(statUpdate(t, q), {"none", "unknown"})

LEMMA CoresOutcomes ==
  ASSUME NEW t, GoodHexa(t), NEW q \in CoreRequests
  PROVE  CoresEnds(t, q)
<1>0. /\ Placed(CoreRow) /\ Placed(StatRow) /\ Keys \in SUBSET Keys /\ {1} \in SUBSET Keys
      /\ FewKeys \subseteq Keys
      /\ {1, 2} \subseteq Texts /\ \A row \in CoreRow : "job" \in DOMAIN row
  BY RowsPlaced, SeedOrdered, CatalogueAssumption DEF CoreRow
<1>t. /\ NamesKnown(t.names, t.kinds) /\ DOMAIN t = {"kinds", "costs", "names", "cores", "stats"}
      /\ OrderedBy(t.cores, Keys, CoreRow, "job") /\ Ordered(t.stats, {1}, StatRow)
  BY DEF GoodHexa
<1>k. \A e : EndsHexa(Kept(t), {"none"}) /\ EndsHexa(Failed(t, e), {e})
             /\ EndsHexa(Unknown(t), {"unknown"})
  BY DEF EndsHexa, Kept, Failed, Unknown
<1>1. ASSUME q.op = "addHexaNameKind"
      PROVE  EndsHexa(nameAdd(t, t, q), {"none", "NoHexaKind", "NameKindExists"})
  <2> DEFINE out == Inserted(t.names, One(q.name, q.kind), "NameKindExists")
  <2>1. q.name = 1
    BY <1>1 DEF CoreRequests
  <2>2. \/ nameAdd(t, t, q) = Failed(t, "NoHexaKind")
        \/ q.kind \in DOMAIN t.kinds /\ nameAdd(t, t, q) = In(t, "names", out)
    BY DEF nameAdd
  <2>3. IsOut(out) /\ out.error \in {"none", "NameKindExists"}
    BY OutsAreOuts DEF Inserted, Wrote, Failed
  <2>4. q.kind \in DOMAIN t.kinds => NamesKnown(out.now, t.kinds)
    BY <1>t, <2>1 DEF NamesKnown, Inserted, Wrote, Failed, Join, One
  <2> HIDE DEF out
  <2>5. q.kind \in DOMAIN t.kinds => EndsHexa(In(t, "names", out), {"none", "NameKindExists"})
    BY <2>3, <2>4, HexaPart
  <2> QED
    BY <1>k, <2>2, <2>5 DEF EndsHexa
<1>2. EndsHexa(nameRemove(t, q), {"none", "unknown"})
  <2> DEFINE new == [t EXCEPT !.names = Without(t.names, {q.name})]
  <2>1. nameRemove(t, q) = Unknown(t) \/ nameRemove(t, q) = Wrote(new)
    BY DEF nameRemove
  <2>2. NamesKnown(Without(t.names, {q.name}), t.kinds)
    BY <1>t DEF NamesKnown, Without
  <2>3. GoodHexa(new)
    BY <2>2 DEF GoodHexa
  <2> QED
    BY <1>k, <2>1, <2>3 DEF EndsHexa, Wrote
<1>3. ASSUME q.op = "createHexaJobCore", NEW id \in Fresh(FewKeys, t.cores)
      PROVE  EndsHexa(coreCreate(t, t, q, id), {"none", "JobCoreExists"})
  <2> DEFINE row == [job |-> q.job, name |-> q.name, text |-> q.text,
                     order |-> NextOrder(t.cores, CoresOf(t, q.job))]
             out == Inserted(t.cores, One(id, row), "unique")
  <2>1. q.job \in {1, 2} /\ q.name \in {1, 2} /\ q.text \in Texts
    BY <1>0, <1>3 DEF CoreRequests
  <2>2. id \in Keys /\ id \notin DOMAIN t.cores
    BY <1>0 DEF Fresh
  <2>3. CoresOf(t, q.job) = Siblings(t.cores, "job", q.job)
    BY DEF CoresOf, Siblings
  <2>4. NextOrder(t.cores, CoresOf(t, q.job)) \in Nat
    BY <1>0, <1>t, <2>3, SiblingsPlaced
  <2>5. /\ row \in CoreRow
        /\ row.order = NextOrder(t.cores, Siblings(t.cores, "job", row["job"]))
    BY <2>1, <2>3, <2>4 DEF CoreRow
  <2>6. coreCreate(t, t, q, id) = Failed(t, "JobCoreExists")
        \/ coreCreate(t, t, q, id) = In(t, "cores", out)
    BY DEF coreCreate
  <2> HIDE DEF row
  <2>7. EndsBy(out, Keys, CoreRow, "job", {"none", "unique"})
    BY <1>0, <1>t, <2>2, <2>5, InsertedOrderedBy
  <2>8. out.error = "none"
    BY <2>2, InsertedBeside
  <2> HIDE DEF out
  <2>9. EndsHexa(In(t, "cores", out), {"none", "JobCoreExists"})
    BY <2>7, <2>8, HexaPart DEF EndsBy
  <2> QED
    BY <1>k, <2>6, <2>9 DEF EndsHexa
<1>4. ASSUME q.op = "updateHexaJobCore"
      PROVE  EndsHexa(coreUpdate(t, q), {"none", "unknown", "JobCoreExists"})
  <2> DEFINE row == [t.cores[q.id] EXCEPT !.name = q.name, !.text = q.text]
             out == IF q.id \in DOMAIN t.cores THEN Wrote([t.cores EXCEPT ![q.id] = row])
                    ELSE Unknown(t.cores)
  <2>1. q.name \in {1, 2} /\ q.text \in Texts
    BY <1>0, <1>4 DEF CoreRequests
  <2>2. q.id \in DOMAIN t.cores =>
          /\ row \in CoreRow /\ row.order = t.cores[q.id].order
          /\ row["job"] = t.cores[q.id]["job"]
    BY <1>t, <2>1 DEF CoreRow, OrderedBy, IsTable
  <2>3. coreUpdate(t, q) = Failed(t, "JobCoreExists") \/ coreUpdate(t, q) = In(t, "cores", out)
    BY DEF coreUpdate, Updated
  <2> HIDE DEF row
  <2>4. EndsBy(out, Keys, CoreRow, "job", {"none", "unknown"})
    BY <1>t, <2>2, UpdatedOrderedBy
  <2> HIDE DEF out
  <2>5. EndsHexa(In(t, "cores", out), {"none", "unknown", "JobCoreExists"})
    BY <2>4, HexaPart DEF EndsBy
  <2> QED
    BY <1>k, <2>3, <2>5 DEF EndsHexa
<1>5. EndsHexa(coreRemove(t, q), {"none", "unknown"})
  <2> DEFINE new == [t EXCEPT !.cores = Without(t.cores, {q.id})]
  <2>1. coreRemove(t, q) = Unknown(t) \/ coreRemove(t, q) = Wrote(new)
    BY DEF coreRemove
  <2>2. OrderedBy(Without(t.cores, {q.id}), Keys, CoreRow, "job")
    BY <1>t, WithoutOrderedBy
  <2>3. GoodHexa(new)
    BY <2>2 DEF GoodHexa
  <2> HIDE DEF new
  <2>4. EndsHexa(Wrote(new), {"none"})
    BY <2>3 DEF EndsHexa, Wrote
  <2> QED
    BY <1>k, <2>1, <2>4 DEF EndsHexa
<1>6. EndsHexa(coreMove(t, t, q), {"none", "unknown"})
  <2> DEFINE kin == CoresOf(t, t.cores[q.id].job)
             out == Moved(t.cores, t.cores, kin, q.id, q.dir)
  <2>1. kin = Siblings(t.cores, "job", t.cores[q.id].job)
    BY DEF CoresOf, Siblings
  <2>2. EndsBy(out, Keys, CoreRow, "job", {"none", "unknown"})
    BY <1>0, <1>t, <2>1, MovedOrderedBy
  <2>3. coreMove(t, t, q) = Unknown(t) \/ coreMove(t, t, q) = In(t, "cores", out)
    BY DEF coreMove
  <2> HIDE DEF out
  <2>4. EndsHexa(In(t, "cores", out), {"none", "unknown"})
    BY <2>2, HexaPart DEF EndsBy
  <2> QED
    BY <1>k, <2>3, <2>4 DEF EndsHexa
<1>7. ASSUME q.op = "createHexaStat"
      PROVE  EndsHexa(statCreate(t, t, q), {"none", "HexaStatExists"})
  <2> DEFINE row == [text |-> q.text, order |-> NextOrder(t.stats, DOMAIN t.stats)]
             out == Inserted(t.stats, One(q.key, row), "HexaStatExists")
  <2>1. q.key \in {1} /\ q.text \in Texts
    BY <1>0, <1>7 DEF CoreRequests
  <2>2. row \in StatRow /\ row.order = NextOrder(t.stats, DOMAIN t.stats)
    BY <1>0, <1>t, <2>1, OrderedTables, NextOrderBehind DEF Ordered, HasOrders, StatRow
  <2>3. statCreate(t, t, q) = In(t, "stats", out)
    BY DEF statCreate
  <2> HIDE DEF row
  <2>4. Ends(out, {1}, StatRow, {"none", "HexaStatExists"})
    BY <1>0, <1>t, <2>1, <2>2, InsertedOrdered
  <2> HIDE DEF out
  <2> QED
    BY <2>3, <2>4, HexaPart DEF Ends
<1>8. ASSUME q.op = "updateHexaStat"
      PROVE  EndsHexa(statUpdate(t, q), {"none", "unknown"})
  <2> DEFINE row == [t.stats[q.key] EXCEPT !.text = q.text]
             out == IF q.key \in DOMAIN t.stats THEN Wrote([t.stats EXCEPT ![q.key] = row])
                    ELSE Unknown(t.stats)
  <2>1. q.text \in Texts
    BY <1>0, <1>8 DEF CoreRequests
  <2>2. q.key \in DOMAIN t.stats => row \in StatRow /\ row.order = t.stats[q.key].order
    BY <1>t, <2>1 DEF StatRow, Ordered, IsTable
  <2>3. statUpdate(t, q) = In(t, "stats", out)
    BY DEF statUpdate, Updated
  <2> HIDE DEF row
  <2>4. Ends(out, {1}, StatRow, {"none", "unknown"})
    BY <1>t, <2>2, UpdatedOrdered
  <2> HIDE DEF out
  <2> QED
    BY <2>3, <2>4, HexaPart DEF Ends
<1> QED
  BY <1>1, <1>2, <1>3, <1>4, <1>5, <1>6, <1>7, <1>8 DEF CoresEnds

LEMMA CoresStep ==
  ASSUME GoodHexa(hexa), NEW r, Q(r) \in CoreRequests, Seen(r) = hexa,
         \/ AddHexaNameKind(r) \/ RemoveHexaNameKind(r) \/ CreateHexaJobCore(r)
         \/ UpdateHexaJobCore(r) \/ RemoveHexaJobCore(r) \/ MoveHexaJobCore(r)
         \/ CreateHexaStat(r) \/ UpdateHexaStat(r)
  PROVE  /\ GoodHexa(hexa') /\ answer'.status \in Told
<1>0. CoresEnds(hexa, Q(r))
  BY CoresOutcomes
<1>1. CASE AddHexaNameKind(r)
  BY <1>0, <1>1, CloseTells
     DEF AddHexaNameKind, OnHexa, Asked, Q, CoresEnds, EndsHexa, Caught, Told
<1>2. CASE RemoveHexaNameKind(r)
  BY <1>0, <1>2, CloseTells, CodesTold
     DEF RemoveHexaNameKind, OnHexa, Asked, Q, CoresEnds, EndsHexa, Caught
<1>3. CASE CreateHexaJobCore(r)
  BY <1>0, <1>3, CloseTells
     DEF CreateHexaJobCore, OnHexa, Asked, Q, Pictured, Failed, CoresEnds, EndsHexa, Caught, Told
<1>4. CASE UpdateHexaJobCore(r)
  BY <1>0, <1>4, CloseTells
     DEF UpdateHexaJobCore, OnHexa, Asked, Q, Pictured, Failed, CoresEnds, EndsHexa, Caught, Told
<1>5. CASE RemoveHexaJobCore(r)
  BY <1>0, <1>5, CloseTells, CodesTold
     DEF RemoveHexaJobCore, OnHexa, Asked, Q, CoresEnds, EndsHexa, Caught
<1>6. CASE MoveHexaJobCore(r)
  BY <1>0, <1>6, CloseTells, CodesTold
     DEF MoveHexaJobCore, OnHexa, Asked, Q, CoresEnds, EndsHexa, Caught
<1>7. CASE CreateHexaStat(r)
  BY <1>0, <1>7, CloseTells
     DEF CreateHexaStat, OnHexa, Asked, Q, CoresEnds, EndsHexa, Caught, Told
<1>8. CASE UpdateHexaStat(r)
  BY <1>0, <1>8, CloseTells, CodesTold
     DEF UpdateHexaStat, OnHexa, Asked, Q, CoresEnds, EndsHexa, Caught
<1> QED
  BY <1>1, <1>2, <1>3, <1>4, <1>5, <1>6, <1>7, <1>8

-----------------------------------------------------------------------------
(* The catalogue of spending. *)

\* Items refer to what is there, and the sheet of a tile tells its items apart.
ItemsFit(rows, groups, tiles, forms) ==
  /\ \A k \in DOMAIN rows : /\ rows[k].group \in DOMAIN groups /\ rows[k].tile \in DOMAIN tiles
                            /\ rows[k].forms \subseteq DOMAIN forms
  /\ \A a, b \in DOMAIN rows : a # b /\ rows[a].tile = rows[b].tile =>
       ToldApart(rows[a], rows[a].group, rows[b])

\* The categories are those of spending in the cashbook.
GoodSpend(t, categories) ==
  /\ DOMAIN t = {"rules", "forms", "groups", "tiles", "items"} /\ t.rules \in {None} \cup Texts
  /\ IsTable(t.forms, {1}, SpendFormRow) /\ IsTable(t.tiles, FewKeys, SpendTileRow)
  /\ Ordered(t.groups, FewKeys, SpendGroupRow)
  /\ \A k \in DOMAIN t.groups : t.groups[k].category \in categories
  /\ OrderedBy(t.items, FewKeys, SpendItemRow, "group")
  /\ ItemsFit(t.items, t.groups, t.tiles, t.forms)

EndsSpend(out, errors) == GoodSpend(out.now, SpendCategories) /\ out.error \in errors

\* What a call may have asked of the catalogue, and what a seeding does next.
SpendAsked == SpendRequests \cup SpendItemRequests \cup {[op |-> "seedSpendRows"]}

\* One of the tables changes, and what items refer to stays.
LEMMA SpendPart ==
  ASSUME NEW t, GoodSpend(t, SpendCategories), NEW out, IsOut(out), NEW errors, out.error \in errors
  PROVE  /\ IsTable(out.now, {1}, SpendFormRow) /\ DOMAIN t.forms \subseteq DOMAIN out.now
              => EndsSpend(In(t, "forms", out), errors)
         /\ IsTable(out.now, FewKeys, SpendTileRow) /\ DOMAIN t.tiles \subseteq DOMAIN out.now
              => EndsSpend(In(t, "tiles", out), errors)
         /\ Ordered(out.now, FewKeys, SpendGroupRow) /\ DOMAIN t.groups \subseteq DOMAIN out.now
              /\ (\A k \in DOMAIN out.now : out.now[k].category \in SpendCategories)
              => EndsSpend(In(t, "groups", out), errors)
         /\ OrderedBy(out.now, FewKeys, SpendItemRow, "group")
              /\ ItemsFit(out.now, t.groups, t.tiles, t.forms)
              => EndsSpend(In(t, "items", out), errors)
<1> DEFINE new(part) == In(t, part, out).now
<1>1. \A part : In(t, part, out).error = out.error /\ new(part) = [t EXCEPT ![part] = out.now]
  BY DEF In, IsOut
<1>t. /\ DOMAIN t = {"rules", "forms", "groups", "tiles", "items"} /\ t.rules \in {None} \cup Texts
      /\ IsTable(t.forms, {1}, SpendFormRow) /\ IsTable(t.tiles, FewKeys, SpendTileRow)
      /\ Ordered(t.groups, FewKeys, SpendGroupRow)
      /\ \A k \in DOMAIN t.groups : t.groups[k].category \in SpendCategories
      /\ OrderedBy(t.items, FewKeys, SpendItemRow, "group")
      /\ ItemsFit(t.items, t.groups, t.tiles, t.forms)
  BY DEF GoodSpend
<1>2. \A part \in DOMAIN t : /\ DOMAIN new(part) = DOMAIN t /\ new(part)[part] = out.now
                             /\ \A x \in DOMAIN t \ {part} : new(part)[x] = t[x]
  BY <1>1
<1> HIDE DEF new
<1>3. ASSUME IsTable(out.now, {1}, SpendFormRow), DOMAIN t.forms \subseteq DOMAIN out.now
      PROVE  GoodSpend(new("forms"), SpendCategories)
  <2>1. /\ DOMAIN new("forms") = DOMAIN t /\ new("forms").forms = out.now
        /\ new("forms").rules = t.rules /\ new("forms").tiles = t.tiles
        /\ new("forms").groups = t.groups /\ new("forms").items = t.items
    BY <1>2, <1>t
  <2>2. ItemsFit(t.items, t.groups, t.tiles, out.now)
    BY <1>3, <1>t DEF ItemsFit
  <2> QED
    BY <1>3, <1>t, <2>1, <2>2 DEF GoodSpend
<1>4. ASSUME IsTable(out.now, FewKeys, SpendTileRow), DOMAIN t.tiles \subseteq DOMAIN out.now
      PROVE  GoodSpend(new("tiles"), SpendCategories)
  <2>1. /\ DOMAIN new("tiles") = DOMAIN t /\ new("tiles").tiles = out.now
        /\ new("tiles").rules = t.rules /\ new("tiles").forms = t.forms
        /\ new("tiles").groups = t.groups /\ new("tiles").items = t.items
    BY <1>2, <1>t
  <2>2. ItemsFit(t.items, t.groups, out.now, t.forms)
    BY <1>4, <1>t DEF ItemsFit
  <2> QED
    BY <1>4, <1>t, <2>1, <2>2 DEF GoodSpend
<1>5. ASSUME Ordered(out.now, FewKeys, SpendGroupRow), DOMAIN t.groups \subseteq DOMAIN out.now,
             \A k \in DOMAIN out.now : out.now[k].category \in SpendCategories
      PROVE  GoodSpend(new("groups"), SpendCategories)
  <2>1. /\ DOMAIN new("groups") = DOMAIN t /\ new("groups").groups = out.now
        /\ new("groups").rules = t.rules /\ new("groups").forms = t.forms
        /\ new("groups").tiles = t.tiles /\ new("groups").items = t.items
    BY <1>2, <1>t
  <2>2. ItemsFit(t.items, out.now, t.tiles, t.forms)
    BY <1>5, <1>t DEF ItemsFit
  <2> QED
    BY <1>5, <1>t, <2>1, <2>2 DEF GoodSpend
<1>6. ASSUME OrderedBy(out.now, FewKeys, SpendItemRow, "group"),
             ItemsFit(out.now, t.groups, t.tiles, t.forms)
      PROVE  GoodSpend(new("items"), SpendCategories)
  <2>1. /\ DOMAIN new("items") = DOMAIN t /\ new("items").items = out.now
        /\ new("items").rules = t.rules /\ new("items").forms = t.forms
        /\ new("items").tiles = t.tiles /\ new("items").groups = t.groups
    BY <1>2, <1>t
  <2> QED
    BY <1>6, <1>t, <2>1 DEF GoodSpend
<1> QED
  BY <1>1, <1>3, <1>4, <1>5, <1>6 DEF EndsSpend, new

\* What checkShape allows fits among the items of the table.
LEMMA ItemFits ==
  ASSUME NEW t, GoodSpend(t, SpendCategories), NEW key, NEW group \in DOMAIN t.groups,
         NEW tile \in DOMAIN t.tiles, NEW x, NEW order \in Nat,
         x.tier \in {None, 1}, x.options \in SpendOptions, x.coins \in {None, 1},
         checkShape(t, key, group, tile, x), FormsKnown(t, x), NEW rows,
         DOMAIN rows = DOMAIN t.items \cup {key}, rows[key] = SpendItem(group, tile, x, order),
         \A k \in DOMAIN t.items \ {key} : rows[k] = t.items[k]
  PROVE  /\ ItemsFit(rows, t.groups, t.tiles, t.forms)
         /\ SpendItem(group, tile, x, order) \in SpendItemRow
<1> DEFINE row == SpendItem(group, tile, x, order)
<1>t. /\ IsTable(t.forms, {1}, SpendFormRow) /\ IsTable(t.tiles, FewKeys, SpendTileRow)
      /\ IsTable(t.groups, FewKeys, SpendGroupRow)
      /\ ItemsFit(t.items, t.groups, t.tiles, t.forms)
  BY DEF GoodSpend, Ordered
<1>1. /\ row.group = group /\ row.tile = tile /\ row.tier = x.tier /\ row.options = x.options
      /\ row.forms = x.forms
  BY DEF SpendItem
<1>2. x.forms \subseteq DOMAIN t.forms /\ x.forms \in SpendForms
  BY <1>t DEF FormsKnown, IsTable, SpendForms
<1>3. row \in SpendItemRow
  BY <1>2, <1>t DEF SpendItem, SpendItemRow, IsTable
<1> HIDE DEF row
<1>4. \A k \in DOMAIN t.items \ {key} : t.items[k].tile = tile =>
        /\ ToldApart(row, row.group, t.items[k])
        /\ ToldApart(t.items[k], t.items[k].group, row)
  BY <1>1 DEF checkShape, ToldApart, Kind
<1>5. rows[key] = row
  BY DEF row
<1>6. ItemsFit(rows, t.groups, t.tiles, t.forms)
  BY <1>t, <1>1, <1>2, <1>4, <1>5 DEF ItemsFit
<1> QED
  BY <1>3, <1>6 DEF row

SpendEnds(t, q) ==
  /\ q.op = "setSpendRules" => EndsSpend(spendSetRules(t, q), {"none"})
  /\ q.op = "createSpendGroup" =>
       EndsSpend(groupCreate(t, t, q), {"none", "NoSpendCategory", "SpendGroupExists"})
  /\ q.op = "updateSpendGroup" =>
       EndsSpend(groupUpdate(t, q), {"none", "unknown", "NoSpendCategory"})
  /\ EndsSpend(groupMove(t, t, q), {"none", "unknown"})
  /\ q.op = "updateSpendForm" => EndsSpend(formUpdate(t, q), {"none", "unknown"})
  /\ q.op = "createSpendTile" => EndsSpend(tileCreate(t, q), {"none", "SpendTileExists"})
  /\ q.op = "updateSpendTile" => EndsSpend(tileUpdate(t, q), {"none", "unknown"})
  /\ q.op = "createSpendItem" =>
       EndsSpend(spendItemCreate(t, t, q), {"none", "NoSpendGroup", "NoSpendTile",
                                            "SpendItemExists", "SpendItemShape"})
  /\ q.op = "updateSpendItem" =>
       EndsSpend(spendItemUpdate(t, t, q), {"none", "unknown", "NoSpendTile", "SpendItemShape"})
  /\ EndsSpend(spendItemMove(t, t, q), {"none", "unknown"})
  /\ EndsSpend(spendSeed(t, t), {"none", "missing"})

\* The rows a seeding, or a scene, begins with.
LEMMA SpendReadyGood ==
  ASSUME NEW K, {1} \subseteq K, K \subseteq FewKeys, NEW categories, {1} \subseteq categories,
         categories \subseteq FewKeys
  PROVE  GoodSpend(SpendReady(K), categories)
<1> DEFINE t == SpendReady(K)
           shape == Shape(1, {}, 1, {1})
           item == SpendItem(1, 1, shape, 0)
           groups == [k \in K |-> [category |-> 1, text |-> 1, order |-> k - 1]]
<1>0. /\ 1 \in FewKeys /\ {1, 2} \subseteq Texts /\ FewKeys \subseteq Nat \ {0}
  BY SeedOrdered, CatalogueAssumption
<1>1. /\ DOMAIN t = {"rules", "forms", "groups", "tiles", "items"} /\ t.rules = 1
      /\ t.forms = One(1, 1) /\ t.groups = groups /\ t.tiles = [k \in K |-> 1]
      /\ t.items = One(1, item)
  BY DEF SpendReady
<1>2. Ordered(groups, FewKeys, SpendGroupRow) /\ DOMAIN groups = K
      /\ \A k \in K : groups[k].category = 1
  <2>1. \A k \in K : groups[k] \in SpendGroupRow /\ groups[k].order = k - 1
    BY <1>0 DEF SpendGroupRow
  <2> QED
    BY <1>0, <2>1 DEF Ordered, IsTable, OrdersDiffer
<1>3. item \in SpendItemRow /\ item.group = 1 /\ item.tile = 1 /\ item.forms = {1}
  BY <1>0 DEF SpendItem, Shape, SpendItemRow, SpendOptions, SpendForms
<1> HIDE DEF t, item, groups
<1>4. /\ DOMAIN t.forms = {1} /\ t.forms[1] = 1 /\ DOMAIN t.items = {1} /\ t.items[1] = item
      /\ DOMAIN t.tiles = K /\ \A k \in K : t.tiles[k] = 1
  BY <1>1 DEF One
<1>5. OrderedBy(t.items, FewKeys, SpendItemRow, "group")
  BY <1>0, <1>3, <1>4 DEF OrderedBy, IsTable
<1>6. ItemsFit(t.items, t.groups, t.tiles, t.forms)
  BY <1>1, <1>2, <1>3, <1>4 DEF ItemsFit
<1>7. IsTable(t.forms, {1}, SpendFormRow) /\ IsTable(t.tiles, FewKeys, SpendTileRow)
  BY <1>0, <1>4 DEF IsTable, SpendFormRow, SpendTileRow
<1>8. GoodSpend(t, categories)
  BY <1>0, <1>1, <1>2, <1>5, <1>6, <1>7 DEF GoodSpend
<1> QED
  BY <1>8 DEF t

LEMMA SpendOutcomes ==
  ASSUME NEW t, GoodSpend(t, SpendCategories), SpendCategories \subseteq FewKeys, NEW q \in SpendAsked
  PROVE  SpendEnds(t, q)
<1>0. /\ Placed(SpendGroupRow) /\ Placed(SpendItemRow) /\ FewKeys \in SUBSET Keys
      /\ {1, 2} \subseteq Texts /\ 1 \in FewKeys /\ None \notin FewKeys
      /\ \A row \in SpendItemRow : "group" \in DOMAIN row
  BY RowsPlaced, SeedOrdered, CatalogueAssumption DEF SpendItemRow
<1>t. /\ DOMAIN t = {"rules", "forms", "groups", "tiles", "items"} /\ t.rules \in {None} \cup Texts
      /\ IsTable(t.forms, {1}, SpendFormRow) /\ IsTable(t.tiles, FewKeys, SpendTileRow)
      /\ Ordered(t.groups, FewKeys, SpendGroupRow)
      /\ \A k \in DOMAIN t.groups : t.groups[k].category \in SpendCategories
      /\ OrderedBy(t.items, FewKeys, SpendItemRow, "group")
      /\ ItemsFit(t.items, t.groups, t.tiles, t.forms)
  BY DEF GoodSpend
<1>k. \A e : EndsSpend(Kept(t), {"none"}) /\ EndsSpend(Failed(t, e), {e})
             /\ EndsSpend(Unknown(t), {"unknown"})
  BY DEF EndsSpend, Kept, Failed, Unknown
<1>r. \A x \in Texts : GoodSpend([t EXCEPT !.rules = x], SpendCategories)
  BY <1>t DEF GoodSpend
<1>1. ASSUME q.op = "setSpendRules" PROVE EndsSpend(spendSetRules(t, q), {"none"})
  <2>1. q.value \in Texts
    BY <1>0, <1>1 DEF SpendAsked, SpendRequests, SpendItemRequests
  <2> QED
    BY <1>r, <2>1 DEF EndsSpend, spendSetRules, Wrote
<1>2. ASSUME q.op = "createSpendGroup"
      PROVE  EndsSpend(groupCreate(t, t, q), {"none", "NoSpendCategory", "SpendGroupExists"})
  <2> DEFINE row == [category |-> q.category, text |-> q.text,
                     order |-> NextOrder(t.groups, DOMAIN t.groups)]
             out == Inserted(t.groups, One(q.key, row), "SpendGroupExists")
  <2>1. q.key \in FewKeys /\ q.text \in Texts
    BY <1>0, <1>2 DEF SpendAsked, SpendRequests, SpendItemRequests
  <2>2. \/ groupCreate(t, t, q) = Failed(t, "NoSpendCategory")
        \/ q.category \in SpendCategories /\ groupCreate(t, t, q) = In(t, "groups", out)
    BY DEF groupCreate
  <2>3. CASE groupCreate(t, t, q) = Failed(t, "NoSpendCategory")
    BY <1>k, <2>3 DEF EndsSpend
  <2>4. CASE q.category \in SpendCategories /\ groupCreate(t, t, q) = In(t, "groups", out)
    <3>1. /\ row \in SpendGroupRow /\ row.order = NextOrder(t.groups, DOMAIN t.groups)
          /\ row.category \in SpendCategories
      BY <1>0, <1>t, <2>1, <2>4, OrderedTables, NextOrderBehind
         DEF Ordered, HasOrders, SpendGroupRow
    <3> HIDE DEF row
    <3>2. Ends(out, FewKeys, SpendGroupRow, {"none", "SpendGroupExists"})
      BY <1>0, <1>t, <2>1, <3>1, InsertedOrdered
    <3>3. /\ DOMAIN t.groups \subseteq DOMAIN out.now
          /\ \A k \in DOMAIN out.now : out.now[k].category \in SpendCategories
      BY <1>t, <3>1, InsertedBeside
    <3> HIDE DEF out
    <3>4. EndsSpend(In(t, "groups", out), {"none", "SpendGroupExists"})
      BY <3>2, <3>3, SpendPart DEF Ends
    <3> QED
      BY <2>4, <3>4 DEF EndsSpend
  <2> QED
    BY <2>2, <2>3, <2>4
<1>3. ASSUME q.op = "updateSpendGroup"
      PROVE  EndsSpend(groupUpdate(t, q), {"none", "unknown", "NoSpendCategory"})
  <2> DEFINE row == [t.groups[q.key] EXCEPT !.text = q.text, !.category = q.category]
             out == IF q.key \in DOMAIN t.groups THEN Wrote([t.groups EXCEPT ![q.key] = row])
                    ELSE Unknown(t.groups)
  <2>1. q.text \in Texts
    BY <1>0, <1>3 DEF SpendAsked, SpendRequests, SpendItemRequests
  <2>2. \/ groupUpdate(t, q) = Failed(t, "NoSpendCategory")
        \/ q.category \in SpendCategories /\ groupUpdate(t, q) = In(t, "groups", out)
    BY DEF groupUpdate, Updated
  <2>3. CASE groupUpdate(t, q) = Failed(t, "NoSpendCategory")
    BY <1>k, <2>3 DEF EndsSpend
  <2>4. CASE q.category \in SpendCategories /\ groupUpdate(t, q) = In(t, "groups", out)
    <3>1. q.key \in DOMAIN t.groups =>
            /\ row \in SpendGroupRow /\ row.order = t.groups[q.key].order
            /\ row.category \in SpendCategories
      BY <1>t, <2>1, <2>4 DEF SpendGroupRow, Ordered, IsTable
    <3> HIDE DEF row
    <3>2. Ends(out, FewKeys, SpendGroupRow, {"none", "unknown"})
      BY <1>t, <3>1, UpdatedOrdered
    <3>3. /\ DOMAIN t.groups \subseteq DOMAIN out.now
          /\ \A k \in DOMAIN out.now : out.now[k].category \in SpendCategories
      BY <1>t, <3>1 DEF Wrote, Unknown, Failed
    <3> HIDE DEF out
    <3>4. EndsSpend(In(t, "groups", out), {"none", "unknown"})
      BY <3>2, <3>3, SpendPart DEF Ends
    <3> QED
      BY <2>4, <3>4 DEF EndsSpend
  <2> QED
    BY <2>2, <2>3, <2>4
<1>4. EndsSpend(groupMove(t, t, q), {"none", "unknown"})
  <2> DEFINE out == Moved(t.groups, t.groups, DOMAIN t.groups, q.key, q.dir)
  <2>1. Ends(out, FewKeys, SpendGroupRow, {"none", "unknown"})
    BY <1>0, <1>t, MovedOrdered
  <2>2. PlacesOnly(t.groups, out.now)
    BY <1>0, <1>t, OrderedTables, MoveKeepsColumns DEF Ordered
  <2>3. groupMove(t, t, q) = In(t, "groups", out)
    BY DEF groupMove
  <2> HIDE DEF out
  <2>4. \A k \in DOMAIN t.groups : "category" \in DOMAIN t.groups[k] \ {"order"}
    BY <1>t DEF Ordered, IsTable, SpendGroupRow
  <2>5. DOMAIN out.now = DOMAIN t.groups
        /\ \A k \in DOMAIN t.groups : out.now[k].category = t.groups[k].category
    BY <2>2, <2>4 DEF PlacesOnly
  <2> QED
    BY <1>t, <2>1, <2>3, <2>5, SpendPart DEF Ends
<1>5. ASSUME q.op = "updateSpendForm" PROVE EndsSpend(formUpdate(t, q), {"none", "unknown"})
  <2> DEFINE out == IF q.key \in DOMAIN t.forms THEN Wrote([t.forms EXCEPT ![q.key] = q.text])
                    ELSE Unknown(t.forms)
  <2>1. q.text \in Texts
    BY <1>0, <1>5 DEF SpendAsked, SpendRequests, SpendItemRequests
  <2>2. formUpdate(t, q) = In(t, "forms", out)
    BY DEF formUpdate, Updated
  <2>3. IsOut(out) /\ out.error \in {"none", "unknown"}
    BY OutsAreOuts DEF Wrote, Unknown, Failed
  <2>4. IsTable(out.now, {1}, SpendFormRow) /\ DOMAIN out.now = DOMAIN t.forms
    BY <1>t, <2>1 DEF IsTable, SpendFormRow, Wrote, Unknown, Failed
  <2> HIDE DEF out
  <2> QED
    BY <2>2, <2>3, <2>4, SpendPart
<1>6. ASSUME q.op = "createSpendTile" PROVE EndsSpend(tileCreate(t, q), {"none", "SpendTileExists"})
  <2> DEFINE out == Inserted(t.tiles, One(q.key, q.text), "SpendTileExists")
  <2>1. q.key \in FewKeys /\ q.text \in Texts
    BY <1>0, <1>6 DEF SpendAsked, SpendRequests, SpendItemRequests
  <2>2. tileCreate(t, q) = In(t, "tiles", out)
    BY DEF tileCreate
  <2>3. IsOut(out) /\ out.error \in {"none", "SpendTileExists"}
    BY OutsAreOuts DEF Inserted, Wrote, Failed
  <2>4. IsTable(out.now, FewKeys, SpendTileRow) /\ DOMAIN t.tiles \subseteq DOMAIN out.now
    BY <1>t, <2>1 DEF IsTable, SpendTileRow, Inserted, Wrote, Failed, Join, One
  <2> HIDE DEF out
  <2> QED
    BY <2>2, <2>3, <2>4, SpendPart
<1>7. ASSUME q.op = "updateSpendTile" PROVE EndsSpend(tileUpdate(t, q), {"none", "unknown"})
  <2> DEFINE out == IF q.key \in DOMAIN t.tiles THEN Wrote([t.tiles EXCEPT ![q.key] = q.text])
                    ELSE Unknown(t.tiles)
  <2>1. q.text \in Texts
    BY <1>0, <1>7 DEF SpendAsked, SpendRequests, SpendItemRequests
  <2>2. tileUpdate(t, q) = In(t, "tiles", out)
    BY DEF tileUpdate, Updated
  <2>3. IsOut(out) /\ out.error \in {"none", "unknown"}
    BY OutsAreOuts DEF Wrote, Unknown, Failed
  <2>4. IsTable(out.now, FewKeys, SpendTileRow) /\ DOMAIN out.now = DOMAIN t.tiles
    BY <1>t, <2>1 DEF IsTable, SpendTileRow, Wrote, Unknown, Failed
  <2> HIDE DEF out
  <2> QED
    BY <2>2, <2>3, <2>4, SpendPart
<1>s. q.op \in {"createSpendItem", "updateSpendItem"} =>
        /\ q.key \in FewKeys /\ q.shape.tier \in {None, 1} /\ q.shape.options \in SpendOptions
        /\ q.shape.coins \in {None, 1}
  <2>1. \A x \in Shapes : x.tier \in {None, 1} /\ x.options \in SpendOptions /\ x.coins \in {None, 1}
    BY DEF Shapes, Shape, SpendOptions
  <2>2. q.op \in {"createSpendItem", "updateSpendItem"} => q.key \in FewKeys /\ q.shape \in Shapes
    BY DEF SpendAsked, SpendRequests, SpendItemRequests
  <2> QED
    BY <2>1, <2>2
<1>i. \A rows : OrderedBy(rows, FewKeys, SpendItemRow, "group")
                  /\ ItemsFit(rows, t.groups, t.tiles, t.forms)
                  => EndsSpend(Wrote([t EXCEPT !.items = rows]), {"none"})
  BY <1>t DEF EndsSpend, GoodSpend, Wrote
<1>8. ASSUME q.op = "createSpendItem"
      PROVE  EndsSpend(spendItemCreate(t, t, q), {"none", "NoSpendGroup", "NoSpendTile",
                                                  "SpendItemExists", "SpendItemShape"})
  <2> DEFINE order == NextOrder(t.items, ItemsOfGroup(t, q.group))
             row == SpendItem(q.group, q.tile, q.shape, order)
             rows == Join(t.items, One(q.key, row))
             fits == /\ q.group \in DOMAIN t.groups /\ q.tile \in DOMAIN t.tiles
                     /\ checkShape(t, None, q.group, q.tile, q.shape)
                     /\ q.key \notin DOMAIN t.items /\ FormsKnown(t, q.shape)
  <2>1. CASE ~fits
    <3>1. \/ spendItemCreate(t, t, q) \in {Failed(t, "NoSpendGroup"), Failed(t, "NoSpendTile")}
          \/ spendItemCreate(t, t, q) \in {Failed(t, "SpendItemShape"), Failed(t, "SpendItemExists")}
      BY <2>1 DEF spendItemCreate
    <3> QED
      BY <1>k, <3>1 DEF EndsSpend
  <2>2. CASE fits
    <3>1. spendItemCreate(t, t, q) = Wrote([t EXCEPT !.items = rows])
      BY <2>2 DEF spendItemCreate
    <3>2. ItemsOfGroup(t, q.group) = Siblings(t.items, "group", q.group)
      BY DEF ItemsOfGroup, Siblings
    <3>3. order \in Nat
      BY <1>0, <1>t, <3>2, SiblingsPlaced
    <3>4. row.group = q.group /\ row.order = NextOrder(t.items, Siblings(t.items, "group", row["group"]))
      BY <3>2 DEF SpendItem
    <3>5. /\ DOMAIN rows = DOMAIN t.items \cup {q.key} /\ rows[q.key] = row
          /\ \A k \in DOMAIN t.items \ {q.key} : rows[k] = t.items[k]
      BY DEF Join, One
    <3>6. checkShape(t, q.key, q.group, q.tile, q.shape)
      <4>1. DOMAIN t.items \ {None} = DOMAIN t.items /\ DOMAIN t.items \ {q.key} = DOMAIN t.items
        BY <1>0, <1>t, <2>2 DEF OrderedBy, IsTable
      <4> QED
        BY <2>2, <4>1 DEF checkShape
    <3> HIDE DEF order
    <3>7. ItemsFit(rows, t.groups, t.tiles, t.forms) /\ row \in SpendItemRow
      BY <1>s, <1>8, <2>2, <3>3, <3>5, <3>6, ItemFits
    <3> HIDE DEF row
    <3>8. EndsBy(Inserted(t.items, One(q.key, row), "SpendItemExists"), FewKeys, SpendItemRow, "group",
                 {"none", "SpendItemExists"})
      BY <1>0, <1>t, <1>s, <1>8, <3>4, <3>7, InsertedOrderedBy
    <3>9. Inserted(t.items, One(q.key, row), "SpendItemExists").now = rows
      BY <2>2 DEF Inserted, Wrote, One
    <3>10. EndsSpend(Wrote([t EXCEPT !.items = rows]), {"none"})
      BY <1>i, <3>7, <3>8, <3>9 DEF EndsBy
    <3> QED
      BY <3>1, <3>10 DEF EndsSpend
  <2> QED
    BY <2>1, <2>2
<1>9. ASSUME q.op = "updateSpendItem"
      PROVE  EndsSpend(spendItemUpdate(t, t, q), {"none", "unknown", "NoSpendTile", "SpendItemShape"})
  <2> DEFINE old == t.items[q.key]
             row == SpendItem(old.group, q.tile, q.shape, old.order)
             rows == [t.items EXCEPT ![q.key] = row]
             fits == /\ q.key \in DOMAIN t.items /\ q.tile \in DOMAIN t.tiles
                     /\ checkShape(t, q.key, old.group, q.tile, q.shape)
                     /\ FormsKnown(t, q.shape)
  <2>1. CASE ~fits
    <3>1. spendItemUpdate(t, t, q) \in
            {Unknown(t), Failed(t, "NoSpendTile"), Failed(t, "SpendItemShape")}
      BY <2>1 DEF spendItemUpdate
    <3> QED
      BY <1>k, <3>1 DEF EndsSpend
  <2>2. CASE fits
    <3>1. spendItemUpdate(t, t, q) = Wrote([t EXCEPT !.items = rows])
      <4>1. spendItemUpdate(t, t, q)
              = Wrote([t EXCEPT !.items[q.key] = SpendItem(@.group, q.tile, q.shape, @.order)])
        BY <2>2 DEF spendItemUpdate
      <4>2. [t EXCEPT !.items[q.key] = SpendItem(@.group, q.tile, q.shape, @.order)]
              = [t EXCEPT !.items = rows]
        BY <1>t
      <4> QED
        BY <4>1, <4>2
    <3>2. old \in SpendItemRow /\ old.order \in Nat /\ old.group \in DOMAIN t.groups
      BY <1>t, <2>2 DEF OrderedBy, IsTable, SpendItemRow, ItemsFit
    <3>3. row.group = old.group /\ row.order = old.order
      BY DEF SpendItem
    <3>4. /\ DOMAIN rows = DOMAIN t.items \cup {q.key} /\ rows[q.key] = row
          /\ \A k \in DOMAIN t.items \ {q.key} : rows[k] = t.items[k]
      BY <2>2
    <3>5. ItemsFit(rows, t.groups, t.tiles, t.forms) /\ row \in SpendItemRow
      <4> HIDE DEF old, rows
      <4> QED
        BY <1>s, <1>9, <2>2, <3>2, <3>4, ItemFits
    <3> HIDE DEF row
    <3>6. OrderedBy(rows, FewKeys, SpendItemRow, "group")
      BY <1>t, <2>2, <3>3, <3>5, ReplacedOrderedBy
    <3>7. EndsSpend(Wrote([t EXCEPT !.items = rows]), {"none"})
      BY <1>i, <3>5, <3>6
    <3> QED
      BY <3>1, <3>7 DEF EndsSpend
  <2> QED
    BY <2>1, <2>2
<1>10. EndsSpend(spendItemMove(t, t, q), {"none", "unknown"})
  <2> DEFINE kin == ItemsOfGroup(t, t.items[q.key].group)
             out == Moved(t.items, t.items, kin, q.key, q.dir)
  <2>1. kin = Siblings(t.items, "group", t.items[q.key].group)
    BY DEF ItemsOfGroup, Siblings
  <2>2. EndsBy(out, FewKeys, SpendItemRow, "group", {"none", "unknown"})
    BY <1>0, <1>t, <2>1, MovedOrderedBy
  <2>3. PlacesOnly(t.items, out.now)
    BY <1>0, <1>t, <2>1, SiblingsPlaced, MoveKeepsColumns
  <2>4. spendItemMove(t, t, q) = Unknown(t) \/ spendItemMove(t, t, q) = In(t, "items", out)
    BY DEF spendItemMove
  <2> HIDE DEF out
  <2>5. \A k \in DOMAIN t.items :
          {"group", "tile", "tier", "options", "forms"} \subseteq DOMAIN t.items[k] \ {"order"}
    BY <1>t DEF OrderedBy, IsTable, SpendItemRow
  <2>6. /\ DOMAIN out.now = DOMAIN t.items
        /\ \A k \in DOMAIN t.items :
             /\ out.now[k].group = t.items[k].group /\ out.now[k].tile = t.items[k].tile
             /\ out.now[k].tier = t.items[k].tier /\ out.now[k].options = t.items[k].options
             /\ out.now[k].forms = t.items[k].forms
    BY <2>3, <2>5 DEF PlacesOnly
  <2>7. ItemsFit(out.now, t.groups, t.tiles, t.forms)
    BY <1>t, <2>6 DEF ItemsFit, ToldApart, Kind
  <2>8. EndsSpend(In(t, "items", out), {"none", "unknown"})
    BY <2>2, <2>7, SpendPart DEF EndsBy
  <2> QED
    BY <1>k, <2>4, <2>8 DEF EndsSpend
<1>11. EndsSpend(spendSeed(t, t), {"none", "missing"})
  <2> DEFINE forms == IF DOMAIN t.forms = {} THEN One(1, 1) ELSE t.forms
             ready == SpendReady(SeedKeys)
             new == [ready EXCEPT !.rules = t.rules, !.forms = forms]
  <2>1. \/ spendSeed(t, t) \in {Kept(t), Failed(t, "missing")}
        \/ /\ DOMAIN t.groups \cup DOMAIN t.tiles \cup DOMAIN t.items = {} /\ 1 \in SpendCategories
           /\ spendSeed(t, t) = Wrote(new)
    BY DEF spendSeed
  <2>2. CASE spendSeed(t, t) \in {Kept(t), Failed(t, "missing")}
    BY <1>k, <2>2 DEF EndsSpend
  <2>3. CASE /\ 1 \in SpendCategories /\ spendSeed(t, t) = Wrote(new)
    <3>1. GoodSpend(ready, SpendCategories)
      BY <2>3, SeedOrdered, SpendReadyGood
    <3>2. DOMAIN forms = {1} /\ IsTable(forms, {1}, SpendFormRow)
      BY <1>0, <1>t DEF IsTable, SpendFormRow, One
    <3>3. DOMAIN ready.forms = {1}
      BY DEF SpendReady, One
    <3>4. ItemsFit(ready.items, ready.groups, ready.tiles, forms)
      BY <3>1, <3>2, <3>3 DEF GoodSpend, ItemsFit
    <3> HIDE DEF ready, forms
    <3>5. GoodSpend(new, SpendCategories)
      BY <1>t, <3>1, <3>2, <3>4 DEF GoodSpend
    <3> QED
      BY <2>3, <3>5 DEF EndsSpend, Wrote
  <2> QED
    BY <2>1, <2>2, <2>3
<1> QED
  BY <1>1, <1>2, <1>3, <1>4, <1>5, <1>6, <1>7, <1>8, <1>9, <1>10, <1>11 DEF SpendEnds

LEMMA SpendStep ==
  ASSUME GoodSpend(spend, SpendCategories), NEW r, Q(r) \in SpendAsked, Seen(r) = spend,
         SpendCategories \subseteq FewKeys,
         \/ SetSpendRules(r) \/ CreateSpendGroup(r) \/ UpdateSpendGroup(r)
         \/ MoveSpendGroup(r) \/ UpdateSpendForm(r) \/ CreateSpendTile(r)
         \/ UpdateSpendTile(r) \/ CreateSpendItem(r) \/ UpdateSpendItem(r) \/ MoveSpendItem(r)
         \/ SeedSpendRows(r)
  PROVE  /\ GoodSpend(spend', SpendCategories) /\ answer'.status \in Told
<1>0. SpendEnds(spend, Q(r))
  BY SpendOutcomes
<1>1. CASE SetSpendRules(r)
  BY <1>0, <1>1, CloseTells, CodesTold
     DEF SetSpendRules, Spending, Asked, Q, SpendEnds, EndsSpend, Caught
<1>2. CASE CreateSpendGroup(r)
  BY <1>0, <1>2, CloseTells
     DEF CreateSpendGroup, Spending, Asked, Q, Pictured, Failed, SpendEnds, EndsSpend, Caught,
         Told, SpendGroupCodes
<1>3. CASE UpdateSpendGroup(r)
  BY <1>0, <1>3, CloseTells
     DEF UpdateSpendGroup, Spending, Asked, Q, Pictured, Failed, SpendEnds, EndsSpend, Caught,
         Told, SpendGroupCodes
<1>4. CASE MoveSpendGroup(r)
  BY <1>0, <1>4, CloseTells, CodesTold
     DEF MoveSpendGroup, Spending, Asked, Q, SpendEnds, EndsSpend, Caught
<1>5. CASE UpdateSpendForm(r)
  BY <1>0, <1>5, CloseTells, CodesTold
     DEF UpdateSpendForm, Spending, Asked, Q, SpendEnds, EndsSpend, Caught
<1>6. CASE CreateSpendTile(r)
  BY <1>0, <1>6, CloseTells
     DEF CreateSpendTile, Spending, Asked, Q, Pictured, Failed, SpendEnds, EndsSpend, Caught, Told
<1>7. CASE UpdateSpendTile(r)
  BY <1>0, <1>7, CloseTells, CodesTold
     DEF UpdateSpendTile, Spending, Asked, Q, Pictured, Failed, SpendEnds, EndsSpend, Caught
<1>8. CASE CreateSpendItem(r)
  BY <1>0, <1>8, CloseTells
     DEF CreateSpendItem, Spending, Asked, Q, Pictured, Failed, SpendEnds, EndsSpend, Caught,
         Told, SpendItemCodes
<1>9. CASE UpdateSpendItem(r)
  BY <1>0, <1>9, CloseTells
     DEF UpdateSpendItem, Spending, Asked, Q, Pictured, Failed, SpendEnds, EndsSpend, Caught,
         Told, SpendItemCodes
<1>10. CASE MoveSpendItem(r)
  BY <1>0, <1>10, CloseTells, CodesTold
     DEF MoveSpendItem, Spending, Asked, Q, SpendEnds, EndsSpend, Caught
<1>11. CASE SeedSpendRows(r)
  BY <1>0, <1>11, CloseTells, CodesTold
     DEF SeedSpendRows, Spending, Asked, Q, SpendEnds, EndsSpend, Caught
<1> QED
  BY <1>1, <1>2, <1>3, <1>4, <1>5, <1>6, <1>7, <1>8, <1>9, <1>10, <1>11

\* Between the two transactions of a seeding its call goes on, of the table as it is.
LEMMA SpendGoesOn ==
  ASSUME GoodSpend(spend, SpendCategories), SpendCategories \subseteq FewKeys,
         NEW r, Q(r) \in SpendAsked, Seen(r) = spend, SeedSpendRules(r)
  PROVE  GoodSpend(spend', SpendCategories) /\ answer'.status \in Told
<1>1. \A x \in {None} \cup Texts : GoodSpend([spend EXCEPT !.rules = x], SpendCategories)
  BY DEF GoodSpend
<1>2. 1 \in Texts /\ spend.rules \in {None} \cup Texts
  BY CatalogueAssumption DEF GoodSpend
<1>3. \E x \in {None} \cup Texts : spend' = [spend EXCEPT !.rules = x]
  BY <1>2 DEF SeedSpendRules
<1> QED
  BY <1>1, <1>3 DEF SeedSpendRules, NoAnswer, Told

-----------------------------------------------------------------------------
(* Items, boxes and equipment. *)

NamesDiffer(rows) == \A a, b \in DOMAIN rows : Comparable(rows[a]) = Comparable(rows[b]) => a = b

GoodBox(row, known) ==
  /\ DOMAIN row = {"text", "contents"} /\ row.text \in BoxColumns
  /\ Ordered(row.contents, Keys, ContentsRow) /\ DOMAIN row.contents \subseteq known

\* A box is an item, and what it holds are items.
BoxesFit(boxes, known) ==
  DOMAIN boxes \subseteq FewKeys \cap known /\ \A b \in DOMAIN boxes : GoodBox(boxes[b], known)

GoodItems(t) ==
  /\ DOMAIN t = {"items", "boxes", "equipment"}
  /\ IsTable(t.items, Keys, DropItemRow) /\ BoxesFit(t.boxes, DOMAIN t.items)
  /\ IsTable(t.equipment, FewKeys, EquipmentRow) /\ NamesDiffer(t.equipment)

\* No item is ever deleted.
EndsItems(t, out, errors) ==
  GoodItems(out.now) /\ out.error \in errors /\ DOMAIN t.items \subseteq DOMAIN out.now.items

ItemsAsked == ItemRequests \cup BoxRequests

LEMMA ItemsPart ==
  ASSUME NEW t, GoodItems(t), NEW out, IsOut(out), NEW errors, out.error \in errors
  PROVE  /\ IsTable(out.now, Keys, DropItemRow) /\ DOMAIN t.items \subseteq DOMAIN out.now
              => EndsItems(t, In(t, "items", out), errors)
         /\ BoxesFit(out.now, DOMAIN t.items) => EndsItems(t, In(t, "boxes", out), errors)
         /\ IsTable(out.now, FewKeys, EquipmentRow) /\ NamesDiffer(out.now)
              => EndsItems(t, In(t, "equipment", out), errors)
<1> DEFINE new(part) == In(t, part, out).now
<1>1. \A part : In(t, part, out).error = out.error /\ new(part) = [t EXCEPT ![part] = out.now]
  BY DEF In, IsOut
<1>t. /\ DOMAIN t = {"items", "boxes", "equipment"}
      /\ IsTable(t.items, Keys, DropItemRow) /\ BoxesFit(t.boxes, DOMAIN t.items)
      /\ IsTable(t.equipment, FewKeys, EquipmentRow) /\ NamesDiffer(t.equipment)
  BY DEF GoodItems
<1>2. \A part \in DOMAIN t : /\ DOMAIN new(part) = DOMAIN t /\ new(part)[part] = out.now
                             /\ \A x \in DOMAIN t \ {part} : new(part)[x] = t[x]
  BY <1>1
<1> HIDE DEF new
<1>3. ASSUME IsTable(out.now, Keys, DropItemRow), DOMAIN t.items \subseteq DOMAIN out.now
      PROVE  GoodItems(new("items")) /\ DOMAIN t.items \subseteq DOMAIN new("items").items
  <2>1. /\ DOMAIN new("items") = DOMAIN t /\ new("items").items = out.now
        /\ new("items").boxes = t.boxes /\ new("items").equipment = t.equipment
    BY <1>2, <1>t
  <2>2. BoxesFit(t.boxes, DOMAIN out.now)
    BY <1>3, <1>t DEF BoxesFit, GoodBox
  <2> QED
    BY <1>3, <1>t, <2>1, <2>2 DEF GoodItems
<1>4. ASSUME BoxesFit(out.now, DOMAIN t.items)
      PROVE  GoodItems(new("boxes")) /\ DOMAIN t.items \subseteq DOMAIN new("boxes").items
  <2>1. /\ DOMAIN new("boxes") = DOMAIN t /\ new("boxes").boxes = out.now
        /\ new("boxes").items = t.items /\ new("boxes").equipment = t.equipment
    BY <1>2, <1>t
  <2> QED
    BY <1>4, <1>t, <2>1 DEF GoodItems
<1>5. ASSUME IsTable(out.now, FewKeys, EquipmentRow), NamesDiffer(out.now)
      PROVE  GoodItems(new("equipment")) /\ DOMAIN t.items \subseteq DOMAIN new("equipment").items
  <2>1. /\ DOMAIN new("equipment") = DOMAIN t /\ new("equipment").equipment = out.now
        /\ new("equipment").items = t.items /\ new("equipment").boxes = t.boxes
    BY <1>2, <1>t
  <2> QED
    BY <1>5, <1>t, <2>1 DEF GoodItems
<1> QED
  BY <1>1, <1>3, <1>4, <1>5 DEF EndsItems, new

\* What one box holds changes.
LEMMA InBoxPart ==
  ASSUME NEW t, GoodItems(t), NEW box \in DOMAIN t.boxes, NEW out, NEW errors,
         Ends(out, Keys, ContentsRow, errors), DOMAIN out.now \subseteq DOMAIN t.items
  PROVE  EndsItems(t, InBox(t, box, out), errors)
<1> DEFINE row == [t.boxes[box] EXCEPT !.contents = out.now]
           boxes == [t.boxes EXCEPT ![box] = row]
           new == [t EXCEPT !.boxes[box].contents = out.now]
<1>1. InBox(t, box, out).now = new /\ InBox(t, box, out).error = out.error
  BY DEF InBox, Ends, IsOut
<1>2. /\ DOMAIN new = {"items", "boxes", "equipment"} /\ new.items = t.items
      /\ new.equipment = t.equipment /\ new.boxes = boxes
  BY DEF GoodItems
<1>3. GoodBox(row, DOMAIN t.items)
  BY DEF GoodItems, BoxesFit, GoodBox, Ends
<1> HIDE DEF row, new
<1>4. BoxesFit(boxes, DOMAIN t.items)
  BY <1>3 DEF GoodItems, BoxesFit
<1> HIDE DEF boxes
<1>5. GoodItems(new)
  BY <1>2, <1>4 DEF GoodItems
<1> QED
  BY <1>1, <1>2, <1>5 DEF EndsItems, Ends

\* A name that passes its check is like no other.
LEMMA NamePasses ==
  ASSUME NEW t, NEW self, NEW key, NEW name, NEW problem \in NameProblems(t, self, key, name)
  PROVE  /\ problem \in {"none", "EquipmentNameTaken", "DropItemKeyMismatch"}
         /\ problem = "none" => ~ CalledLike(t, self, name) /\ ~ SameName(t, self, name)
BY DEF NameProblems, CalledLike, SameName

\* What the requests of a kind bring.
LEMMA ItemsAsking ==
  ASSUME NEW q \in ItemsAsked
  PROVE  /\ q.op \in {"createDropItem", "updateDropItem"} =>
              /\ q.key \in Keys /\ q.name \in Names /\ q.text \in Texts
              /\ q.bound \in {Absent, TRUE}
         /\ q.op \in {"createEquipment", "updateEquipment"} => q.key \in FewKeys /\ q.name \in Names
         /\ q.op \in {"createDropBox", "setDropBoxLevels"} => q.box \in FewKeys /\ q.text \in Texts
         /\ q.op = "addBoxContent" => q.item \in Keys
<1>0. /\ FewKeys \subseteq Keys /\ 1 \in FewKeys /\ 1 \in Keys /\ 2 \in Texts
  BY SeedOrdered, CatalogueAssumption
<1> DEFINE asks1 == [op : {"createDropItem", "updateDropItem"}, key : FewKeys, name : Names,
                     text : {2}, bound : {Absent, TRUE}]
           asks2 == [op : {"createEquipment", "updateEquipment"}, key : FewKeys, name : Names]
           asks3 == [op : {"createDropBox"}, box : FewKeys, text : {2}]
           asks4 == [op : {"setDropBoxLevels"}, box : {1}, text : {2}]
           asks5 == [op : {"addBoxContent", "removeBoxContent"}, box : {1}, item : Keys]
           asks6 == [op : {"addBoxContent", "removeBoxContent"}, box : {2}, item : {1}]
           asks7 == [op : {"moveBoxContent"}, box : {1}, item : Keys, dir : Dirs]
           asks8 == {[op |-> "seedDropItems"], [op |-> "seedEquipment"], [op |-> "seedDropBoxes"]}
<1>1. q \in asks1 \cup asks2 \cup asks3 \cup asks4 \cup asks5 \cup asks6 \cup asks7 \cup asks8
  <2> HIDE DEF asks1, asks2, asks3, asks4, asks5, asks6, asks7
  <2>1. q \in (asks1 \cup asks2 \cup {[op |-> "seedDropItems"], [op |-> "seedEquipment"]})
                \cup (asks3 \cup asks4 \cup asks5 \cup asks6 \cup asks7 \cup {[op |-> "seedDropBoxes"]})
    BY Zenon DEF ItemsAsked, ItemRequests, BoxRequests, asks1, asks2, asks3, asks4, asks5, asks6, asks7
  <2> QED
    BY <2>1
<1>2. CASE q \in asks1
  BY <1>0, <1>2
<1>3. CASE q \in asks2
  BY <1>0, <1>3
<1>4. CASE q \in asks3 \cup asks4
  BY <1>0, <1>4
<1>5. CASE q \in asks5 \cup asks6
  BY <1>0, <1>5
<1>6. CASE q \in asks7 \cup asks8
  <2>1. q.op \in {"moveBoxContent", "seedDropItems", "seedEquipment", "seedDropBoxes"}
    BY <1>6
  <2> HIDE DEF asks7, asks8
  <2> QED
    BY <2>1
<1> HIDE DEF asks1, asks2, asks3, asks4, asks5, asks6, asks7, asks8
<1> QED
  BY <1>1, <1>2, <1>3, <1>4, <1>5, <1>6

ItemsEnds(t, q) ==
  /\ q.op = "createDropItem" => EndsItems(t, itemCreate(t, q), {"none", "DropItemExists"})
  /\ q.op = "updateDropItem" => EndsItems(t, itemUpdate(t, q), {"none", "unknown"})
  /\ EndsItems(t, In(t, "items", Seeded(t.items, t.items, [k \in SeedKeys |-> SeedItem(k)])),
               {"none"})
  /\ q.op = "createEquipment" => \A problem \in NameProblems(t, None, q.key, q.name) :
       EndsItems(t, equipmentCreate(t, q, problem),
                 {"none", "EquipmentItemExists", "EquipmentNameTaken", "DropItemKeyMismatch"})
  /\ q.op = "updateEquipment" => \A problem \in NameProblems(t, q.key, q.key, q.name) :
       EndsItems(t, equipmentUpdate(t, t, q, problem),
                 {"none", "unknown", "EquipmentNameTaken", "DropItemKeyMismatch"})
  /\ EndsItems(t, In(t, "equipment", Seeded(t.equipment, t.equipment, One(1, 2))), {"none"})
  /\ q.op = "createDropBox" =>
       EndsItems(t, boxCreate(t, t, q), {"none", "NoDropItem", "DropBoxExists"})
  /\ q.op = "setDropBoxLevels" => EndsItems(t, boxSetLevels(t, q), {"none", "unknown"})
  /\ q.op = "addBoxContent" =>
       EndsItems(t, boxContentAdd(t, t, q), {"none", "unknown", "NoDropItem", "ContentExists"})
  /\ EndsItems(t, boxContentRemove(t, t, q), {"none", "unknown"})
  /\ EndsItems(t, boxContentMove(t, t, q), {"none", "unknown"})
  /\ EndsItems(t, boxesSeed(t, t), {"none", "missing"})

LEMMA ItemsOutcomes ==
  ASSUME NEW t, GoodItems(t), NEW q \in ItemsAsked
  PROVE  ItemsEnds(t, q)
<1>0. /\ Placed(ContentsRow) /\ FewKeys \in SUBSET Keys /\ Keys \in SUBSET Keys
      /\ {1, 2} \subseteq Texts /\ {1, 2} \subseteq Names /\ Names \subseteq Nat /\ 1 \in FewKeys
      /\ SeedKeys \subseteq Keys /\ SeedKeys \subseteq Nat /\ None \notin FewKeys
  BY RowsPlaced, SeedOrdered, CatalogueAssumption
<1>t. /\ DOMAIN t = {"items", "boxes", "equipment"}
      /\ IsTable(t.items, Keys, DropItemRow) /\ BoxesFit(t.boxes, DOMAIN t.items)
      /\ IsTable(t.equipment, FewKeys, EquipmentRow) /\ NamesDiffer(t.equipment)
  BY DEF GoodItems
<1>k. \A e : EndsItems(t, Kept(t), {"none"}) /\ EndsItems(t, Failed(t, e), {e})
             /\ EndsItems(t, Unknown(t), {"unknown"})
  BY DEF EndsItems, Kept, Failed, Unknown
<1>1. ASSUME q.op = "createDropItem"
      PROVE  EndsItems(t, itemCreate(t, q), {"none", "DropItemExists"})
  <2> DEFINE row == [name |-> q.name, text |-> q.text,
                     bound |-> IF q.bound = Absent THEN FALSE ELSE q.bound]
             out == Inserted(t.items, One(q.key, row), "DropItemExists")
  <2>1. /\ q.key \in Keys /\ q.name \in Names /\ q.text \in Texts
        /\ q.bound \in {Absent, TRUE}
    BY <1>1, ItemsAsking
  <2>2. row \in DropItemRow
    BY <1>0, <2>1 DEF DropItemRow
  <2>3. itemCreate(t, q) = In(t, "items", out)
    BY DEF itemCreate
  <2> HIDE DEF row
  <2>4. IsOut(out) /\ out.error \in {"none", "DropItemExists"}
    BY OutsAreOuts DEF Inserted, Wrote, Failed
  <2>5. IsTable(out.now, Keys, DropItemRow) /\ DOMAIN t.items \subseteq DOMAIN out.now
    BY <1>t, <2>1, <2>2 DEF IsTable, Inserted, Wrote, Failed, Join, One
  <2> HIDE DEF out
  <2> QED
    BY <2>3, <2>4, <2>5, ItemsPart
<1>2. ASSUME q.op = "updateDropItem"
      PROVE  EndsItems(t, itemUpdate(t, q), {"none", "unknown"})
  <2> DEFINE row == [name |-> q.name, text |-> q.text,
                     bound |-> IF q.bound = Absent THEN t.items[q.key].bound ELSE q.bound]
             out == IF q.key \in DOMAIN t.items THEN Wrote([t.items EXCEPT ![q.key] = row])
                    ELSE Unknown(t.items)
  <2>1. q.name \in Names /\ q.text \in Texts /\ q.bound \in {Absent, TRUE}
    BY <1>2, ItemsAsking
  <2>2. q.key \in DOMAIN t.items => row \in DropItemRow
    BY <1>0, <1>t, <2>1 DEF DropItemRow, IsTable
  <2>3. itemUpdate(t, q) = In(t, "items", out)
    BY DEF itemUpdate, Updated
  <2> HIDE DEF row
  <2>4. IsOut(out) /\ out.error \in {"none", "unknown"}
    BY OutsAreOuts DEF Wrote, Unknown, Failed
  <2>5. IsTable(out.now, Keys, DropItemRow) /\ DOMAIN t.items \subseteq DOMAIN out.now
    BY <1>t, <2>2 DEF IsTable, Wrote, Unknown, Failed
  <2> HIDE DEF out
  <2> QED
    BY <2>3, <2>4, <2>5, ItemsPart
<1>3. EndsItems(t, In(t, "items", Seeded(t.items, t.items, [k \in SeedKeys |-> SeedItem(k)])),
                {"none"})
  <2> DEFINE seed == [k \in SeedKeys |-> SeedItem(k)]
             out == Seeded(t.items, t.items, seed)
  <2>1. IsTable(seed, Keys, DropItemRow)
    BY <1>0 DEF IsTable, SeedItem, DropItemRow
  <2> HIDE DEF seed
  <2>2. IsOut(out) /\ out.error \in {"none"}
    BY OutsAreOuts DEF Seeded, Inserted, Kept, Wrote, Failed
  <2>3. IsTable(out.now, Keys, DropItemRow) /\ DOMAIN t.items \subseteq DOMAIN out.now
    BY <1>t, <2>1 DEF IsTable, Seeded, Inserted, Kept, Wrote, Failed, Join
  <2> HIDE DEF out
  <2> QED
    BY <2>2, <2>3, ItemsPart DEF out, seed
<1>4. ASSUME q.op = "createEquipment", NEW problem \in NameProblems(t, None, q.key, q.name)
      PROVE  EndsItems(t, equipmentCreate(t, q, problem),
                       {"none", "EquipmentItemExists", "EquipmentNameTaken", "DropItemKeyMismatch"})
  <2> DEFINE out == Inserted(t.equipment, One(q.key, q.name), "EquipmentItemExists")
  <2>1. q.key \in FewKeys /\ q.name \in Names
    BY <1>4, ItemsAsking
  <2>2. /\ problem \in {"none", "EquipmentNameTaken", "DropItemKeyMismatch"}
        /\ problem = "none" => ~ CalledLike(t, None, q.name)
    BY NamePasses
  <2>3. \/ equipmentCreate(t, q, problem) = Failed(t, "EquipmentItemExists")
        \/ problem # "none" /\ equipmentCreate(t, q, problem) = Failed(t, problem)
        \/ problem = "none" /\ equipmentCreate(t, q, problem) = In(t, "equipment", out)
    BY DEF equipmentCreate
  <2>4. CASE problem = "none" /\ equipmentCreate(t, q, problem) = In(t, "equipment", out)
    <3>1. \A k \in DOMAIN t.equipment : Comparable(t.equipment[k]) # Comparable(q.name)
      BY <1>0, <1>t, <2>2, <2>4 DEF CalledLike, IsTable
    <3>2. IsOut(out) /\ out.error \in {"none", "EquipmentItemExists"}
      BY OutsAreOuts DEF Inserted, Wrote, Failed
    <3>3. IsTable(out.now, FewKeys, EquipmentRow) /\ NamesDiffer(out.now)
      <4>1. out.now = t.equipment \/ (q.key \notin DOMAIN t.equipment
                                      /\ out.now = Join(t.equipment, One(q.key, q.name)))
        BY DEF Inserted, Wrote, Failed, One
      <4> HIDE DEF out
      <4>2. CASE out.now = t.equipment
        BY <1>t, <4>2
      <4>3. CASE q.key \notin DOMAIN t.equipment /\ out.now = Join(t.equipment, One(q.key, q.name))
        <5>1. /\ DOMAIN out.now = DOMAIN t.equipment \cup {q.key} /\ out.now[q.key] = q.name
              /\ \A k \in DOMAIN t.equipment : out.now[k] = t.equipment[k]
          BY <4>3 DEF Join, One
        <5> QED
          BY <1>t, <2>1, <3>1, <5>1 DEF IsTable, EquipmentRow, NamesDiffer
      <4> QED
        BY <4>1, <4>2, <4>3
    <3> HIDE DEF out
    <3>4. EndsItems(t, In(t, "equipment", out), {"none", "EquipmentItemExists"})
      BY <3>2, <3>3, ItemsPart
    <3> QED
      BY <2>4, <3>4 DEF EndsItems
  <2> QED
    BY <1>k, <2>2, <2>3, <2>4 DEF EndsItems
<1>5. ASSUME q.op = "updateEquipment", NEW problem \in NameProblems(t, q.key, q.key, q.name)
      PROVE  EndsItems(t, equipmentUpdate(t, t, q, problem),
                       {"none", "unknown", "EquipmentNameTaken", "DropItemKeyMismatch"})
  <2> DEFINE new == [t.equipment EXCEPT ![q.key] = q.name]
  <2>1. q.name \in Names
    BY <1>5, ItemsAsking
  <2>2. /\ problem \in {"none", "EquipmentNameTaken", "DropItemKeyMismatch"}
        /\ problem = "none" => ~ CalledLike(t, q.key, q.name) /\ ~ SameName(t, q.key, q.name)
    BY NamePasses
  <2>3. \/ equipmentUpdate(t, t, q, problem) = Unknown(t)
        \/ problem # "none" /\ equipmentUpdate(t, t, q, problem) = Failed(t, problem)
        \/ /\ problem = "none" /\ q.key \in DOMAIN t.equipment
           /\ equipmentUpdate(t, t, q, problem) = In(t, "equipment", Wrote(new))
    BY <2>2 DEF equipmentUpdate, Updated
  <2>4. CASE /\ problem = "none" /\ q.key \in DOMAIN t.equipment
             /\ equipmentUpdate(t, t, q, problem) = In(t, "equipment", Wrote(new))
    <3>1. \A k \in DOMAIN t.equipment \ {q.key} : Comparable(t.equipment[k]) # Comparable(q.name)
      BY <2>2, <2>4 DEF CalledLike
    <3>2. IsOut(Wrote(new)) /\ Wrote(new).error = "none" /\ Wrote(new).now = new
      BY OutsAreOuts DEF Wrote
    <3>3. IsTable(new, FewKeys, EquipmentRow) /\ NamesDiffer(new)
      BY <1>t, <2>1, <2>4, <3>1 DEF IsTable, EquipmentRow, NamesDiffer
    <3> HIDE DEF new
    <3>4. EndsItems(t, In(t, "equipment", Wrote(new)), {"none"})
      BY <3>2, <3>3, ItemsPart
    <3> QED
      BY <2>4, <3>4 DEF EndsItems
  <2> QED
    BY <1>k, <2>2, <2>3, <2>4 DEF EndsItems
<1>6. EndsItems(t, In(t, "equipment", Seeded(t.equipment, t.equipment, One(1, 2))), {"none"})
  <2> DEFINE out == Seeded(t.equipment, t.equipment, One(1, 2))
  <2>1. IsOut(out) /\ out.error \in {"none"}
    BY OutsAreOuts DEF Seeded, Inserted, Kept, Wrote, Failed
  <2>2. IsTable(out.now, FewKeys, EquipmentRow) /\ NamesDiffer(out.now)
    BY <1>0, <1>t DEF IsTable, EquipmentRow, NamesDiffer, Seeded, Inserted, Kept, Wrote, Failed,
                      Join, One
  <2> HIDE DEF out
  <2> QED
    BY <2>1, <2>2, ItemsPart DEF out
<1>7. ASSUME q.op = "createDropBox"
      PROVE  EndsItems(t, boxCreate(t, t, q), {"none", "NoDropItem", "DropBoxExists"})
  <2> DEFINE row == [text |-> q.text, contents |-> <<>>]
             out == Inserted(t.boxes, One(q.box, row), "DropBoxExists")
  <2>1. q.box \in FewKeys /\ q.text \in Texts
    BY <1>7, ItemsAsking
  <2>2. \/ boxCreate(t, t, q) = Failed(t, "NoDropItem")
        \/ q.box \in DOMAIN t.items /\ boxCreate(t, t, q) = In(t, "boxes", out)
    BY DEF boxCreate
  <2>3. GoodBox(row, DOMAIN t.items)
    <3>1. Ordered(<<>>, Keys, ContentsRow)
      BY DEF Ordered, IsTable, OrdersDiffer
    <3> QED
      BY <2>1, <3>1 DEF GoodBox, BoxColumns
  <2> HIDE DEF row
  <2>4. IsOut(out) /\ out.error \in {"none", "DropBoxExists"}
    BY OutsAreOuts DEF Inserted, Wrote, Failed
  <2>5. q.box \in DOMAIN t.items => BoxesFit(out.now, DOMAIN t.items)
    BY <1>t, <2>1, <2>3 DEF BoxesFit, Inserted, Wrote, Failed, Join, One
  <2> HIDE DEF out
  <2>6. q.box \in DOMAIN t.items => EndsItems(t, In(t, "boxes", out), {"none", "DropBoxExists"})
    BY <2>4, <2>5, ItemsPart
  <2> QED
    BY <1>k, <2>2, <2>6 DEF EndsItems
<1>8. ASSUME q.op = "setDropBoxLevels"
      PROVE  EndsItems(t, boxSetLevels(t, q), {"none", "unknown"})
  <2> DEFINE row == [t.boxes[q.box] EXCEPT !.text = q.text]
             out == IF q.box \in DOMAIN t.boxes THEN Wrote([t.boxes EXCEPT ![q.box] = row])
                    ELSE Unknown(t.boxes)
  <2>1. q.text \in Texts
    BY <1>8, ItemsAsking
  <2>2. boxSetLevels(t, q) = In(t, "boxes", out)
    BY DEF boxSetLevels, Updated
  <2>3. q.box \in DOMAIN t.boxes => GoodBox(row, DOMAIN t.items)
    BY <1>t, <2>1 DEF BoxesFit, GoodBox, BoxColumns
  <2> HIDE DEF row
  <2>4. IsOut(out) /\ out.error \in {"none", "unknown"}
    BY OutsAreOuts DEF Wrote, Unknown, Failed
  <2>5. BoxesFit(out.now, DOMAIN t.items)
    BY <1>t, <2>3 DEF BoxesFit, Wrote, Unknown, Failed
  <2> HIDE DEF out
  <2> QED
    BY <2>2, <2>4, <2>5, ItemsPart
<1>h. \A box \in DOMAIN t.boxes :
        Ordered(Held(t, box), Keys, ContentsRow) /\ DOMAIN Held(t, box) \subseteq DOMAIN t.items
  BY <1>t DEF BoxesFit, GoodBox, Held
<1>9. ASSUME q.op = "addBoxContent"
      PROVE  EndsItems(t, boxContentAdd(t, t, q), {"none", "unknown", "NoDropItem", "ContentExists"})
  <2> DEFINE held == Held(t, q.box)
             row == [order |-> NextOrder(held, DOMAIN held)]
             out == Inserted(held, One(q.item, row), "ContentExists")
  <2>1. q.item \in Keys
    BY <1>9, ItemsAsking
  <2>2. \/ boxContentAdd(t, t, q) \in {Unknown(t), Failed(t, "NoDropItem")}
        \/ /\ q.box \in DOMAIN t.boxes /\ q.item \in DOMAIN t.items
           /\ boxContentAdd(t, t, q) = InBox(t, q.box, out)
    BY DEF boxContentAdd
  <2>3. CASE boxContentAdd(t, t, q) \in {Unknown(t), Failed(t, "NoDropItem")}
    BY <1>k, <2>3 DEF EndsItems
  <2>4. CASE /\ q.box \in DOMAIN t.boxes /\ q.item \in DOMAIN t.items
             /\ boxContentAdd(t, t, q) = InBox(t, q.box, out)
    <3>1. Ordered(held, Keys, ContentsRow) /\ DOMAIN held \subseteq DOMAIN t.items
      BY <1>h, <2>4
    <3> HIDE DEF held
    <3>2. row \in ContentsRow /\ row.order = NextOrder(held, DOMAIN held)
      BY <1>0, <3>1, OrderedTables, NextOrderBehind DEF Ordered, HasOrders, ContentsRow
    <3> HIDE DEF row
    <3>3. Ends(out, Keys, ContentsRow, {"none", "ContentExists"})
      BY <1>0, <2>1, <3>1, <3>2, InsertedOrdered
    <3>4. DOMAIN out.now \subseteq DOMAIN t.items
      BY <2>4, <3>1 DEF Inserted, Wrote, Failed, Join, One
    <3> HIDE DEF out
    <3>5. EndsItems(t, InBox(t, q.box, out), {"none", "ContentExists"})
      BY <2>4, <3>3, <3>4, InBoxPart
    <3> QED
      BY <2>4, <3>5 DEF EndsItems
  <2> QED
    BY <2>2, <2>3, <2>4
<1>10. EndsItems(t, boxContentRemove(t, t, q), {"none", "unknown"})
  <2> DEFINE held == Held(t, q.box)
             out == Wrote(Without(held, {q.item}))
  <2>1. \/ boxContentRemove(t, t, q) = Unknown(t)
        \/ q.box \in DOMAIN t.boxes /\ boxContentRemove(t, t, q) = InBox(t, q.box, out)
    BY DEF boxContentRemove, Holds
  <2>2. ASSUME q.box \in DOMAIN t.boxes PROVE EndsItems(t, InBox(t, q.box, out), {"none"})
    <3>1. Ordered(held, Keys, ContentsRow) /\ DOMAIN held \subseteq DOMAIN t.items
      BY <1>h, <2>2
    <3> HIDE DEF held
    <3>2. Ordered(Without(held, {q.item}), Keys, ContentsRow)
      BY <3>1 DEF Ordered, IsTable, OrdersDiffer, Without
    <3>3. Ends(out, Keys, ContentsRow, {"none"}) /\ DOMAIN out.now \subseteq DOMAIN t.items
      BY <3>1, <3>2, OutsAreOuts DEF Ends, Wrote, Without
    <3> HIDE DEF out
    <3> QED
      BY <2>2, <3>3, InBoxPart
  <2> HIDE DEF out
  <2> QED
    BY <1>k, <2>1, <2>2 DEF EndsItems
<1>11. EndsItems(t, boxContentMove(t, t, q), {"none", "unknown"})
  <2> DEFINE held == Held(t, q.box)
             out == Moved(held, held, DOMAIN held, q.item, q.dir)
  <2>1. \/ boxContentMove(t, t, q) = Unknown(t)
        \/ q.box \in DOMAIN t.boxes /\ boxContentMove(t, t, q) = InBox(t, q.box, out)
    BY DEF boxContentMove, Holds
  <2>2. ASSUME q.box \in DOMAIN t.boxes PROVE EndsItems(t, InBox(t, q.box, out), {"none", "unknown"})
    <3>1. Ordered(held, Keys, ContentsRow) /\ DOMAIN held \subseteq DOMAIN t.items
      BY <1>h, <2>2
    <3> HIDE DEF held
    <3>2. Ends(out, Keys, ContentsRow, {"none", "unknown"})
      BY <1>0, <3>1, MovedOrdered
    <3>3. DOMAIN out.now \subseteq DOMAIN t.items
      BY <3>1 DEF Moved, Wrote, Kept, Unknown, Failed
    <3> HIDE DEF out
    <3> QED
      BY <2>2, <3>2, <3>3, InBoxPart
  <2> HIDE DEF out
  <2> QED
    BY <1>k, <2>1, <2>2 DEF EndsItems
<1>12. EndsItems(t, boxesSeed(t, t), {"none", "missing"})
  <2> DEFINE inside == One(2, [order |-> 0])
             row == [text |-> 1, contents |-> inside]
             out == Inserted(t.boxes, One(1, row), "unique")
  <2>1. \/ boxesSeed(t, t) \in {Kept(t), Failed(t, "missing")}
        \/ /\ DOMAIN t.boxes = {} /\ {1, 2} \subseteq DOMAIN t.items
           /\ boxesSeed(t, t) = In(t, "boxes", out)
    BY DEF boxesSeed
  <2>2. CASE boxesSeed(t, t) \in {Kept(t), Failed(t, "missing")}
    BY <1>k, <2>2 DEF EndsItems
  <2>3. CASE /\ DOMAIN t.boxes = {} /\ {1, 2} \subseteq DOMAIN t.items
             /\ boxesSeed(t, t) = In(t, "boxes", out)
    <3>1. Ordered(inside, Keys, ContentsRow) /\ DOMAIN inside = {2}
      BY <1>t, <2>3 DEF Ordered, IsTable, OrdersDiffer, One, ContentsRow
    <3> HIDE DEF inside
    <3>2. GoodBox(row, DOMAIN t.items)
      BY <1>0, <2>3, <3>1 DEF GoodBox, BoxColumns
    <3> HIDE DEF row
    <3>3. out.now = Join(t.boxes, One(1, row)) /\ out.error = "none" /\ IsOut(out)
      BY <2>3, OutsAreOuts DEF Inserted, Wrote
    <3>4. BoxesFit(Join(t.boxes, One(1, row)), DOMAIN t.items)
      BY <1>0, <2>3, <3>2 DEF BoxesFit, Join, One
    <3> HIDE DEF out
    <3>5. EndsItems(t, In(t, "boxes", out), {"none"})
      BY <3>3, <3>4, ItemsPart
    <3> QED
      BY <2>3, <3>5 DEF EndsItems
  <2> QED
    BY <2>1, <2>2, <2>3
<1> QED
  BY <1>1, <1>2, <1>3, <1>4, <1>5, <1>6, <1>7, <1>8, <1>9, <1>10, <1>11, <1>12 DEF ItemsEnds

LEMMA ItemsStep ==
  ASSUME GoodItems(items), NEW r, Q(r) \in ItemsAsked, Seen(r) = items,
         \/ CreateDropItem(r) \/ UpdateDropItem(r) \/ SeedDropItems(r) \/ CreateEquipment(r)
         \/ UpdateEquipment(r) \/ SeedEquipment(r) \/ CreateDropBox(r) \/ SetDropBoxLevels(r)
         \/ AddBoxContent(r) \/ RemoveBoxContent(r) \/ MoveBoxContent(r) \/ SeedDropBoxes(r)
  PROVE  /\ GoodItems(items') /\ answer'.status \in Told /\ DOMAIN items.items \subseteq DOMAIN items'.items
<1>0. ItemsEnds(items, Q(r))
  BY ItemsOutcomes
<1>1. CASE CreateDropItem(r)
  BY <1>0, <1>1, CloseTells
     DEF CreateDropItem, OnItems, Asked, Q, Pictured, Failed, ItemsEnds, EndsItems, Caught, Told
<1>2. CASE UpdateDropItem(r)
  BY <1>0, <1>2, CloseTells, CodesTold
     DEF UpdateDropItem, OnItems, Asked, Q, Pictured, Failed, ItemsEnds, EndsItems, Caught
<1>3. CASE SeedDropItems(r)
  BY <1>0, <1>3, CloseTells, CodesTold
     DEF SeedDropItems, OnItems, Asked, Q, ItemsEnds, EndsItems, Caught
<1>4. CASE CreateEquipment(r)
  BY <1>0, <1>4, CloseTells
     DEF CreateEquipment, OnItems, Asked, Q, Pictured, Failed, ItemsEnds, EndsItems, Caught, Told,
         EquipmentCodes
<1>5. CASE UpdateEquipment(r)
  BY <1>0, <1>5, CloseTells
     DEF UpdateEquipment, OnItems, Asked, Q, Pictured, Failed, ItemsEnds, EndsItems, Caught, Told,
         EquipmentCodes
<1>6. CASE SeedEquipment(r)
  BY <1>0, <1>6, CloseTells, CodesTold
     DEF SeedEquipment, OnItems, Asked, Q, ItemsEnds, EndsItems, Caught
<1>7. CASE CreateDropBox(r)
  BY <1>0, <1>7, CloseTells
     DEF CreateDropBox, OnItems, Asked, Q, ItemsEnds, EndsItems, Caught, Told
<1>8. CASE SetDropBoxLevels(r)
  BY <1>0, <1>8, CloseTells, CodesTold
     DEF SetDropBoxLevels, OnItems, Asked, Q, ItemsEnds, EndsItems, Caught
<1>9. CASE AddBoxContent(r)
  BY <1>0, <1>9, CloseTells
     DEF AddBoxContent, OnItems, Asked, Q, ItemsEnds, EndsItems, Caught, Told
<1>10. CASE RemoveBoxContent(r)
  BY <1>0, <1>10, CloseTells, CodesTold
     DEF RemoveBoxContent, OnItems, Asked, Q, ItemsEnds, EndsItems, Caught
<1>11. CASE MoveBoxContent(r)
  BY <1>0, <1>11, CloseTells, CodesTold
     DEF MoveBoxContent, OnItems, Asked, Q, ItemsEnds, EndsItems, Caught
<1>12. CASE SeedDropBoxes(r)
  BY <1>0, <1>12, CloseTells, CodesTold
     DEF SeedDropBoxes, OnItems, Asked, Q, ItemsEnds, EndsItems, Caught
<1> QED
  BY <1>1, <1>2, <1>3, <1>4, <1>5, <1>6, <1>7, <1>8, <1>9, <1>10, <1>11, <1>12

=============================================================================
