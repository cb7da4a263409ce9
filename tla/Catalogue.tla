----------------------------- MODULE Catalogue -----------------------------
(***************************************************************************)
(* What the lists behind GET /v1/game-data have in common, from            *)
(* src/src/modules: an administrator's request is checked, reads tables,   *)
(* and then writes them and moves the time of its section in one           *)
(* transaction of PostgreSQL (READ COMMITTED).                             *)
(*                                                                         *)
(* A call is two steps: Ask reads what the handler reads before its first  *)
(* write, and the action named after the handler commits.  What the        *)
(* database checks by itself (keys, CHECKs, cascades) is checked at the    *)
(* commit, against the tables as they are then.  Seeding a section at      *)
(* deploy time is a call like any other.                                   *)
(*                                                                         *)
(* A table is a function from keys to rows.  A payload (name, icon, ...)   *)
(* is one value: the picture it refers to has the same number.             *)
(***************************************************************************)
EXTENDS FiniteSetsExt

CONSTANTS
  Requests,  \* requests served at one time
  NoCall,
  None,      \* SQL NULL
  Absent,    \* a field that is not in the body of a request
  Keys,      \* keys of rows
  FewKeys,   \* keys of rows of lists within lists
  Texts,     \* payloads
  Names,     \* names an app looks rows up by
  Days,      \* days dated prices may start on
  SeedSize,  \* a seed brings rows 1..SeedSize, in that order
  MaxOrder   \* bound: no row is added behind one of this order

ASSUME CatalogueAssumption ==
  /\ {None, Absent} \cap Nat = {}
  /\ Keys \subseteq Nat \ {0} /\ IsFiniteSet(Keys)   \* columns of a bounded width
  /\ FewKeys \subseteq Keys /\ SeedSize \in Nat \ {0} /\ 1..SeedSize \subseteq FewKeys
  /\ {1, 2} \subseteq Texts /\ {1, 2} \subseteq Names   \* what a seed brings, and another
  /\ Names \subseteq Nat
  /\ Days \subseteq Nat \ {0} /\ 1 \in Days
  /\ MaxOrder \in Nat

VARIABLES
  call,      \* what a request asked and what it read so far
  answer,    \* HTTP status (of a seeding: exit code) of the last step, sections whose time it moved
  assets     \* the table of pictures: path -> hash

base == <<call, answer>>

Dirs == {"up", "down"}
SeedKeys == 1..SeedSize
PlainSeed == [k \in SeedKeys |-> [text |-> 1, order |-> k - 1]]

NoAnswer == [status |-> 0, touched |-> {}]

CatalogueInit ==
  /\ call = [r \in Requests |-> NoCall]
  /\ answer = NoAnswer
  /\ \E paths \in {{1}, Texts} : assets = [p \in paths |-> 1]

-----------------------------------------------------------------------------
(* Rows and their order. *)

One(k, row)   == [x \in {k} |-> row]
Join(t, u)    == [x \in DOMAIN t \cup DOMAIN u |-> IF x \in DOMAIN u THEN u[x] ELSE t[x]]
Without(t, K) == [x \in DOMAIN t \ K |-> t[x]]

IsTable(t, K, R) == DOMAIN t \subseteq K /\ \A k \in DOMAIN t : t[k] \in R

\* The id a new row gets.  Ids tell rows apart and order nothing, so one free id stands for any.
Fresh(ids, t) == {i \in ids \ DOMAIN t : \A j \in ids \ DOMAIN t : i <= j}

\* Mutant: the place after n siblings is n.
CountedOrder(t, S) == Cardinality(S)

\* max(sort_order) ?? -1, and one more.
NextOrder(t, S) == IF S = {} THEN 0 ELSE 1 + Max({t[k].order : k \in S})

\* ORDER BY sort_order, key
Before(t, a, b) == t[a].order < t[b].order \/ (t[a].order = t[b].order /\ a < b)
Rank(t, S, k)   == Cardinality({n \in S : Before(t, n, k)})

Neighbours(t, S, k, dir) ==
  {n \in S : IF dir = "up" THEN Rank(t, S, n) + 1 = Rank(t, S, k)
                           ELSE Rank(t, S, n) = Rank(t, S, k) + 1}

-----------------------------------------------------------------------------
(* How a transaction ends: the rows it leaves, whether it moved the time of *)
(* its section, and the error it threw.  A repository that knows no such    *)
(* row returns false.                                                       *)

Wrote(now)      == [now |-> now, touched |-> TRUE,  error |-> "none"]
Kept(now)       == [now |-> now, touched |-> FALSE, error |-> "none"]
Failed(now, e)  == [now |-> now, touched |-> FALSE, error |-> e]
Unknown(now)    == Failed(now, "unknown")

\* Swap two neighbours.  At the end of the list nothing is written.
Moved(seen, now, S, k, dir) ==
  LET beside == Neighbours(seen, S, k, dir)
      other  == CHOOSE n \in beside : TRUE
      order(x) == IF x = k THEN seen[other].order ELSE seen[k].order
  IN IF k \notin S THEN Unknown(now)
     ELSE IF beside = {} THEN Kept(now)
     ELSE Wrote([x \in DOMAIN now |->
                   IF x \in {k, other} THEN [now[x] EXCEPT !.order = order(x)] ELSE now[x]])

\* Rows inserted under new keys; e is what a unique violation is thrown as.
Inserted(now, rows, e) ==
  IF DOMAIN now \cap DOMAIN rows # {} THEN Failed(now, e) ELSE Wrote(Join(now, rows))

\* Mutant: a seeding writes its rows over those that are there.
SeededAgain(seen, now, rows) == Wrote(Join(now, rows))

\* A seeding fills a table it found empty and leaves any other alone.
Seeded(seen, now, rows) ==
  IF DOMAIN seen # {} THEN Kept(now) ELSE Inserted(now, rows, "unique")

\* An update of one row by its key.
Updated(now, k, row(_)) ==
  IF k \in DOMAIN now THEN Wrote([now EXCEPT ![k] = row(@)]) ELSE Unknown(now)

-----------------------------------------------------------------------------
(* Calls. *)

Asked(r, op) == call[r] # NoCall /\ call[r].q.op = op
Q(r)         == call[r].q       \* the request
Seen(r)      == call[r].seen    \* the tables as it read them

\* The process or the connection goes: what was not committed is gone.
Cut(r) ==
  /\ call[r] # NoCall
  /\ call' = [call EXCEPT ![r] = NoCall]
  /\ answer' = NoAnswer
  /\ UNCHANGED assets

Ask(r, q, tables) ==
  /\ call[r] = NoCall
  /\ call' = [call EXCEPT ![r] = [q |-> q, seen |-> tables, pictures |-> DOMAIN assets]]
  /\ answer' = NoAnswer
  /\ UNCHANGED assets

\* requireAssets: what a payload draws has to be in the table of pictures.
Missing(r, text) == text \notin call[r].pictures
Pictured(r, text, now, out) == IF Missing(r, text) THEN Failed(now, "picture") ELSE out

\* The answer to an error a repository throws, by the handler's catch clauses.
Status(error, codes) ==
  CASE error = "none" -> 200
    [] error \in DOMAIN codes -> codes[error]
    [] error = "unknown" -> 404
    [] error = "picture" -> 400
    [] OTHER -> 500

NoCodes == [e \in {} |-> 500]

\* A seeding that throws ends the deploy's process with exit code 1.
SeedCodes == [unique |-> 1, missing |-> 1]

Close(r, section, out, codes) ==
  /\ call' = [call EXCEPT ![r] = NoCall]
  /\ answer' = [status  |-> Status(out.error, codes),
                touched |-> IF out.touched THEN {section} ELSE {}]

\* A transaction on one of several tables.
In(now, table, out) == [out EXCEPT !.now = [now EXCEPT ![table] = out.now]]

\* What an app shows of a row: what it says and its place.
Place(t, S, k) == <<t[k].text, Rank(t, S, k)>>
Shown(t) == [k \in DOMAIN t |-> Place(t, DOMAIN t, k)]

\* comparableApiName, comparableEquipmentName: 1 and 2 differ in spaces only.
Comparable(name) == IF name = 2 THEN 1 ELSE name

=============================================================================
