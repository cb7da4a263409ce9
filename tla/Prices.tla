-------------------------------- MODULE Prices --------------------------------
(***************************************************************************)
(* Rows of dated prices (crystal-prices.repository.ts,                     *)
(* symbol-costs.repository.ts).  Of one thing there are rows               *)
(* [from, until]; the row without an end is the price of now.  A new price *)
(* closes it, and the price of now can be taken back, which opens the row  *)
(* before it again.  A day is a number; no day is None.                    *)
(***************************************************************************)
EXTENDS Catalogue

Row(from, until) == [from |-> from, until |-> until]

Standing(rows) == {x \in rows : x.until = None}

\* Mutant: any day will do.
StartsSomewhere(from, row) == from # None

\* Text compared with text: a row without a start began before every day.
StartsAfter(from, row) == from # None /\ (row.from = None \/ from > row.from)

\* The rows K get another end.
Ending(rows, K, day) == (rows \ K) \cup {Row(x.from, day) : x \in K}

\* Two rows never start on the same day: a unique violation.
SameStart(rows, from) == \E x \in rows : x.from = from

\* Mutant: the row of now is not closed.
OpenedBeside(rows, open, from) == rows \cup {Row(from, None)}

\* The rows read as standing end where the new one starts.
Opened(rows, open, from) ==
  Ending(rows, {x \in rows : \E o \in open : o.from = x.from}, from) \cup {Row(from, None)}

BeforeRow(rows, row) == IF row.from = None THEN {} ELSE {x \in rows : x.until = row.from}

\* The row before the one taken back stands again.
TakenBack(rows, row) == Ending(rows \ {row}, BeforeRow(rows, row), None)

\* The row in force on a day: an app takes the one that holds it.
InForce(rows, day) ==
  {x \in rows : (x.from = None \/ x.from <= day) /\ (x.until = None \/ day < x.until)}

=============================================================================
