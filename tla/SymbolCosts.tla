------------------------------ MODULE SymbolCosts ------------------------------
(***************************************************************************)
(* Groups of symbols, symbols, and what each of their levels costs since   *)
(* which day.  An app sums the costs of levels, so from 1 up to the top    *)
(* level there is no gap.                                                  *)
(***************************************************************************)
EXTENDS Prices

VARIABLE symbols
  \* [groups: key -> [text, max, order], symbols: key -> [group, text, order],
  \*  costs: <<symbol, level>> -> set of dated rows]

TopLevels == {2, 3}
Levels    == 1..3

NoSymbols == [groups |-> <<>>, symbols |-> <<>>, costs |-> <<>>]
\* One group of one symbol, whose levels up to top have a cost.
SymbolsReady(top) ==
  [groups  |-> One(1, [text |-> 1, max |-> 3, order |-> 0]),
   symbols |-> One(1, [group |-> 1, text |-> 1, order |-> 0]),
   costs   |-> [p \in {1} \X (1..top) |-> {Row(None, None)}]]

SymbolGroupRow == [text : Texts, max : TopLevels, order : Nat]
SymbolRow      == [group : FewKeys, text : Texts, order : Nat]
LevelCostRow   == [from : Days \cup {None}, until : Days \cup {None}]

SymbolsTypeOK ==
  /\ IsTable(symbols.groups, FewKeys, SymbolGroupRow)
  /\ IsTable(symbols.symbols, FewKeys, SymbolRow)
  /\ IsTable(symbols.costs, FewKeys \X Levels, (SUBSET LevelCostRow) \ {{}})

SymbolRequests ==
  [op : {"createSymbolGroup", "updateSymbolGroup"}, key : FewKeys, text : {2}, max : {2}]
    \cup [op : {"createSymbol"}, key : FewKeys, group : FewKeys, text : {2}]
    \cup [op : {"updateSymbol"}, key : FewKeys, text : {2}]
    \cup [op : {"moveSymbol"}, key : FewKeys, dir : Dirs]
    \cup {[op |-> "seedSymbolCosts"]}

SymbolCostRequests ==
  [op : {"updateSymbolGroup"}, key : {1}, text : {1}, max : TopLevels]
    \cup [op : {"addSymbolCosts"}, key : FewKeys, from : Days \cup {None},
          levels : (SUBSET Levels) \ {{}}]
    \cup [op : {"removeSymbolCost"}, symbol : FewKeys, level : Levels, from : Days \cup {None}]

SymbolsOf(t, group) == {k \in DOMAIN t.symbols : t.symbols[k].group = group}

AskSymbols(r, requests) == \E q \in requests : Ask(r, q, symbols) /\ UNCHANGED symbols

-----------------------------------------------------------------------------
(* Groups and symbols. *)

symbolGroupCreate(seen, now, q) ==
  In(now, "groups",
     Inserted(now.groups,
       One(q.key, [text |-> q.text, max |-> q.max,
                   order |-> NextOrder(seen.groups, DOMAIN seen.groups)]), "SymbolGroupExists"))

symbolGroupUpdate(seen, now, q) ==
  IF q.key \notin DOMAIN seen.groups THEN Unknown(now)
  ELSE IF \E p \in DOMAIN seen.costs :
            /\ p[1] \in SymbolsOf(seen, q.key) /\ p[2] >= q.max /\ seen.costs[p] # {}
       THEN Failed(now, "LevelsAboveMax")
  ELSE Wrote([now EXCEPT !.groups[q.key].text = q.text, !.groups[q.key].max = q.max])

symbolCreate(seen, now, q) ==
  IF q.group \notin DOMAIN seen.groups THEN Failed(now, "NoSymbolGroup")
  ELSE In(now, "symbols",
          Inserted(now.symbols,
            One(q.key, [group |-> q.group, text |-> q.text,
                        order |-> NextOrder(seen.symbols, SymbolsOf(seen, q.group))]),
            "SymbolExists"))

symbolUpdate(now, q) ==
  In(now, "symbols", Updated(now.symbols, q.key, LAMBDA row : [row EXCEPT !.text = q.text]))

symbolMove(seen, now, q) ==
  IF q.key \notin DOMAIN seen.symbols THEN Unknown(now)
  ELSE In(now, "symbols",
          Moved(seen.symbols, now.symbols, SymbolsOf(seen, seen.symbols[q.key].group),
                q.key, q.dir))

-----------------------------------------------------------------------------
(* Costs. *)

RowsOf(t, symbol, level) ==
  IF <<symbol, level>> \in DOMAIN t.costs THEN t.costs[symbol, level] ELSE {}

StandingLevels(t, symbol) == {l \in Levels : Standing(RowsOf(t, symbol, l)) # {}}

\* What of the rows of a symbol is left when some of its levels have new rows.
WithCosts(now, symbol, levels, rows(_)) ==
  [now EXCEPT !.costs = Join(@, [p \in {symbol} \X levels |-> rows(p[2])])]

\* The top level is read before the transaction, the standing rows in it.
costsAdd(seen, now, q) ==
  LET max   == seen.groups[seen.symbols[q.key].group].max
      open(l) == Standing(RowsOf(seen, q.key, l))
      after == WithCosts(now, q.key, q.levels,
                         LAMBDA l : Opened(RowsOf(now, q.key, l), open(l), q.from))
  IN IF q.key \notin DOMAIN seen.symbols THEN Failed(now, "NoSymbol")
     ELSE IF ~ q.levels \subseteq 1..(max - 1) THEN Failed(now, "LevelOutOfRange")
     ELSE IF \E l \in q.levels : \E x \in open(l) :
               ~ StartsAfter(q.from, x)
          THEN Failed(now, "NotAfterCurrent")
     ELSE IF \E l \in q.levels : SameStart(RowsOf(now, q.key, l), q.from)
          THEN Failed(now, "unique")
     ELSE IF ~ 1..(max - 1) \subseteq StandingLevels(after, q.key)
          THEN Failed(now, "LevelsIncomplete")
     ELSE Wrote(after)

\* Mutant: the only row of a level may go.
OnlyRowRemoved(now, q) ==
  LET named == {x \in RowsOf(now, q.symbol, q.level) : x.from = q.from}
      row   == CHOOSE x \in named : TRUE
  IN IF named = {} THEN Unknown(now)
     ELSE IF row.until # None THEN Failed(now, "NotLatest")
     ELSE Wrote(WithCosts(now, q.symbol, {q.level},
                          LAMBDA l : TakenBack(RowsOf(now, q.symbol, q.level), row)))

\* A row is named by its id: here by its level and the day it starts on.
costRemove(now, q) ==
  LET rows  == RowsOf(now, q.symbol, q.level)
      named == {x \in rows : x.from = q.from}
      row   == CHOOSE x \in named : TRUE
  IN IF named = {} THEN Unknown(now)
     ELSE IF row.until # None THEN Failed(now, "NotLatest")
     ELSE IF BeforeRow(rows, row) = {} THEN Failed(now, "OnlyRow")
     ELSE Wrote(WithCosts(now, q.symbol, {q.level}, LAMBDA l : TakenBack(rows, row)))

\* All three tables, when there is no group: two groups, a symbol in each, each level one row.
symbolsSeed(seen, now) ==
  IF DOMAIN seen.groups # {} THEN Kept(now)
  ELSE IF DOMAIN now.groups \cap SeedKeys # {} THEN Failed(now, "unique")
  ELSE Wrote([groups  |-> Join(now.groups,
                            [k \in SeedKeys |-> [text |-> 1, max |-> 2, order |-> k - 1]]),
              symbols |-> Join(now.symbols,
                            [k \in SeedKeys |-> [group |-> k, text |-> 1, order |-> 0]]),
              costs   |-> Join(now.costs, [p \in SeedKeys \X {1} |-> {Row(None, None)}])])

-----------------------------------------------------------------------------
OnSymbols(r, op, out, codes) ==
  Asked(r, op) /\ symbols' = out.now /\ Close(r, "symbolCosts", out, codes) /\ UNCHANGED assets

CreateSymbolGroup(r) ==
  OnSymbols(r, "createSymbolGroup", symbolGroupCreate(Seen(r), symbols, Q(r)),
            [SymbolGroupExists |-> 409])
UpdateSymbolGroup(r) ==
  OnSymbols(r, "updateSymbolGroup", symbolGroupUpdate(Seen(r), symbols, Q(r)),
            [LevelsAboveMax |-> 409])
CreateSymbol(r) ==
  OnSymbols(r, "createSymbol", Pictured(r, Q(r).text, symbols, symbolCreate(Seen(r), symbols, Q(r))),
            [NoSymbolGroup |-> 404, SymbolExists |-> 409])
UpdateSymbol(r) ==
  OnSymbols(r, "updateSymbol", Pictured(r, Q(r).text, symbols, symbolUpdate(symbols, Q(r))), NoCodes)
MoveSymbol(r) == OnSymbols(r, "moveSymbol", symbolMove(Seen(r), symbols, Q(r)), NoCodes)
AddSymbolCosts(r) ==
  OnSymbols(r, "addSymbolCosts", costsAdd(Seen(r), symbols, Q(r)),
            [NoSymbol |-> 404, LevelOutOfRange |-> 400, LevelsIncomplete |-> 400,
             NotAfterCurrent |-> 400])
RemoveSymbolCost(r) ==
  OnSymbols(r, "removeSymbolCost", costRemove(symbols, Q(r)), [NotLatest |-> 409, OnlyRow |-> 409])
SeedSymbolCosts(r) == OnSymbols(r, "seedSymbolCosts", symbolsSeed(Seen(r), symbols), SeedCodes)

SymbolsNext(requests) == \E r \in Requests :
  \/ AskSymbols(r, requests) \/ CreateSymbolGroup(r) \/ UpdateSymbolGroup(r) \/ CreateSymbol(r)
  \/ UpdateSymbol(r) \/ MoveSymbol(r) \/ AddSymbolCosts(r) \/ RemoveSymbolCost(r)
  \/ SeedSymbolCosts(r)

SymbolsSection ==
  [groups  |-> [k \in DOMAIN symbols.groups |->
                  <<Place(symbols.groups, DOMAIN symbols.groups, k), symbols.groups[k].max>>],
   symbols |-> [k \in DOMAIN symbols.symbols |->
                  <<symbols.symbols[k].group,
                    Place(symbols.symbols, SymbolsOf(symbols, symbols.symbols[k].group), k)>>],
   costs   |-> symbols.costs]

=============================================================================
