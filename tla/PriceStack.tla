----------------------------- MODULE PriceStack -----------------------------
(***************************************************************************)
(* What dated prices promise: every thing has a stack of the days its      *)
(* prices start on, and only the top of it ever changes.  A new price      *)
(* starts after the one of now, the price of now can be taken back, and    *)
(* what is below stays.  A start may lie in the past: then the days from   *)
(* it on read another price, and only those before it keep theirs.         *)
(*                                                                         *)
(* No two prices of a thing start on one day, so a stack is the set of its *)
(* days and its top the latest of them.  Day 0 is the beginning of time, a *)
(* price without a start.                                                  *)
(***************************************************************************)
EXTENDS Naturals

CONSTANTS Things, Days

VARIABLE stacks   \* thing -> days

AllDays == {0} \cup Days

Same(t) == stacks'[t] = stacks[t]

Init == stacks \in [Things -> SUBSET AllDays]

\* One start for prices of several things at once, above what each of them has.
Push == \E day \in AllDays : \A t \in Things :
  \/ Same(t)
  \/ /\ \A below \in stacks[t] : below < day
     /\ stacks'[t] = stacks[t] \cup {day}

Pop == \E t \in Things : \E top \in stacks[t] :
  /\ \A below \in stacks[t] : below <= top
  /\ stacks'[t] = stacks[t] \ {top}
  /\ \A other \in Things \ {t} : Same(other)

\* The thing is gone, and its prices with it.
Clear == \E t \in Things :
  stacks'[t] = {} /\ \A other \in Things \ {t} : Same(other)

\* The first prices, all at once.
Fill == \A t \in Things :
  Same(t) \/ (stacks[t] = {} /\ stacks'[t] \subseteq AllDays)

Next == Push \/ Pop \/ Clear \/ Fill

Spec == Init /\ [][Next]_stacks

=============================================================================
