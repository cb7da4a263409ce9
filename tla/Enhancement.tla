------------------------------ MODULE Enhancement ------------------------------
(***************************************************************************)
(* What resetting potential and enhancing with star force cost.  The costs *)
(* of potential come in bands of equipment levels; an app takes the band   *)
(* below the level of an item, so the band from level 1 must be there.     *)
(* The steps of star force are counted from 0 without a gap.               *)
(***************************************************************************)
EXTENDS Catalogue

CONSTANTS MinLevels,  \* levels bands begin at, 1 among them
          MaxStar     \* bound: no step is added behind this one

ASSUME EnhancementAssumption == 1 \in MinLevels /\ MaxStar \in Nat \ {0}   \* a seed brings two

VARIABLE enhancement
  \* [rules: text or None, bands: min level -> text, soul: text or None, stars: star -> text]
  \* One type of potential and one grade stand for all: a row names its type and grade.

NoEnhancement == [rules |-> None, bands |-> <<>>, soul |-> None, stars |-> <<>>]

PotentialCostRow == Texts
SoulCostRow      == Texts
StarRow          == Texts

EnhancementTypeOK ==
  /\ enhancement.rules \in {None} \cup Texts
  /\ IsTable(enhancement.bands, MinLevels, PotentialCostRow)
  /\ enhancement.soul \in {None} \cup SoulCostRow
  /\ IsTable(enhancement.stars, 0..(MaxStar + 1), StarRow)

EnhancementRequests ==
  [op : {"setEnhancementRules", "setSoulPotentialResetCost", "addStarforceStep"}, text : {2}]
    \cup [op : {"setPotentialResetCost", "addPotentialResetBand"}, min : MinLevels, text : {2}]
    \cup [op : {"removePotentialResetBand"}, min : MinLevels]
    \cup [op : {"setStarforceStep"}, star : 0..MaxStar, text : {2}]
    \cup {[op |-> "removeLastStarforceStep"], [op |-> "seedEnhancementRules"]}

LastStar(t) == Max(DOMAIN t.stars)

AskEnhancement(r) == \E q \in EnhancementRequests :
  /\ (q.op = "addStarforceStep" /\ DOMAIN enhancement.stars # {}) => LastStar(enhancement) < MaxStar
  /\ Ask(r, q, enhancement) /\ UNCHANGED enhancement

Set(now, field, x) == Wrote([now EXCEPT ![field] = x])

rulesSet(now, q) == Set(now, "rules", q.text)
soulSet(now, q)  == Set(now, "soul", q.text)
costSet(now, q)  == In(now, "bands", Updated(now.bands, q.min, LAMBDA text : q.text))
bandAdd(now, q)  == In(now, "bands", Inserted(now.bands, One(q.min, q.text), "BandExists"))

bandRemove(now, q) ==
  IF q.min = 1 THEN Failed(now, "BaseBand")
  ELSE IF q.min \notin DOMAIN now.bands THEN Unknown(now)
  ELSE Set(now, "bands", Without(now.bands, {q.min}))

starSet(now, q) == In(now, "stars", Updated(now.stars, q.star, LAMBDA text : q.text))

starAdd(seen, now, q) ==
  LET star == IF DOMAIN seen.stars = {} THEN 0 ELSE LastStar(seen) + 1
  IN In(now, "stars", Inserted(now.stars, One(star, q.text), "unique"))

starRemoveLast(seen, now) ==
  IF DOMAIN seen.stars = {} THEN Unknown(now)
  ELSE Set(now, "stars", Without(now.stars, {LastStar(seen)}))

\* Rules the table does not have yet, in a transaction that moves no time.
rulesSeed(now) == IF now.rules = None THEN Kept([now EXCEPT !.rules = 1]) ELSE Kept(now)

\* Then all three tables, when all three are empty.
costsSeed(seen, now) ==
  IF DOMAIN seen.bands # {} \/ seen.soul # None \/ DOMAIN seen.stars # {} THEN Kept(now)
  ELSE IF 1 \in DOMAIN now.bands \/ now.soul # None \/ 0 \in DOMAIN now.stars
       THEN Failed(now, "unique")
  ELSE Wrote([now EXCEPT !.bands = Join(@, One(1, 1)), !.soul = 1,
                         !.stars = Join(@, [n \in 0..1 |-> 1])])

-----------------------------------------------------------------------------
OnEnhancement(r, op, out, codes) ==
  /\ Asked(r, op) /\ enhancement' = out.now
  /\ Close(r, "enhancementCosts", out, codes) /\ UNCHANGED assets

SetEnhancementRules(r) ==
  OnEnhancement(r, "setEnhancementRules", rulesSet(enhancement, Q(r)), NoCodes)
SetPotentialResetCost(r) ==
  OnEnhancement(r, "setPotentialResetCost", costSet(enhancement, Q(r)), NoCodes)
AddPotentialResetBand(r) ==
  OnEnhancement(r, "addPotentialResetBand", bandAdd(enhancement, Q(r)), [BandExists |-> 409])
RemovePotentialResetBand(r) ==
  OnEnhancement(r, "removePotentialResetBand", bandRemove(enhancement, Q(r)), [BaseBand |-> 409])
SetSoulPotentialResetCost(r) ==
  OnEnhancement(r, "setSoulPotentialResetCost", soulSet(enhancement, Q(r)), NoCodes)
SetStarforceStep(r) ==
  OnEnhancement(r, "setStarforceStep", starSet(enhancement, Q(r)), NoCodes)
AddStarforceStep(r) ==
  OnEnhancement(r, "addStarforceStep", starAdd(Seen(r), enhancement, Q(r)), NoCodes)
RemoveLastStarforceStep(r) ==
  OnEnhancement(r, "removeLastStarforceStep", starRemoveLast(Seen(r), enhancement), NoCodes)

\* The first transaction of the seeding, after which it reads the tables.
SeedEnhancementRules(r) ==
  LET out == rulesSeed(enhancement)
  IN /\ Asked(r, "seedEnhancementRules")
     /\ enhancement' = out.now
     /\ call' = [call EXCEPT ![r].q = [op |-> "seedEnhancementCosts"], ![r].seen = out.now]
     /\ answer' = NoAnswer
     /\ UNCHANGED assets
SeedEnhancementCosts(r) ==
  OnEnhancement(r, "seedEnhancementCosts", costsSeed(Seen(r), enhancement), SeedCodes)

EnhancementNext == \E r \in Requests :
  \/ AskEnhancement(r) \/ SetEnhancementRules(r) \/ SetPotentialResetCost(r)
  \/ AddPotentialResetBand(r) \/ RemovePotentialResetBand(r) \/ SetSoulPotentialResetCost(r)
  \/ SetStarforceStep(r) \/ AddStarforceStep(r) \/ RemoveLastStarforceStep(r)
  \/ SeedEnhancementRules(r) \/ SeedEnhancementCosts(r)

\* Every column is shown.
EnhancementSection ==
  [rules |-> enhancement.rules, bands |-> enhancement.bands, soul |-> enhancement.soul,
   stars |-> enhancement.stars]

=============================================================================
