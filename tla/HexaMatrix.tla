------------------------------ MODULE HexaMatrix ------------------------------
(***************************************************************************)
(* Kinds of hexa cores with the costs of their levels, the names that mark *)
(* a core as not of the default kind, the cores of each job, and the       *)
(* stats.  An app adds the costs of the levels between two levels, so a    *)
(* gap among them would be a wrong sum without an error.                   *)
(***************************************************************************)
EXTENDS Catalogue

VARIABLE hexa
  \* [kinds: key -> [api, default, max, order], costs: key -> set of levels, names: name -> kind,
  \*  cores: id -> [job, name, text, order], stats: key -> [text, order]]

NoHexa == [kinds |-> <<>>, costs |-> <<>>, names |-> <<>>, cores |-> <<>>, stats |-> <<>>]

Apis      == {1, 2}
MaxLevels == {1, 2}
LevelSets == {{0}, {0, 1}, {1}}

KindRow == [api : Apis, default : BOOLEAN, max : MaxLevels, order : Nat]
CostRow == SUBSET (0..1)
NameRow == FewKeys
CoreRow == [job : {1, 2}, name : {1, 2}, text : Texts, order : Nat]
StatRow == [text : Texts, order : Nat]

HexaTypeOK ==
  /\ IsTable(hexa.kinds, FewKeys, KindRow) /\ IsTable(hexa.names, {1}, NameRow)
  /\ IsTable(hexa.costs, DOMAIN hexa.kinds, CostRow) /\ DOMAIN hexa.costs = DOMAIN hexa.kinds
  /\ IsTable(hexa.cores, Keys, CoreRow) /\ IsTable(hexa.stats, {1}, StatRow)

KindRequests ==
  [op : {"createHexaKind", "updateHexaKind"}, key : FewKeys, api : Apis, default : BOOLEAN,
   max : MaxLevels]
    \cup [op : {"replaceHexaCosts"}, key : FewKeys, levels : LevelSets]
    \cup {[op |-> "seedHexaMatrix"]}

CoreRequests ==
  [op : {"createHexaJobCore"}, job : {1, 2}, name : {1, 2}, text : {2}]
    \cup [op : {"updateHexaJobCore"}, id : FewKeys, name : {1, 2}, text : {2}]
    \cup [op : {"removeHexaJobCore"}, id : FewKeys]
    \cup [op : {"moveHexaJobCore"}, id : FewKeys, dir : Dirs]
    \cup [op : {"addHexaNameKind"}, name : {1}, kind : FewKeys]
    \cup [op : {"removeHexaNameKind"}, name : {1}]
    \cup [op : {"createHexaStat", "updateHexaStat"}, key : {1}, text : {2}]

CoresOf(t, job) == {i \in DOMAIN t.cores : t.cores[i].job = job}

AskHexa(r, requests) == \E q \in requests :
  /\ q.op = "createHexaJobCore" => NextOrder(hexa.cores, CoresOf(hexa, q.job)) <= MaxOrder
  /\ Ask(r, q, hexa) /\ UNCHANGED hexa

-----------------------------------------------------------------------------
(* Kinds.  A core whose name is in no table is of the default kind of its *)
(* API type, so there is one at most.                                     *)

OtherDefault(t, self, api) ==
  \E k \in DOMAIN t.kinds \ {self} : t.kinds[k].default /\ t.kinds[k].api = api

kindCreate(seen, now, q) ==
  IF q.key \in DOMAIN seen.kinds THEN Failed(now, "HexaKindExists")
  ELSE IF q.default /\ OtherDefault(seen, None, q.api) THEN Failed(now, "DefaultKindTaken")
  ELSE IF q.key \in DOMAIN now.kinds \/ (q.default /\ OtherDefault(now, None, q.api))
       THEN Failed(now, "HexaKindExists")
  ELSE Wrote([now EXCEPT
         !.kinds = Join(@, One(q.key, [api |-> q.api, default |-> q.default, max |-> q.max,
                                       order |-> NextOrder(seen.kinds, DOMAIN seen.kinds)])),
         !.costs = Join(@, One(q.key, {}))])

kindUpdate(seen, now, q) ==
  IF q.key \notin DOMAIN seen.kinds THEN Unknown(now)
  ELSE IF q.default /\ OtherDefault(seen, q.key, q.api) THEN Failed(now, "DefaultKindTaken")
  ELSE IF \E level \in seen.costs[q.key] : level >= q.max THEN Failed(now, "LevelsAboveMax")
  ELSE IF q.default /\ OtherDefault(now, q.key, q.api) THEN Failed(now, "unique")
  ELSE Wrote([now EXCEPT !.kinds[q.key].api = q.api, !.kinds[q.key].default = q.default,
                         !.kinds[q.key].max = q.max])

\* costLevelsProblem: each level below the highest once, and no other.
CostLevels(max) == 0..(max - 1)

costsReplace(seen, now, q) ==
  IF q.key \notin DOMAIN seen.kinds THEN Unknown(now)
  ELSE IF q.levels # CostLevels(seen.kinds[q.key].max) THEN Failed(now, "CostLevelsMismatch")
  ELSE Wrote([now EXCEPT !.costs[q.key] = q.levels])

nameAdd(seen, now, q) ==
  IF q.kind \notin DOMAIN seen.kinds THEN Failed(now, "NoHexaKind")
  ELSE In(now, "names", Inserted(now.names, One(q.name, q.kind), "NameKindExists"))
nameRemove(now, q) ==
  IF q.name \notin DOMAIN now.names THEN Unknown(now)
  ELSE Wrote([now EXCEPT !.names = Without(@, {q.name})])

-----------------------------------------------------------------------------
(* Cores of a job, in the order Nexon answers them, and stats. *)

JobHas(t, self, job, name) == \E i \in CoresOf(t, job) \ {self} : t.cores[i].name = name

coreCreate(seen, now, q, id) ==
  IF JobHas(now, None, q.job, q.name) THEN Failed(now, "JobCoreExists")
  ELSE In(now, "cores",
          Inserted(now.cores, One(id, [job |-> q.job, name |-> q.name, text |-> q.text,
                     order |-> NextOrder(seen.cores, CoresOf(seen, q.job))]), "unique"))
coreUpdate(now, q) ==
  IF q.id \in DOMAIN now.cores /\ JobHas(now, q.id, now.cores[q.id].job, q.name)
  THEN Failed(now, "JobCoreExists")
  ELSE In(now, "cores", Updated(now.cores, q.id,
                                LAMBDA row : [row EXCEPT !.name = q.name, !.text = q.text]))
coreRemove(now, q) ==
  IF q.id \notin DOMAIN now.cores THEN Unknown(now)
  ELSE Wrote([now EXCEPT !.cores = Without(@, {q.id})])
coreMove(seen, now, q) ==
  IF q.id \notin DOMAIN seen.cores THEN Unknown(now)
  ELSE In(now, "cores",
          Moved(seen.cores, now.cores, CoresOf(seen, seen.cores[q.id].job), q.id, q.dir))

statCreate(seen, now, q) ==
  In(now, "stats",
     Inserted(now.stats,
       One(q.key, [text |-> q.text, order |-> NextOrder(seen.stats, DOMAIN seen.stats)]),
       "HexaStatExists"))
statUpdate(now, q) ==
  In(now, "stats", Updated(now.stats, q.key, LAMBDA row : [row EXCEPT !.text = q.text]))

\* The costs of the seed are complete, or it throws.
HexaReady(now) ==
  LET id == CHOOSE i \in Keys : i \notin DOMAIN now.cores
  IN [kinds |-> One(1, [api |-> 1, default |-> TRUE, max |-> 2, order |-> 0]),
      costs |-> One(1, CostLevels(2)),
      names |-> Join(now.names, One(1, 1)),
      cores |-> Join(now.cores, One(id, [job |-> 1, name |-> 1, text |-> 1, order |-> 0])),
      stats |-> Join(now.stats, One(1, [text |-> 1, order |-> 0]))]

\* All five tables, when there is no kind.
hexaSeed(seen, now) ==
  IF DOMAIN seen.kinds # {} THEN Kept(now)
  ELSE IF DOMAIN now.kinds # {} \/ 1 \in DOMAIN now.names \/ 1 \in DOMAIN now.stats
          \/ JobHas(now, None, 1, 1)
       THEN Failed(now, "unique")
  ELSE Wrote(HexaReady(now))

-----------------------------------------------------------------------------
OnHexa(r, op, out, codes) ==
  Asked(r, op) /\ hexa' = out.now /\ Close(r, "hexaMatrix", out, codes) /\ UNCHANGED assets

CreateHexaKind(r) ==
  OnHexa(r, "createHexaKind", kindCreate(Seen(r), hexa, Q(r)),
         [HexaKindExists |-> 409, DefaultKindTaken |-> 409])
UpdateHexaKind(r) ==
  OnHexa(r, "updateHexaKind", kindUpdate(Seen(r), hexa, Q(r)),
         [DefaultKindTaken |-> 409, LevelsAboveMax |-> 409])
ReplaceHexaCosts(r) ==
  OnHexa(r, "replaceHexaCosts", costsReplace(Seen(r), hexa, Q(r)), [CostLevelsMismatch |-> 400])
AddHexaNameKind(r) ==
  OnHexa(r, "addHexaNameKind", nameAdd(Seen(r), hexa, Q(r)),
         [NoHexaKind |-> 400, NameKindExists |-> 409])
RemoveHexaNameKind(r) == OnHexa(r, "removeHexaNameKind", nameRemove(hexa, Q(r)), NoCodes)
CreateHexaJobCore(r) == \E id \in Fresh(FewKeys, hexa.cores) :
  OnHexa(r, "createHexaJobCore",
         Pictured(r, Q(r).text, hexa, coreCreate(Seen(r), hexa, Q(r), id)),
         [JobCoreExists |-> 409])
UpdateHexaJobCore(r) ==
  OnHexa(r, "updateHexaJobCore", Pictured(r, Q(r).text, hexa, coreUpdate(hexa, Q(r))),
         [JobCoreExists |-> 409])
RemoveHexaJobCore(r) == OnHexa(r, "removeHexaJobCore", coreRemove(hexa, Q(r)), NoCodes)
MoveHexaJobCore(r) == OnHexa(r, "moveHexaJobCore", coreMove(Seen(r), hexa, Q(r)), NoCodes)
CreateHexaStat(r) ==
  OnHexa(r, "createHexaStat", statCreate(Seen(r), hexa, Q(r)), [HexaStatExists |-> 409])
UpdateHexaStat(r) == OnHexa(r, "updateHexaStat", statUpdate(hexa, Q(r)), NoCodes)
SeedHexaMatrix(r) == OnHexa(r, "seedHexaMatrix", hexaSeed(Seen(r), hexa), SeedCodes)

HexaNext(requests) == \E r \in Requests :
  \/ AskHexa(r, requests) \/ CreateHexaKind(r) \/ UpdateHexaKind(r) \/ ReplaceHexaCosts(r)
  \/ AddHexaNameKind(r) \/ RemoveHexaNameKind(r) \/ CreateHexaJobCore(r) \/ UpdateHexaJobCore(r)
  \/ RemoveHexaJobCore(r) \/ MoveHexaJobCore(r) \/ CreateHexaStat(r) \/ UpdateHexaStat(r)
  \/ SeedHexaMatrix(r)

HexaSection ==
  [hexa EXCEPT
    !.kinds = [k \in DOMAIN hexa.kinds |->
                 <<[hexa.kinds[k] EXCEPT !.order = 0], Rank(hexa.kinds, DOMAIN hexa.kinds, k)>>],
    !.cores = {<<hexa.cores[i].job, hexa.cores[i].name,
                 Place(hexa.cores, CoresOf(hexa, hexa.cores[i].job), i)>> : i \in DOMAIN hexa.cores},
    !.stats = Shown(hexa.stats)]

=============================================================================
