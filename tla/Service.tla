------------------------------- MODULE Service -------------------------------
(***************************************************************************)
(* The parts of the server that devices and Nexon reach beside the login,  *)
(* the streams and the notices: persons and their records, the market made *)
(* of the records, the watch over the settlement, and the bucket of tokens *)
(* before Nexon's friends API.                                             *)
(*                                                                         *)
(* They share no variable, and the records of different tables meet in a   *)
(* merge only, so a behaviour stays on one scene: a part and the requests  *)
(* made of it.                                                             *)
(***************************************************************************)
EXTENDS Accounts, Uploads, Settlement, DropMarket, NexonBucket

CONSTANTS Scenes, FirstLogin,
  FewPersons  \* bound: the ids of a scene with one login
VARIABLE scene

vars == <<scene, accountVars, uploadVars, settlementVars, marketVars, bucketVars>>

AllScenes ==
  {"logins", "deletion", "records", "events", "copies", "drops", "clears", "entries", "totals",
   "counts", "settlement", "market", "bucket"}

ASSUME ServiceAssumption == Scenes \subseteq AllScenes /\ FirstLogin \in Logins

Init ==
  /\ scene \in Scenes
  /\ AccountsInit /\ UploadsInit /\ SettlementInit /\ MarketInit /\ BucketInit

OneLogin(ops) == AccountsNext(ops, {FirstLogin}) /\ DOMAIN users' \subseteq FewPersons

OfAccounts ==
  \/ scene = "logins"   /\ AccountsNext({"link"}, Logins)
  \/ scene = "deletion" /\ OneLogin({"price", "delete", "link"})
  \/ scene = "records"  /\ OneLogin({"price", "removePrice", "link"})
  \/ scene = "events"   /\ OneLogin({"event", "delete", "cancel", "link"})
  \/ scene = "copies"   /\ OneLogin({"copy", "removeCopy", "link"})

OfUploads ==
  \/ scene = "drops"   /\ UploadsNext({"drop"}, 1)
  \/ scene = "clears"  /\ UploadsNext({"clear"}, 2)
  \/ scene = "entries" /\ UploadsNext({"entry"}, 1)
  \/ scene = "counts"  /\ UploadsNext({"anomaly", "usage"}, 1)
  \/ scene = "totals"  /\ UploadsNext({"total"}, 2)

OfSettlement == scene = "settlement" /\ SettlementNext
OfMarket     == scene = "market" /\ MarketNext
OfBucket     == scene = "bucket" /\ BucketNext

Next ==
  /\ UNCHANGED scene
  /\ \/ OfAccounts   /\ UNCHANGED <<uploadVars, settlementVars, marketVars, bucketVars>>
     \/ OfUploads    /\ UNCHANGED <<accountVars, settlementVars, marketVars, bucketVars>>
     \/ OfSettlement /\ UNCHANGED <<accountVars, uploadVars, marketVars, bucketVars>>
     \/ OfMarket     /\ UNCHANGED <<accountVars, uploadVars, settlementVars, bucketVars>>
     \/ OfBucket     /\ UNCHANGED <<accountVars, uploadVars, settlementVars, marketVars>>

\* Only the bucket is scheduled: devices, persons and Nexon may stop at any time.
Spec == Init /\ [][Next]_vars /\ BucketFair

=============================================================================
