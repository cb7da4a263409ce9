------------------------- MODULE TokenServiceProofs -------------------------
(***************************************************************************)
(* Proofs about TokenService for any number of callers and any times.      *)
(*                                                                         *)
(* The argument: the map lets one caller at a time resolve (OneResolves),  *)
(* so what it read from the row is still in the row when Nexon answers     *)
(* (SentIsStored), so a grant is always the newest token and a refusal     *)
(* always means a dead one (GrantIsNewest, RefusalIsFinal).  A refusal of  *)
(* an access token means the same only if no task outlives its token,      *)
(* which is what TasksPrompt buys (ClocksAgree, InTime).                   *)
(***************************************************************************)
EXTENDS TokenService, TLAPS

\* The margin and the life of a token cover a task and the delay of the answer that started it.
TasksPrompt == TaskMax + CallMax <= Ahead /\ TaskMax + CallMax < AccessLife

Resolving == {"find", "refresh", "granted", "refused"}

\* At most the caller in the map resolves, and who joined awaits that caller.
OneResolves ==
  /\ \A w \in Callers : pc[w] \in Resolving => w = inflight
  /\ \A w \in Callers : pc[w] \in Waiting => leader[w] = inflight /\ inflight # None

\* The row is not written between the moment resolve() reads it and its end.
SentIsStored == \A w \in Callers : pc[w] \in {"refresh", "granted", "refused"} => sent[w] = stored

GrantIsNewest == \A w \in Callers : pc[w] = "granted" => current = sent[w] + 1

RefusalIsFinal == \A w \in Callers : pc[w] = "refused" => ~consent \/ sent[w] # current

\* What the server records as the end of a token is late by no more than one answer.
ClocksAgree ==
  /\ recorded <= realEnd + CallMax
  /\ \A w \in Callers : pc[w] = "granted" => now <= since[w] + CallMax

InTime ==
  \A w \in Callers : pc[w] = "holds" => now <= since[w] + TaskMax /\ since[w] + TaskMax < tokenEnd[w]

\* A token that a task saw refused was refused because the consent is gone.
PageRefusalIsFinal == \A w \in Callers : pc[w] = "reject" => ~consent

\* A rejected session has neither a good token in its row nor one on the way.
DeadForGood ==
  row = "rejected" /\ consent => stored # current /\ \A w \in Callers : pc[w] # "granted"

RefreshInv ==
  /\ TypeOK
  /\ OneResolves
  /\ SentIsStored
  /\ GrantIsNewest
  /\ RefusalIsFinal
  /\ RotationKept
  /\ ReloginMeansGone

PromptInv == ClocksAgree /\ InTime /\ PageRefusalIsFinal /\ DeadForGood


-----------------------------------------------------------------------------
(* What an outcome does to everyone who awaits it. *)

\* When a promise settles nobody waits any more, and who waited has the outcome.
LEMMA SettleEffect ==
  ASSUME TypeOK, OneResolves, NEW w \in Callers, pc[w] \in Resolving,
         NEW outcome \in Answered, NEW end \in Nat, Settle(w, outcome, end)
  PROVE  /\ pc' \in [Callers -> {"idle", "reject"} \cup Answered]
         /\ \A v \in Callers : pc[v] \in Waiting => pc'[v] = outcome
         /\ \A v \in Callers : pc[v] \notin Waiting =>
              pc'[v] = pc[v] /\ since'[v] = since[v] /\ tokenEnd'[v] = tokenEnd[v]
         /\ \A v \in Callers : pc[v] \in Waiting =>
              tokenEnd'[v] = end /\ since'[v] = IF outcome = "holds" THEN now ELSE 0
         /\ leader' \in [Callers -> Callers \cup {None}]
         /\ tokenEnd' \in [Callers -> Nat]
         /\ since' \in [Callers -> Nat]
         /\ sent' \in [Callers -> Nat]
         /\ inflight' = None
<1>1. \A v \in Callers : v \in Followers(w) <=> pc[v] \in Waiting
  BY DEF OneResolves, Followers, Waiting, Resolving, TypeOK
<1>2. pc' \in [Callers -> {"idle", "reject"} \cup Answered]
  BY <1>1 DEF Settle, TypeOK, Waiting, Answered
<1>3. /\ \A v \in Callers : pc[v] \in Waiting => pc'[v] = outcome
      /\ \A v \in Callers : pc[v] \notin Waiting =>
           pc'[v] = pc[v] /\ since'[v] = since[v] /\ tokenEnd'[v] = tokenEnd[v]
      /\ \A v \in Callers : pc[v] \in Waiting =>
           tokenEnd'[v] = end /\ since'[v] = IF outcome = "holds" THEN now ELSE 0
  BY <1>1 DEF Settle, TypeOK
<1>4. leader' \in [Callers -> Callers \cup {None}]
  BY DEF Settle, TypeOK
<1>5. tokenEnd' \in [Callers -> Nat] /\ since' \in [Callers -> Nat]
  BY DEF Settle, TypeOK
<1>6. sent' \in [Callers -> Nat] /\ inflight' = None
  BY DEF Settle, TypeOK
<1> QED
  BY <1>2, <1>3, <1>4, <1>5, <1>6

-----------------------------------------------------------------------------
(* The invariants that need no assumption on the lengths of tasks. *)

LEMMA RefreshInit == Init => RefreshInv
<1> SUFFICES ASSUME Init PROVE RefreshInv
  OBVIOUS
<1>1. TypeOK
  BY TimeAssumption DEF Init, TypeOK
<1>2. \A w \in Callers : pc[w] = "idle"
  BY DEF Init
<1>3. RotationKept
  BY DEF Init, RotationKept
<1> QED
  BY <1>1, <1>2, <1>3
     DEF RefreshInv, OneResolves, SentIsStored, GrantIsNewest, RefusalIsFinal,
         ReloginMeansGone, Resolving, Waiting

LEMMA RefreshStep == RefreshInv /\ [Next]_vars => RefreshInv'
<1> SUFFICES ASSUME RefreshInv, [Next]_vars
             PROVE  RefreshInv'
  OBVIOUS
<1> USE CallersAssumption, TimeAssumption
<1>1. ASSUME NEW w \in Callers, TokenFor(w)
      PROVE  RefreshInv'
  <2>1. TypeOK'
    BY <1>1 DEF TokenFor, RefreshInv, TypeOK, Waiting, rowVars, nexonVars
  <2>2. OneResolves'
    BY <1>1 DEF TokenFor, RefreshInv, TypeOK, OneResolves, Resolving, Waiting, Answered
  <2> QED
    BY <1>1, <2>1, <2>2
       DEF TokenFor, RefreshInv, TypeOK, SentIsStored, GrantIsNewest, RefusalIsFinal,
           RotationKept, ReloginMeansGone, Waiting, Answered, rowVars, nexonVars
<1>2. ASSUME NEW w \in Callers, NEW outcome \in Answered, NEW end \in Nat,
             pc[w] \in Resolving, Settle(w, outcome, end),
             now' = now, restarts' = restarts, nexonVars' = nexonVars,
             row' \in {row, "rejected"}, row' = row \/ row = "live",
             stored' \in Nat, recorded' \in Nat, realEnd' \in Nat, lost' \in BOOLEAN,
             row' = "live" /\ ~lost' => stored' = current,
             outcome = "relogin" => row' # "live"
      PROVE  RefreshInv'
  <2>1. /\ pc' \in [Callers -> {"idle", "reject"} \cup Answered]
        /\ \A v \in Callers : pc[v] \in Waiting => pc'[v] = outcome
        /\ \A v \in Callers : pc[v] \notin Waiting => pc'[v] = pc[v]
        /\ leader' \in [Callers -> Callers \cup {None}]
        /\ tokenEnd' \in [Callers -> Nat]
        /\ since' \in [Callers -> Nat]
        /\ sent' \in [Callers -> Nat]
        /\ inflight' = None
    BY <1>2, SettleEffect DEF RefreshInv
  <2>2. TypeOK'
    BY <1>2, <2>1 DEF RefreshInv, TypeOK, nexonVars
  <2>3. ReloginMeansGone'
    BY <1>2, <2>1 DEF RefreshInv, ReloginMeansGone, Waiting, Answered, TypeOK
  <2>4. /\ OneResolves' /\ SentIsStored' /\ GrantIsNewest' /\ RefusalIsFinal'
    BY <2>1 DEF OneResolves, SentIsStored, GrantIsNewest, RefusalIsFinal, Waiting, Resolving,
                Answered
  <2>5. RotationKept'
    BY <1>2 DEF RotationKept, nexonVars
  <2> QED
    BY <2>2, <2>3, <2>4, <2>5 DEF RefreshInv
<1>3. ASSUME NEW w \in Callers, FindSession(w)
      PROVE  RefreshInv'
  <2>1. \A v \in Callers : pc[v] # "granted"
    BY <1>3 DEF FindSession, RefreshInv, OneResolves, Resolving, TypeOK
  <2>2. CASE Settle(w, "relogin", 0) /\ row # "live"
    BY <1>2, <1>3, <2>1, <2>2
       DEF FindSession, RefreshInv, RotationKept, Resolving, Answered, TypeOK, rowVars
  <2>3. CASE Settle(w, "holds", realEnd) /\ row = "live"
    BY <1>2, <1>3, <2>1, <2>3
       DEF FindSession, RefreshInv, RotationKept, Resolving, Answered, TypeOK, rowVars
  <2>4. CASE /\ pc' = [pc EXCEPT ![w] = "refresh"]
             /\ sent' = [sent EXCEPT ![w] = stored]
             /\ UNCHANGED <<tokenEnd, since, leader, inflight>>
    BY <1>3, <2>1, <2>4
       DEF FindSession, RefreshInv, TypeOK, OneResolves, SentIsStored, GrantIsNewest,
           RefusalIsFinal, RotationKept, ReloginMeansGone, Waiting, Answered, Resolving,
           rowVars, nexonVars
  <2> QED
    BY <1>3, <2>2, <2>3, <2>4 DEF FindSession
<1>4. ASSUME NEW w \in Callers, NexonGrants(w)
      PROVE  RefreshInv'
  BY <1>4
     DEF NexonGrants, RefreshInv, TypeOK, OneResolves, SentIsStored, GrantIsNewest,
         RefusalIsFinal, RotationKept, ReloginMeansGone, Waiting, Answered, Resolving, rowVars
<1>5. ASSUME NEW w \in Callers, NexonRefuses(w)
      PROVE  RefreshInv'
  BY <1>5
     DEF NexonRefuses, RefreshInv, TypeOK, OneResolves, SentIsStored, GrantIsNewest,
         RefusalIsFinal, RotationKept, ReloginMeansGone, Waiting, Answered, Resolving,
         rowVars, nexonVars
<1>6. ASSUME NEW w \in Callers, NexonUnavailable(w)
      PROVE  RefreshInv'
  <2>1. \A v \in Callers : pc[v] # "granted"
    BY <1>6 DEF NexonUnavailable, RefreshInv, OneResolves, Resolving, TypeOK
  <2> QED
    BY <1>2, <1>6, <2>1
       DEF NexonUnavailable, RefreshInv, RotationKept, Resolving, Answered, TypeOK, rowVars
<1>7. ASSUME NEW w \in Callers, StoreTokens(w)
      PROVE  RefreshInv'
  <2>1. current = sent[w] + 1
    BY <1>7 DEF StoreTokens, RefreshInv, GrantIsNewest
  <2>2. /\ stored' \in Nat /\ recorded' \in Nat /\ realEnd' \in Nat
        /\ row' = "live" => stored' = current
    BY <1>7, <2>1 DEF StoreTokens, NewRefresh, RefreshInv, TypeOK
  <2>3. since[w] + AccessLife \in Nat
    BY DEF RefreshInv, TypeOK
  <2>4. CASE Settle(w, "holds", since[w] + AccessLife)
    BY <1>2, <1>7, <2>2, <2>3, <2>4 DEF StoreTokens, Resolving, Answered, RefreshInv, TypeOK
  <2>5. CASE Settle(w, "error", 0)
    BY <1>2, <1>7, <2>2, <2>5 DEF StoreTokens, Resolving, Answered, RefreshInv, TypeOK
  <2> QED
    BY <1>7, <2>4, <2>5 DEF StoreTokens
<1>8. ASSUME NEW w \in Callers, LoseTokens(w)
      PROVE  RefreshInv'
  BY <1>2, <1>8 DEF LoseTokens, RefreshInv, Resolving, Answered, TypeOK, rowVars
<1>9. ASSUME NEW w \in Callers, RefusedRefresh(w)
      PROVE  RefreshInv'
  BY <1>2, <1>9
     DEF RefusedRefresh, RejectRow, RefreshInv, Resolving, Answered, TypeOK
<1>10. ASSUME NEW w \in Callers, FetchPage(w) \/ Rejected(w) \/ Leave(w)
       PROVE  RefreshInv'
  <2>1. TypeOK'
    BY <1>10 DEF FetchPage, Rejected, RejectRow, Leave, RefreshInv, TypeOK, rowVars, nexonVars
  <2> QED
    BY <1>10, <2>1
       DEF FetchPage, Rejected, RejectRow, Leave, RefreshInv, TypeOK, OneResolves,
           SentIsStored, GrantIsNewest, RefusalIsFinal, RotationKept, ReloginMeansGone,
           Waiting, Answered, Resolving, rowVars, nexonVars
<1>11. ASSUME EndSession \/ WithdrawConsent \/ Tick
       PROVE  RefreshInv'
  <2>1. TypeOK'
    <3>1. CASE EndSession
      BY <3>1 DEF EndSession, RefreshInv, TypeOK, nexonVars, callerVars
    <3>2. CASE WithdrawConsent
      BY <3>2 DEF WithdrawConsent, RefreshInv, TypeOK, rowVars, callerVars
    <3>3. CASE Tick
      BY <3>3 DEF Tick, RefreshInv, TypeOK, rowVars, nexonVars, callerVars
    <3> QED
      BY <1>11, <3>1, <3>2, <3>3
  <2>2. OneResolves'
    BY <1>11 DEF EndSession, WithdrawConsent, Tick, RefreshInv, OneResolves, callerVars
  <2>3. SentIsStored' /\ GrantIsNewest' /\ RefusalIsFinal'
    BY <1>11 DEF EndSession, WithdrawConsent, Tick, RefreshInv, SentIsStored, GrantIsNewest,
                 RefusalIsFinal, rowVars, nexonVars, callerVars
  <2>4. RotationKept' /\ ReloginMeansGone'
    BY <1>11 DEF EndSession, WithdrawConsent, Tick, RefreshInv, RotationKept,
                 ReloginMeansGone, rowVars, nexonVars, callerVars
  <2> QED
    BY <2>1, <2>2, <2>3, <2>4 DEF RefreshInv
<1>12. ASSUME Crash
       PROVE  RefreshInv'
  <2>1. \A w \in Callers : pc'[w] = "idle"
    BY <1>12 DEF Crash
  <2>2. TypeOK'
    BY <1>12 DEF Crash, RefreshInv, TypeOK, rowVars, nexonVars
  <2>3. RotationKept'
    BY <1>12 DEF Crash, RefreshInv, RotationKept, TypeOK, rowVars, nexonVars
  <2> QED
    BY <2>1, <2>2, <2>3
       DEF RefreshInv, OneResolves, SentIsStored, GrantIsNewest, RefusalIsFinal,
           ReloginMeansGone, Waiting, Resolving
<1>13. ASSUME UNCHANGED vars
       PROVE  RefreshInv'
  BY <1>13
     DEF RefreshInv, TypeOK, OneResolves, SentIsStored, GrantIsNewest, RefusalIsFinal,
         RotationKept, ReloginMeansGone, vars, rowVars, nexonVars, callerVars
<1> QED
  BY <1>1, <1>3, <1>4, <1>5, <1>6, <1>7, <1>8, <1>9, <1>10, <1>11, <1>12, <1>13
     DEF Next, Resolve

-----------------------------------------------------------------------------
(* The invariants that hold when tasks are prompt. *)

LEMMA PromptInit == Init => PromptInv
BY TimeAssumption DEF Init, PromptInv, ClocksAgree, InTime, PageRefusalIsFinal, DeadForGood

\* A token handed out now lasts until the tasks that get it are done.
LEMMA HandOut ==
  ASSUME RefreshInv, PromptInv, NEW w \in Callers, pc[w] \in Resolving,
         NEW end \in Nat, Settle(w, "holds", end), now + TaskMax < end, now' = now
  PROVE  InTime'
<1>1. /\ \A v \in Callers : pc[v] \in Waiting =>
           pc'[v] = "holds" /\ tokenEnd'[v] = end /\ since'[v] = now
      /\ \A v \in Callers : pc[v] \notin Waiting =>
           pc'[v] = pc[v] /\ since'[v] = since[v] /\ tokenEnd'[v] = tokenEnd[v]
  BY SettleEffect DEF RefreshInv, Answered
<1>2. now <= now + TaskMax
  BY TimeAssumption DEF RefreshInv, TypeOK
<1> QED
  BY <1>1, <1>2 DEF InTime, PromptInv

\* Any other outcome gives no token to anyone.
LEMMA NoHandOut ==
  ASSUME RefreshInv, PromptInv, NEW w \in Callers, pc[w] \in Resolving,
         NEW outcome \in {"relogin", "error"}, Settle(w, outcome, 0), now' = now
  PROVE  InTime'
<1>1. /\ \A v \in Callers : pc[v] \in Waiting => pc'[v] = outcome
      /\ \A v \in Callers : pc[v] \notin Waiting =>
           pc'[v] = pc[v] /\ since'[v] = since[v] /\ tokenEnd'[v] = tokenEnd[v]
  BY SettleEffect DEF RefreshInv, Answered
<1> QED
  BY <1>1 DEF InTime, PromptInv

\* Nobody is granted, refused or rejected by an outcome.
LEMMA SettleIsQuiet ==
  ASSUME RefreshInv, NEW w \in Callers, pc[w] \in Resolving,
         NEW outcome \in Answered, NEW end \in Nat, Settle(w, outcome, end)
  PROVE  /\ \A v \in Callers : pc'[v] # "granted"
         /\ \A v \in Callers : pc'[v] = "reject" => pc[v] = "reject"
<1>1. /\ \A v \in Callers : pc[v] \in Waiting => pc'[v] = outcome
      /\ \A v \in Callers : pc[v] \notin Waiting => pc'[v] = pc[v]
  BY SettleEffect DEF RefreshInv
<1> QED
  BY <1>1 DEF Answered, Waiting

LEMMA PromptStep ==
  ASSUME TasksPrompt, RefreshInv, PromptInv, [Next]_vars
  PROVE  PromptInv'
<1> USE TimeAssumption
<1>1. ASSUME NEW w \in Callers, TokenFor(w)
      PROVE  PromptInv'
  <2>1. \A v \in Callers : pc'[v] \in {"holds", "granted", "reject"} => pc'[v] = pc[v]
    BY <1>1 DEF TokenFor, RefreshInv, TypeOK
  <2>2. \A v \in Callers : pc[v] \in {"holds", "granted", "reject"} => pc'[v] = pc[v]
    BY <1>1 DEF TokenFor, RefreshInv, TypeOK
  <2> QED
    BY <1>1, <2>1, <2>2
       DEF TokenFor, PromptInv, ClocksAgree, InTime, PageRefusalIsFinal, DeadForGood, rowVars,
           nexonVars
<1>2. ASSUME NEW w \in Callers, FindSession(w)
      PROVE  PromptInv'
  <2>1. now \in Nat /\ recorded \in Nat /\ realEnd \in Nat
    BY DEF RefreshInv, TypeOK
  <2>2. CASE Settle(w, "relogin", 0)
    <3>1. InTime'
      BY <1>2, <2>2, NoHandOut DEF FindSession, Resolving
    <3> QED
      BY <1>2, <2>2, <3>1, SettleIsQuiet
         DEF FindSession, Resolving, Answered, PromptInv, ClocksAgree, PageRefusalIsFinal,
             DeadForGood, rowVars, nexonVars
  <2>3. CASE Fresh /\ Settle(w, "holds", realEnd)
    <3>1. now + TaskMax < realEnd
      BY <2>1, <2>3 DEF Fresh, PromptInv, ClocksAgree, TasksPrompt
    <3>2. InTime'
      BY <1>2, <2>1, <2>3, <3>1, HandOut DEF FindSession, Resolving
    <3> QED
      BY <1>2, <2>1, <2>3, <3>2, SettleIsQuiet
         DEF FindSession, Resolving, Answered, PromptInv, ClocksAgree, PageRefusalIsFinal,
             DeadForGood, rowVars, nexonVars
  <2>4. CASE /\ pc' = [pc EXCEPT ![w] = "refresh"]
             /\ UNCHANGED <<tokenEnd, since>>
    BY <1>2, <2>4
       DEF FindSession, RefreshInv, TypeOK, PromptInv, ClocksAgree, InTime, PageRefusalIsFinal,
           DeadForGood, rowVars, nexonVars
  <2> QED
    BY <1>2, <2>2, <2>3, <2>4 DEF FindSession
<1>3. ASSUME NEW w \in Callers, NexonGrants(w)
      PROVE  PromptInv'
  <2>1. stored = current
    BY <1>3 DEF NexonGrants, RefreshInv, SentIsStored
  <2>2. ClocksAgree'
    BY <1>3 DEF NexonGrants, RefreshInv, TypeOK, PromptInv, ClocksAgree, rowVars
  <2>3. InTime' /\ PageRefusalIsFinal'
    BY <1>3 DEF NexonGrants, RefreshInv, TypeOK, PromptInv, InTime, PageRefusalIsFinal
  <2>4. DeadForGood'
    BY <1>3, <2>1 DEF NexonGrants, PromptInv, DeadForGood, rowVars
  <2> QED
    BY <2>2, <2>3, <2>4 DEF PromptInv
<1>4. ASSUME NEW w \in Callers, NexonRefuses(w)
      PROVE  PromptInv'
  BY <1>4
     DEF NexonRefuses, RefreshInv, TypeOK, PromptInv, ClocksAgree, InTime, PageRefusalIsFinal,
         DeadForGood, rowVars, nexonVars
<1>5. ASSUME NEW w \in Callers, NexonUnavailable(w) \/ LoseTokens(w)
      PROVE  PromptInv'
  <2>1. Settle(w, "error", 0) /\ pc[w] \in Resolving /\ now' = now
    BY <1>5 DEF NexonUnavailable, LoseTokens, Resolving
  <2>2. InTime'
    BY <2>1, NoHandOut
  <2> QED
    BY <1>5, <2>1, <2>2, SettleIsQuiet
       DEF NexonUnavailable, LoseTokens, Answered, PromptInv, ClocksAgree, PageRefusalIsFinal,
           DeadForGood, rowVars, nexonVars
<1>6. ASSUME NEW w \in Callers, StoreTokens(w)
      PROVE  PromptInv'
  <2>1. /\ now \in Nat /\ since[w] \in Nat /\ recorded \in Nat /\ realEnd \in Nat
        /\ pc[w] \in Resolving
    BY <1>6 DEF StoreTokens, RefreshInv, TypeOK, Resolving
  <2>2. now <= since[w] + CallMax
    BY <1>6 DEF StoreTokens, PromptInv, ClocksAgree
  <2>3. recorded' <= realEnd' + CallMax
    BY <1>6, <2>1, <2>2 DEF StoreTokens, PromptInv, ClocksAgree
  <2>4. row = "live" \/ UNCHANGED stored
    BY <1>6 DEF StoreTokens
  <2>5. ASSUME NEW outcome \in Answered, NEW end \in Nat, Settle(w, outcome, end), InTime'
        PROVE  PromptInv'
    BY <1>6, <2>1, <2>3, <2>4, <2>5, SettleIsQuiet
       DEF StoreTokens, PromptInv, ClocksAgree, PageRefusalIsFinal, DeadForGood, nexonVars
  <2>6. CASE Settle(w, "holds", since[w] + AccessLife)
    <3>1. now + TaskMax < since[w] + AccessLife
      BY <2>1, <2>2 DEF TasksPrompt
    <3>2. InTime'
      BY <1>6, <2>1, <2>6, <3>1, HandOut DEF StoreTokens
    <3> QED
      BY <2>1, <2>5, <2>6, <3>2 DEF Answered
  <2>7. CASE Settle(w, "error", 0)
    <3>1. InTime'
      BY <1>6, <2>1, <2>7, NoHandOut DEF StoreTokens
    <3> QED
      BY <2>5, <2>7, <3>1 DEF Answered
  <2> QED
    BY <1>6, <2>6, <2>7 DEF StoreTokens
<1>7. ASSUME NEW w \in Callers, RefusedRefresh(w)
      PROVE  PromptInv'
  <2>1. InTime'
    BY <1>7, NoHandOut DEF RefusedRefresh, Resolving
  <2>2. ~consent \/ stored # current
    BY <1>7 DEF RefusedRefresh, RefreshInv, RefusalIsFinal, SentIsStored
  <2> QED
    BY <1>7, <2>1, <2>2, SettleIsQuiet
       DEF RefusedRefresh, Resolving, Answered, PromptInv, ClocksAgree, PageRefusalIsFinal,
           DeadForGood, nexonVars
<1>8. ASSUME NEW w \in Callers, FetchPage(w)
      PROVE  PromptInv'
  <2>1. now < tokenEnd[w]
    BY <1>8 DEF FetchPage, RefreshInv, TypeOK, PromptInv, InTime
  <2>2. ClocksAgree' /\ InTime'
    BY <1>8 DEF FetchPage, RefreshInv, TypeOK, PromptInv, ClocksAgree, InTime, rowVars
  <2>3. PageRefusalIsFinal'
    BY <1>8, <2>1 DEF FetchPage, RefreshInv, TypeOK, PromptInv, PageRefusalIsFinal, nexonVars
  <2>4. DeadForGood'
    BY <1>8 DEF FetchPage, RefreshInv, TypeOK, PromptInv, DeadForGood, rowVars, nexonVars
  <2> QED
    BY <2>2, <2>3, <2>4 DEF PromptInv
<1>9. ASSUME NEW w \in Callers, Rejected(w)
      PROVE  PromptInv'
  <2>1. ~consent
    BY <1>9 DEF Rejected, PromptInv, PageRefusalIsFinal
  <2> QED
    BY <1>9, <2>1
       DEF Rejected, RefreshInv, TypeOK, PromptInv, ClocksAgree, InTime, PageRefusalIsFinal,
           DeadForGood, nexonVars
<1>10. ASSUME NEW w \in Callers, Leave(w)
       PROVE  PromptInv'
  BY <1>10
     DEF Leave, RefreshInv, TypeOK, PromptInv, ClocksAgree, InTime, PageRefusalIsFinal,
         DeadForGood, rowVars, nexonVars
<1>11. ASSUME EndSession \/ WithdrawConsent
       PROVE  PromptInv'
  BY <1>11
     DEF EndSession, WithdrawConsent, PromptInv, ClocksAgree, InTime, PageRefusalIsFinal,
         DeadForGood, rowVars, nexonVars, callerVars
<1>12. ASSUME Tick
       PROVE  PromptInv'
  BY <1>12
     DEF Tick, RefreshInv, TypeOK, PromptInv, ClocksAgree, InTime, PageRefusalIsFinal,
         DeadForGood, rowVars, nexonVars, callerVars
<1>13. ASSUME Crash
       PROVE  PromptInv'
  BY <1>13
     DEF Crash, PromptInv, ClocksAgree, InTime, PageRefusalIsFinal, DeadForGood, rowVars,
         nexonVars
<1>14. ASSUME UNCHANGED vars
       PROVE  PromptInv'
  BY <1>14
     DEF PromptInv, ClocksAgree, InTime, PageRefusalIsFinal, DeadForGood, vars, rowVars,
         nexonVars, callerVars
<1> QED
  BY <1>1, <1>2, <1>3, <1>4, <1>5, <1>6, <1>7, <1>8, <1>9, <1>10, <1>11, <1>12, <1>13, <1>14
     DEF Next, Resolve

-----------------------------------------------------------------------------
(* The theorems. *)

THEOREM RefreshInvariant == Spec => []RefreshInv
<1>1. Init => RefreshInv
  BY RefreshInit
<1>2. RefreshInv /\ [Next]_vars => RefreshInv'
  BY RefreshStep
<1> QED
  BY <1>1, <1>2, PTL DEF Spec

\* Every variable keeps its type.
THEOREM TypeCorrect == Spec => []TypeOK
<1>1. RefreshInv => TypeOK
  BY DEF RefreshInv
<1> QED
  BY <1>1, RefreshInvariant, PTL

\* Whatever callers do at once, a refresh token that Nexon accepts is lost only by a lost answer.
THEOREM RotationIsKept == Spec => []RotationKept
<1>1. RefreshInv => RotationKept
  BY DEF RefreshInv
<1> QED
  BY <1>1, RefreshInvariant, PTL

\* Who is told to log in again has no session any more.
THEOREM ReloginIsTrue == Spec => []ReloginMeansGone
<1>1. RefreshInv => ReloginMeansGone
  BY DEF RefreshInv
<1> QED
  BY <1>1, RefreshInvariant, PTL

\* The inductive invariant of a service whose tasks are prompt.
THEOREM PromptInvariant ==
  ASSUME TasksPrompt
  PROVE  Spec => []PromptInv
<1>1. Init => PromptInv
  BY PromptInit
<1>2. RefreshInv /\ PromptInv /\ [Next]_vars => PromptInv'
  BY PromptStep, TasksPrompt
<1> QED
  BY <1>1, <1>2, RefreshInvariant, PTL DEF Spec

\* With prompt tasks no token ends under the task that uses it.
THEOREM TokensOutliveTasks ==
  ASSUME TasksPrompt
  PROVE  Spec => []TokenOutlivesTask
<1>1. RefreshInv /\ PromptInv => TokenOutlivesTask
  BY TimeAssumption DEF RefreshInv, TypeOK, PromptInv, InTime, TokenOutlivesTask
<1> QED
  BY <1>1, RefreshInvariant, PromptInvariant, TasksPrompt, PTL

\* With prompt tasks a session is deleted as rejected only when it is dead.
THEOREM OnlyTheDeadAreRejected ==
  ASSUME TasksPrompt
  PROVE  Spec => []RejectedMeansDead
<1>1. PromptInv => RejectedMeansDead
  BY DEF PromptInv, DeadForGood, RejectedMeansDead, Alive
<1> QED
  BY <1>1, PromptInvariant, TasksPrompt, PTL
=============================================================================
