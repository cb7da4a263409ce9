-------------------------- MODULE NexonLoginProofs --------------------------
(***************************************************************************)
(* Proofs about NexonLogin for any number of pairs, callbacks and requests *)
(* and any times in which a callback answers before its pair is swept.     *)
(*                                                                         *)
(* The argument: a pair is claimed once, so each callback is alone with    *)
(* its pair (Claims); the sweep leaves the pair of a running callback, so  *)
(* what it seals is really sealed (Seals); and a pair that was handed out  *)
(* is gone for good, with nothing left that leads back to its session      *)
(* (Answers).  The clock of the sweep is apart from all this (SweepClock). *)
(***************************************************************************)
EXTENDS NexonLogin, TLAPS

\* A claimed pair belongs to one callback, from the claim on.
Claims ==
  /\ \A c \in Callbacks : state[c] # None => stage[state[c]] \notin {"none", "open"}
  /\ \A c, d \in Callbacks : state[c] # None /\ state[c] = state[d] => c = d
  /\ \A c \in Callbacks :
       Running(c) \/ pc[c] = "receipt" \/ session[c] # "none" => state[c] # None
  /\ \A c \in Callbacks : pc[c] = "idle" => state[c] = None
  /\ \A c \in Callbacks : Running(c) => now <= claimedAt[state[c]] + CallbackMax

\* What is written on a pair was written by its callback, and a receipt says that it was.
Seals ==
  /\ \A a \in Attempts : sealedBy[a] # None => state[sealedBy[a]] = a
  /\ \A a \in Attempts : sessionId[a] # None => sessionId[a] = sealedBy[a]
  /\ \A c \in Callbacks : pc[c] = "receipt" =>
       stage[state[c]] \in {"sealed", "deleted"} /\ sealedBy[state[c]] = c
  /\ \A c \in Callbacks : pc[c] \in {"seal", "receipt"} => session[c] # "none"
  /\ \A c \in Callbacks : session[c] = "swept" => stage[state[c]] = "deleted"
  /\ \A c \in Callbacks : session[c] = "undone" => pc[c] = "back"

PairInv == TypeOK /\ Claims /\ SweepSparesCallback /\ Seals

\* Who asks with a receipt asks for the pair of the callback that sent it.
Answers ==
  /\ \A r \in Asks : askWith[r] # None => pc[askWith[r]] = "receipt" /\ state[askWith[r]] = askOf[r]
  /\ \A r \in Asks : ask[r] = "idle" => askWith[r] = None
  /\ \A r \in Asks : ask[r] # "idle" => askOf[r] # None
  /\ \A r \in Asks : ask[r] = "ok" => askWith[r] # None /\ stage[askOf[r]] = "deleted"
  /\ \A r \in Asks : askWith[r] # None =>
       /\ ask[r] \notin {"pending", "cancelled"}
       /\ ask[r] \in {"peek", "gone", "dead"} => ~Redeemable(askOf[r], askWith[r])

AskInv == Answers /\ RedeemedOnce /\ HandedOutSessionKept /\ ReceiptSessionTracked

\* The job is never late while the process is up, and no pair was dead when it last ran.
SweepClock ==
  up => /\ now <= nextSweep /\ nextSweep <= now + Interval
        /\ \A a \in Attempts : InTable(a) =>
             nextSweep <= DeadAt(a) + Interval \/ nextSweep <= bootAt + Interval

-----------------------------------------------------------------------------
(* What deleting rows does to the two tables. *)

LEMMA PairsDropped ==
  ASSUME TypeOK, NEW A, DropPairs(A) \/ UNCHANGED stage
  PROVE  /\ stage' \in [Attempts -> {"none", "open", "claimed", "sealed", "deleted"}]
         /\ \A a \in Attempts :
              stage'[a] = stage[a] \/ (a \in A /\ InTable(a) /\ stage'[a] = "deleted")
BY DEF DropPairs, TypeOK, InTable

LEMMA SessionsDropped ==
  ASSUME TypeOK, NEW S, NEW fate \in {"ended", "expired", "swept", "undone"},
         DropSessions(S, fate) \/ UNCHANGED <<session, sessionId>>
  PROVE  /\ session' \in [Callbacks -> Fates]
         /\ sessionId' \in [Attempts -> Callbacks \cup {None}]
         /\ \A c \in Callbacks :
              session'[c] = session[c] \/ (c \in S /\ session[c] = "live" /\ session'[c] = fate)
         /\ \A a \in Attempts : sessionId'[a] \in {sessionId[a], None}
         /\ \A a \in Attempts :
              sessionId'[a] = sessionId[a] \/ (sessionId[a] \in S /\ DropSessions(S, fate))
<1>1. CASE DropSessions(S, fate)
  BY <1>1 DEF DropSessions, TypeOK, Fates
<1>2. CASE UNCHANGED <<session, sessionId>>
  BY <1>2 DEF TypeOK
<1> QED
  BY <1>1, <1>2

-----------------------------------------------------------------------------
(* Types. *)

LEMMA TypeInit == Init => TypeOK
<1> SUFFICES ASSUME Init PROVE TypeOK
  OBVIOUS
<1>1. up \in BOOLEAN /\ expiring \in BOOLEAN /\ made \in [Callbacks -> BOOLEAN]
  BY DEF Init
<1> QED
  BY <1>1, TimeAssumption DEF Init, TypeOK, Fates

LEMMA TypeStep == TypeOK /\ [Next]_vars => TypeOK'
<1> SUFFICES ASSUME TypeOK, [Next]_vars
             PROVE  TypeOK'
  OBVIOUS
<1> USE TimeAssumption
<1> USE DEF pairVars, sessionVars, callbackVars, askVars, processVars
<1>1. ASSUME NEW a \in Attempts, Start(a)
      PROVE  TypeOK'
  BY <1>1 DEF Start, TypeOK
<1>2. ASSUME NEW c \in Callbacks, NEW a \in Attempts, Claim(c, a)
      PROVE  TypeOK'
  BY <1>2 DEF Claim, Go, TypeOK
<1>3. ASSUME NEW c \in Callbacks, Abandon(c)
      PROVE  TypeOK'
  BY <1>3, PairsDropped DEF Abandon, Go, TypeOK
<1>4. ASSUME NEW c \in Callbacks, Nexon(c)
      PROVE  TypeOK'
  BY <1>4 DEF Nexon, Go, TypeOK
<1>5. ASSUME NEW c \in Callbacks, CreateSession(c)
      PROVE  TypeOK'
  BY <1>5 DEF CreateSession, Go, TypeOK, Fates
<1>6. ASSUME NEW c \in Callbacks, SealPair(c)
      PROVE  TypeOK'
  BY <1>6 DEF SealPair, Go, TypeOK
<1>7. ASSUME NEW c \in Callbacks, UndoPair(c)
      PROVE  TypeOK'
  BY <1>7, PairsDropped DEF UndoPair, Go, TypeOK
<1>8. ASSUME NEW c \in Callbacks, UndoSession(c)
      PROVE  TypeOK'
  BY <1>8, SessionsDropped DEF UndoSession, Go, TypeOK
<1>9. ASSUME NEW r \in Asks, NEW a \in Attempts, NEW c \in Callbacks \cup {None}, Ask(r, a, c)
      PROVE  TypeOK'
  BY <1>9, PairsDropped DEF Ask, TypeOK
<1>10. ASSUME NEW r \in Asks, Peek(r)
       PROVE  TypeOK'
  BY <1>10 DEF Peek, StageAnswer, TypeOK
<1>11. ASSUME \/ Withdraw
              \/ \E c \in Callbacks : EndSession(c)
       PROVE  TypeOK'
  <2>1. /\ session' \in [Callbacks -> Fates]
        /\ sessionId' \in [Attempts -> Callbacks \cup {None}]
    BY <1>11, SessionsDropped DEF EndSession, Withdraw
  <2> QED
    BY <1>11, <2>1 DEF EndSession, Withdraw, TypeOK
<1>12. ASSUME Sweep \/ DeleteExpired
       PROVE  TypeOK'
  <2>1. /\ session' \in [Callbacks -> Fates]
        /\ sessionId' \in [Attempts -> Callbacks \cup {None}]
    BY <1>12, SessionsDropped DEF Sweep, DeleteExpired
  <2>2. stage' \in [Attempts -> {"none", "open", "claimed", "sealed", "deleted"}]
    BY <1>12, PairsDropped DEF Sweep, DeleteExpired
  <2>3. expiring' \in BOOLEAN
    BY <1>12 DEF Sweep, DeleteExpired
  <2>4. nextSweep' \in Nat
    BY <1>12 DEF Sweep, DeleteExpired, TypeOK
  <2> QED
    BY <1>12, <2>1, <2>2, <2>3, <2>4 DEF Sweep, DeleteExpired, TypeOK
<1>13. ASSUME Tick \/ Restart
       PROVE  TypeOK'
  <2>1. now' \in Nat /\ bootAt' \in Nat /\ nextSweep' \in Nat
    BY <1>13 DEF Tick, Restart, TypeOK
  <2>2. up' \in BOOLEAN
    BY <1>13 DEF Tick, Restart, TypeOK
  <2> QED
    BY <1>13, <2>1, <2>2 DEF Tick, Restart, TypeOK
<1>14. ASSUME Crash
       PROVE  TypeOK'
  <2>1. up' \in BOOLEAN /\ expiring' \in BOOLEAN
    BY <1>14 DEF Crash
  <2>2. restarts' \in Nat
    BY <1>14 DEF Crash, TypeOK
  <2>3. /\ pc' \in [Callbacks -> {"idle", "nexon", "create", "seal", "abandon", "undoPair",
                                 "undoSession", "receipt", "back", "dead"}]
        /\ ask' \in [Asks -> {"idle", "peek", "ok", "cancelled", "pending", "gone", "dead"}]
    BY <1>14 DEF Crash, TypeOK
  <2> QED
    BY <1>14, <2>1, <2>2, <2>3 DEF Crash, TypeOK
<1>15. ASSUME UNCHANGED vars
       PROVE  TypeOK'
  BY <1>15 DEF vars, TypeOK
<1> QED
  BY <1>1, <1>2, <1>3, <1>4, <1>5, <1>6, <1>7, <1>8, <1>9, <1>10, <1>11, <1>12, <1>13, <1>14,
     <1>15
     DEF Next

-----------------------------------------------------------------------------
(* Callbacks and their pairs. *)

LEMMA PairInit == Init => PairInv
<1> SUFFICES ASSUME Init PROVE PairInv
  OBVIOUS
<1>1. /\ \A c \in Callbacks : pc[c] = "idle" /\ state[c] = None /\ session[c] = "none"
      /\ \A a \in Attempts : sealedBy[a] = None /\ sessionId[a] = None
  BY DEF Init
<1> QED
  BY <1>1, TypeInit DEF PairInv, Claims, SweepSparesCallback, Seals, Running

\* A step in which no callback moves and rows are only removed, no claimed pair of a running one.
LEMMA Removal ==
  ASSUME PairInv, TypeOK', UNCHANGED <<now, claimedAt, sealedBy, callbackVars>>,
         \A a \in Attempts : stage'[a] = stage[a] \/ (InTable(a) /\ stage'[a] = "deleted"),
         \A c \in Callbacks :
           pc[c] \in {"nexon", "create", "seal"} => stage'[state[c]] = stage[state[c]],
         \A c \in Callbacks :
           \/ session'[c] = session[c]
           \/ session[c] = "live" /\ session'[c] \in {"ended", "expired"}
           \/ session[c] = "live" /\ session'[c] = "swept" /\ stage'[state[c]] = "deleted",
         \A a \in Attempts : sessionId'[a] \in {sessionId[a], None}
  PROVE  Claims' /\ SweepSparesCallback' /\ Seals'
<1>1. /\ \A c \in Callbacks : pc'[c] = pc[c] /\ state'[c] = state[c]
      /\ now' = now /\ claimedAt' = claimedAt /\ sealedBy' = sealedBy
  BY DEF callbackVars
<1>2. \A c \in Callbacks : state[c] \in Attempts \cup {None}
  BY DEF PairInv, TypeOK
<1>3. Claims'
  BY <1>1, <1>2 DEF PairInv, Claims, Running, InTable
<1>4. SweepSparesCallback'
  BY <1>1 DEF PairInv, SweepSparesCallback
<1>5. \A c \in Callbacks : pc[c] = "receipt" => state[c] \in Attempts
  BY <1>2 DEF PairInv, Claims
<1>6. \A c \in Callbacks : session[c] = "swept" => state[c] \in Attempts
  BY <1>2 DEF PairInv, Claims
<1>7. /\ \A a \in Attempts : sealedBy'[a] # None => state'[sealedBy'[a]] = a
      /\ \A a \in Attempts : sessionId'[a] # None => sessionId'[a] = sealedBy'[a]
  BY <1>1 DEF PairInv, Seals, TypeOK
<1>8. \A c \in Callbacks : pc'[c] = "receipt" =>
        stage'[state'[c]] \in {"sealed", "deleted"} /\ sealedBy'[state'[c]] = c
  BY <1>1, <1>5 DEF PairInv, Seals
<1>9. /\ \A c \in Callbacks : pc'[c] \in {"seal", "receipt"} => session'[c] # "none"
      /\ \A c \in Callbacks : session'[c] = "undone" => pc'[c] = "back"
  BY <1>1 DEF PairInv, Seals
<1>10. \A c \in Callbacks : session'[c] = "swept" => stage'[state'[c]] = "deleted"
  BY <1>1, <1>6 DEF PairInv, Seals, InTable
<1> QED
  BY <1>3, <1>4, <1>7, <1>8, <1>9, <1>10 DEF Seals

LEMMA PairStep == PairInv /\ [Next]_vars => PairInv'
<1> SUFFICES ASSUME PairInv, [Next]_vars
             PROVE  Claims' /\ SweepSparesCallback' /\ Seals'
  BY TypeStep DEF PairInv
<1> TypeOK /\ TypeOK'
  BY TypeStep DEF PairInv
<1>0. \A c \in Callbacks : Running(c) \/ pc[c] = "receipt" => state[c] \in Attempts
  BY NoneAssumption DEF PairInv, Claims, TypeOK
<1> USE TimeAssumption, NoneAssumption
<1> USE DEF pairVars, sessionVars, callbackVars, askVars, processVars
<1>1. ASSUME NEW a \in Attempts, Start(a)
      PROVE  Claims' /\ SweepSparesCallback' /\ Seals'
  <2>1. \A c \in Callbacks : state[c] # a
    BY <1>1 DEF Start, PairInv, Claims
  <2>2. \A b \in Attempts \ {a} : stage'[b] = stage[b]
    BY <1>1 DEF Start, TypeOK
  <2>3. \A c \in Callbacks : state[c] # None => stage'[state[c]] = stage[state[c]]
    BY <2>1, <2>2 DEF TypeOK
  <2>4. Claims'
    BY <1>1, <2>3 DEF Start, PairInv, Claims, Running
  <2>5. SweepSparesCallback' /\ Seals'
    BY <1>0, <1>1, <2>3 DEF Start, PairInv, Claims, SweepSparesCallback, Seals, Running
  <2> QED
    BY <2>4, <2>5
<1>2. ASSUME NEW c \in Callbacks, NEW a \in Attempts, Claim(c, a)
      PROVE  Claims' /\ SweepSparesCallback' /\ Seals'
  <2>1. state[c] = None /\ session[c] = "none"
    BY <1>2 DEF Claim, PairInv, Claims
  <2>2. CASE Claimable(a)
    <3>1. \A d \in Callbacks : state[d] # a
      BY <2>2 DEF Claimable, PairInv, Claims
    <3>2. /\ stage' = [stage EXCEPT ![a] = "claimed"]
          /\ claimedAt' = [claimedAt EXCEPT ![a] = now]
          /\ state' = [state EXCEPT ![c] = a]
          /\ pc'[c] \in {"nexon", "abandon"}
          /\ \A d \in Callbacks \ {c} : pc'[d] = pc[d]
          /\ now' = now /\ session' = session /\ sealedBy' = sealedBy /\ sessionId' = sessionId
      BY <1>2, <2>2 DEF Claim, Go, TypeOK
    <3>3. /\ state'[c] = a /\ stage'[a] = "claimed" /\ claimedAt'[a] = now
          /\ \A d \in Callbacks \ {c} : state'[d] = state[d]
          /\ \A b \in Attempts \ {a} : stage'[b] = stage[b] /\ claimedAt'[b] = claimedAt[b]
      BY <3>2 DEF TypeOK
    <3>4. \A d \in Callbacks : state[d] # None =>
            stage'[state[d]] = stage[state[d]] /\ claimedAt'[state[d]] = claimedAt[state[d]]
      BY <3>1, <3>3 DEF TypeOK
    <3>5. Claims'
      BY <2>1, <3>1, <3>2, <3>3, <3>4 DEF PairInv, Claims, Running, TypeOK
    <3>6. SweepSparesCallback'
      BY <1>0, <2>1, <3>2, <3>3, <3>4 DEF PairInv, SweepSparesCallback, Running
    <3>7. \A b \in Attempts : sealedBy[b] # c
      BY <2>1 DEF PairInv, Seals
    <3>8. Seals'
      BY <1>0, <2>1, <3>2, <3>3, <3>4, <3>7 DEF PairInv, Claims, Seals, TypeOK
    <3> QED
      BY <3>5, <3>6, <3>8
  <2>3. CASE ~Claimable(a)
    <3>1. /\ pc' = [pc EXCEPT ![c] = "back"]
          /\ UNCHANGED <<stage, claimedAt, state, now, session, sealedBy, sessionId>>
      BY <1>2, <2>3 DEF Claim, Go
    <3>2. Claims'
      BY <2>1, <3>1 DEF PairInv, Claims, Running, TypeOK
    <3>3. SweepSparesCallback' /\ Seals'
      BY <2>1, <3>1 DEF PairInv, SweepSparesCallback, Seals, TypeOK
    <3> QED
      BY <3>2, <3>3
  <2> QED
    BY <2>2, <2>3
<1>3. ASSUME NEW c \in Callbacks, Abandon(c) \/ UndoPair(c)
      PROVE  Claims' /\ SweepSparesCallback' /\ Seals'
  <2>1. /\ Running(c) /\ state[c] \in Attempts /\ pc[c] \in {"abandon", "undoPair"}
        /\ pc'[c] \in {"back", "undoSession"} /\ (pc'[c] = "undoSession" => pc[c] = "undoPair")
        /\ \A d \in Callbacks \ {c} : pc'[d] = pc[d]
        /\ UNCHANGED <<now, claimedAt, sealedBy, sessionId, session, state>>
    BY <1>0, <1>3 DEF Abandon, UndoPair, Go, Running, TypeOK
  <2>2. \A a \in Attempts :
          stage'[a] = stage[a] \/ (a = state[c] /\ InTable(a) /\ stage'[a] = "deleted")
    BY <1>3, PairsDropped DEF Abandon, UndoPair
  <2>3. \A d \in Callbacks \ {c} : state[d] # None => stage'[state[d]] = stage[state[d]]
    BY <2>1, <2>2 DEF PairInv, Claims, TypeOK
  <2>4. Claims'
    BY <2>1, <2>2, <2>3 DEF PairInv, Claims, Running, InTable
  <2>5. SweepSparesCallback'
    BY <1>0, <2>1, <2>3 DEF PairInv, SweepSparesCallback, Running
  <2>6. \A d \in Callbacks : session[d] = "swept" => state[d] # None
    BY DEF PairInv, Claims
  <2>7. Seals'
    BY <1>0, <2>1, <2>2, <2>3, <2>6 DEF PairInv, Seals, InTable
  <2> QED
    BY <2>4, <2>5, <2>7
<1>4. ASSUME NEW c \in Callbacks, Nexon(c)
      PROVE  Claims' /\ SweepSparesCallback' /\ Seals'
  <2>1. /\ pc[c] = "nexon" /\ Running(c) /\ pc'[c] \in {"create", "undoPair"}
        /\ \A d \in Callbacks \ {c} : pc'[d] = pc[d]
        /\ UNCHANGED <<now, stage, claimedAt, sealedBy, sessionId, session, state>>
    BY <1>4 DEF Nexon, Go, Running, TypeOK
  <2> QED
    BY <2>1 DEF PairInv, Claims, SweepSparesCallback, Seals, Running
<1>5. ASSUME NEW c \in Callbacks, CreateSession(c)
      PROVE  Claims' /\ SweepSparesCallback' /\ Seals'
  <2>1. /\ pc[c] = "create" /\ Running(c) /\ pc'[c] \in {"seal", "undoPair"}
        /\ \A d \in Callbacks \ {c} : pc'[d] = pc[d] /\ session'[d] = session[d]
        /\ session'[c] \in {session[c], "live"}
        /\ pc'[c] = "seal" => session'[c] = "live"
        /\ UNCHANGED <<now, stage, claimedAt, sealedBy, sessionId, state>>
    BY <1>5 DEF CreateSession, Go, Running, TypeOK
  <2>2. Claims' /\ SweepSparesCallback'
    BY <2>1 DEF PairInv, Claims, SweepSparesCallback, Running
  <2>3. Seals'
    BY <2>1 DEF PairInv, Seals
  <2> QED
    BY <2>2, <2>3
<1>6. ASSUME NEW c \in Callbacks, SealPair(c)
      PROVE  Claims' /\ SweepSparesCallback' /\ Seals'
  <2>1. /\ pc[c] = "seal" /\ Running(c) /\ state[c] \in Attempts
        /\ stage[state[c]] = "claimed" /\ InTable(state[c])
    BY <1>0, <1>6 DEF SealPair, Running, PairInv, SweepSparesCallback, InTable
  <2>2. /\ pc'[c] \in {"receipt", "undoPair"}
        /\ \A d \in Callbacks \ {c} : pc'[d] = pc[d]
        /\ UNCHANGED <<now, claimedAt, session, state>>
    BY <1>6 DEF SealPair, Go, TypeOK
  <2>3. \/ /\ stage'[state[c]] = "sealed" /\ sealedBy'[state[c]] = c /\ sessionId'[state[c]] = c
        \/ /\ pc'[c] = "undoPair"
           /\ UNCHANGED <<stage, sealedBy, sessionId>>
    BY <1>6, <2>1 DEF SealPair, Go, TypeOK
  <2>4. \A b \in Attempts \ {state[c]} :
          stage'[b] = stage[b] /\ sealedBy'[b] = sealedBy[b] /\ sessionId'[b] = sessionId[b]
    BY <1>6, <2>1 DEF SealPair, TypeOK
  <2>5. \A d \in Callbacks \ {c} : state[d] # None =>
          stage'[state[d]] = stage[state[d]] /\ sealedBy'[state[d]] = sealedBy[state[d]]
    BY <2>1, <2>4 DEF PairInv, Claims, TypeOK
  <2>6. Claims'
    BY <2>1, <2>2, <2>3, <2>5 DEF PairInv, Claims, Running
  <2>7. SweepSparesCallback'
    BY <1>0, <2>2, <2>5 DEF PairInv, SweepSparesCallback, Running
  <2>8. session[c] # "swept" /\ session[c] # "undone" /\ session[c] # "none"
    BY <2>1 DEF PairInv, Seals
  <2>9. \A d \in Callbacks : session[d] = "swept" => state[d] # None
    BY DEF PairInv, Claims
  <2>10. Seals'
    BY <1>0, <2>1, <2>2, <2>3, <2>4, <2>5, <2>8, <2>9 DEF PairInv, Seals
  <2> QED
    BY <2>6, <2>7, <2>10
<1>7. ASSUME NEW c \in Callbacks, UndoSession(c)
      PROVE  Claims' /\ SweepSparesCallback' /\ Seals'
  <2>1. /\ pc[c] = "undoSession" /\ Running(c) /\ pc'[c] = "back"
        /\ \A d \in Callbacks \ {c} : pc'[d] = pc[d]
        /\ UNCHANGED <<now, stage, claimedAt, sealedBy, state>>
    BY <1>7 DEF UndoSession, Go, Running, TypeOK
  <2>2. /\ \A d \in Callbacks \ {c} : session'[d] = session[d]
        /\ session'[c] \in {session[c], "undone"}
        /\ session'[c] # "none" => session[c] # "none"
        /\ \A a \in Attempts : sessionId'[a] \in {sessionId[a], None}
    BY <1>7, SessionsDropped DEF UndoSession
  <2>3. Claims' /\ SweepSparesCallback'
    BY <2>1, <2>2 DEF PairInv, Claims, SweepSparesCallback, Running
  <2>4. Seals'
    BY <2>1, <2>2 DEF PairInv, Seals
  <2> QED
    BY <2>3, <2>4
<1>8. ASSUME NEW r \in Asks, NEW a \in Attempts, NEW c \in Callbacks \cup {None}, Ask(r, a, c)
      PROVE  Claims' /\ SweepSparesCallback' /\ Seals'
  <2>1. \A b \in Attempts :
          stage'[b] = stage[b] \/ (stage[b] = "sealed" /\ InTable(b) /\ stage'[b] = "deleted")
    BY <1>8, PairsDropped DEF Ask, Redeemable
  <2>2. \A d \in Callbacks :
          pc[d] \in {"nexon", "create", "seal"} => stage'[state[d]] = stage[state[d]]
    BY <1>0, <2>1 DEF PairInv, SweepSparesCallback, Running
  <2> QED
    BY <1>8, <2>1, <2>2, Removal DEF Ask
<1>9. ASSUME \/ Withdraw
             \/ DeleteExpired
             \/ \E c \in Callbacks : EndSession(c)
      PROVE  Claims' /\ SweepSparesCallback' /\ Seals'
  <2>1. /\ \A d \in Callbacks :
             session'[d] = session[d]
               \/ (session[d] = "live" /\ session'[d] \in {"ended", "expired"})
        /\ \A b \in Attempts : sessionId'[b] \in {sessionId[b], None}
    <3>1. CASE Withdraw
      BY <3>1, SessionsDropped DEF Withdraw
    <3>2. CASE DeleteExpired
      BY <3>2, SessionsDropped DEF DeleteExpired
    <3>3. ASSUME NEW c \in Callbacks, EndSession(c)
          PROVE  /\ \A d \in Callbacks :
                      session'[d] = session[d]
                        \/ (session[d] = "live" /\ session'[d] \in {"ended", "expired"})
                 /\ \A b \in Attempts : sessionId'[b] \in {sessionId[b], None}
      BY <3>3, SessionsDropped DEF EndSession
    <3> QED
      BY <1>9, <3>1, <3>2, <3>3
  <2> QED
    BY <1>9, <2>1, Removal DEF Withdraw, DeleteExpired, EndSession
<1>10. ASSUME Sweep
       PROVE  Claims' /\ SweepSparesCallback' /\ Seals'
  <2>1. \A b \in Attempts :
          stage'[b] = stage[b] \/ (b \in DeadPairs /\ InTable(b) /\ stage'[b] = "deleted")
    BY <1>10, PairsDropped DEF Sweep
  <2>2. \A d \in Callbacks :
          pc[d] \in {"nexon", "create", "seal"} => stage'[state[d]] = stage[state[d]]
    <3> SUFFICES ASSUME NEW d \in Callbacks, pc[d] \in {"nexon", "create", "seal"}
                 PROVE  state[d] \notin DeadPairs
      BY <1>0, <2>1 DEF Running
    <3>1. /\ stage[state[d]] = "claimed" /\ state[d] \in Attempts
          /\ now <= claimedAt[state[d]] + CallbackMax
      BY <1>0 DEF PairInv, SweepSparesCallback, Claims, Running
    <3>2. now < claimedAt[state[d]] + Retention
      BY <3>1 DEF TypeOK
    <3> QED
      BY <3>1, <3>2 DEF DeadPairs, DeadAt, TypeOK
  <2>3. \A d \in Callbacks :
          session'[d] = session[d]
            \/ /\ session[d] = "live" /\ session'[d] = "swept"
               /\ d \in {sessionId[a] : a \in DeadPairs} \ {None}
    BY <1>10, SessionsDropped DEF Sweep
  <2>4. ASSUME NEW a \in DeadPairs, sessionId[a] # None
        PROVE  stage'[state[sessionId[a]]] = "deleted"
    BY <1>10, <2>4 DEF Sweep, DropPairs, DeadPairs, PairInv, Seals, TypeOK
  <2>5. \A b \in Attempts : sessionId'[b] \in {sessionId[b], None}
    BY <1>10, SessionsDropped DEF Sweep
  <2> QED
    BY <1>10, <2>1, <2>2, <2>3, <2>4, <2>5, Removal DEF Sweep
<1>11. ASSUME Tick
       PROVE  Claims' /\ SweepSparesCallback' /\ Seals'
  <2>1. /\ now' = now + 1
        /\ \A c \in Callbacks : Running(c) => now < claimedAt[state[c]] + CallbackMax
        /\ UNCHANGED <<stage, claimedAt, sealedBy, sessionId, session, pc, state>>
    BY <1>11 DEF Tick
  <2>2. Claims'
    BY <1>0, <2>1 DEF PairInv, Claims, Running, TypeOK
  <2> QED
    BY <2>1, <2>2 DEF PairInv, SweepSparesCallback, Seals
<1>12. ASSUME Crash
       PROVE  Claims' /\ SweepSparesCallback' /\ Seals'
  <2>1. /\ \A c \in Callbacks : pc'[c] = IF Running(c) THEN "dead" ELSE pc[c]
        /\ UNCHANGED <<now, stage, claimedAt, sealedBy, sessionId, session, state>>
    BY <1>12 DEF Crash
  <2> QED
    BY <2>1 DEF PairInv, Claims, SweepSparesCallback, Seals, Running
<1>13. ASSUME Restart \/ UNCHANGED vars \/ \E r \in Asks : Peek(r)
       PROVE  Claims' /\ SweepSparesCallback' /\ Seals'
  BY <1>13, Removal DEF Restart, vars, Peek
<1> QED
  BY <1>1, <1>2, <1>3, <1>4, <1>5, <1>6, <1>7, <1>8, <1>9, <1>10, <1>11, <1>12, <1>13 DEF Next

-----------------------------------------------------------------------------
(* What a callback that has answered leaves behind stays as it is. *)

\* Its answer, its pair and the time of its seal are final; its session only goes.
ReceiptsLast ==
  \A c \in Callbacks : pc[c] = "receipt" =>
    /\ pc'[c] = "receipt" /\ state'[c] = state[c]
    /\ sealedAt'[state[c]] = sealedAt[state[c]]
    /\ \/ session'[c] \in {session[c], "ended", "expired"}
       \/ session'[c] = "swept" /\ stage[state[c]] # "deleted"
    /\ session'[c] = "live" => sessionId'[state[c]] = sessionId[state[c]]

\* It answers with its pair sealed and pointing to its session.
ReceiptsArrive ==
  \A c \in Callbacks : pc'[c] = "receipt" /\ pc[c] # "receipt" =>
    state'[c] = state[c] /\ stage'[state[c]] = "sealed" /\ sessionId'[state[c]] = c

DeletedStay == \A a \in Attempts : stage[a] = "deleted" => stage'[a] = "deleted"

LEMMA ReceiptFrame ==
  ASSUME PairInv, [Next]_vars
  PROVE  ReceiptsLast /\ ReceiptsArrive /\ DeletedStay /\ now <= now'
<1> DEFINE Goal == ReceiptsLast /\ ReceiptsArrive /\ DeletedStay /\ now <= now'
<1> TypeOK
  BY DEF PairInv
<1>0. \A c \in Callbacks : Running(c) \/ pc[c] = "receipt" => state[c] \in Attempts
  BY NoneAssumption DEF PairInv, Claims, TypeOK
<1> USE TimeAssumption, NoneAssumption
<1> USE DEF pairVars, sessionVars, callbackVars, askVars, processVars
<1>1. ASSUME UNCHANGED <<now, stage, sealedAt, sessionId, session>>,
             \A c \in Callbacks : pc[c] = "receipt" => pc'[c] = "receipt" /\ state'[c] = state[c],
             \A c \in Callbacks : pc'[c] = "receipt" => pc[c] = "receipt"
      PROVE  Goal
  BY <1>1 DEF ReceiptsLast, ReceiptsArrive, DeletedStay, TypeOK
<1>2. ASSUME UNCHANGED <<now, stage, sealedAt, pc, state>>,
             \A c \in Callbacks : session'[c] \in {session[c], "ended", "expired"},
             \A a \in Attempts : sessionId'[a] \in {sessionId[a], None},
             \A a \in Attempts : sessionId'[a] # sessionId[a] => session'[sessionId[a]] # "live"
      PROVE  Goal
  <2>1. \A c \in Callbacks : pc[c] = "receipt" /\ session'[c] = "live" =>
          sessionId'[state[c]] = sessionId[state[c]]
    <3> SUFFICES ASSUME NEW c \in Callbacks, pc[c] = "receipt", session'[c] = "live",
                        sessionId'[state[c]] # sessionId[state[c]]
                 PROVE  FALSE
      OBVIOUS
    <3>1. sessionId[state[c]] = c
      BY <1>0, <1>2 DEF PairInv, Seals
    <3> QED
      BY <1>0, <1>2, <3>1
  <2> QED
    BY <1>2, <2>1 DEF ReceiptsLast, ReceiptsArrive, DeletedStay, TypeOK
<1>3. ASSUME NEW a \in Attempts, Start(a)
      PROVE  Goal
  <2>1. \A c \in Callbacks : pc[c] = "receipt" => state[c] # a
    BY <1>3 DEF Start, PairInv, Claims
  <2> QED
    BY <1>0, <1>3, <2>1 DEF Start, ReceiptsLast, ReceiptsArrive, DeletedStay, TypeOK
<1>4. ASSUME NEW c \in Callbacks, NEW a \in Attempts, Claim(c, a)
      PROVE  Goal
  <2>1. \A d \in Callbacks : pc[d] = "receipt" => d # c /\ (Claimable(a) => state[d] # a)
    BY <1>4 DEF Claim, Claimable, PairInv, Claims
  <2>2. /\ \A d \in Callbacks \ {c} : pc'[d] = pc[d] /\ state'[d] = state[d]
        /\ pc'[c] # "receipt"
        /\ \A b \in Attempts : stage'[b] = stage[b] \/ (b = a /\ Claimable(a))
        /\ UNCHANGED <<now, sealedAt, sessionId, session>>
    BY <1>4 DEF Claim, Go, TypeOK
  <2> QED
    BY <1>0, <2>1, <2>2
       DEF Claimable, ReceiptsLast, ReceiptsArrive, DeletedStay, TypeOK
<1>5. ASSUME NEW c \in Callbacks, Abandon(c) \/ UndoPair(c)
      PROVE  Goal
  <2>1. /\ pc[c] # "receipt" /\ pc'[c] # "receipt" /\ Running(c)
        /\ \A d \in Callbacks \ {c} : pc'[d] = pc[d]
        /\ UNCHANGED <<now, sealedAt, sessionId, session, state>>
    BY <1>5 DEF Abandon, UndoPair, Go, Running, TypeOK
  <2>2. \A a \in Attempts :
          stage'[a] = stage[a] \/ (a = state[c] /\ InTable(a) /\ stage'[a] = "deleted")
    BY <1>5, PairsDropped DEF Abandon, UndoPair
  <2>3. \A d \in Callbacks : pc[d] = "receipt" => stage'[state[d]] = stage[state[d]]
    BY <1>0, <2>1, <2>2 DEF PairInv, Claims
  <2> QED
    BY <2>1, <2>2, <2>3 DEF ReceiptsLast, ReceiptsArrive, DeletedStay, InTable, TypeOK
<1>6. ASSUME NEW c \in Callbacks, Nexon(c)
      PROVE  Goal
  BY <1>1, <1>6 DEF Nexon, Go, TypeOK
<1>7. ASSUME NEW c \in Callbacks, CreateSession(c)
      PROVE  Goal
  <2>1. /\ pc[c] = "create" /\ pc'[c] # "receipt"
        /\ \A d \in Callbacks \ {c} : pc'[d] = pc[d] /\ session'[d] = session[d]
        /\ UNCHANGED <<now, stage, sealedAt, sessionId, state>>
    BY <1>7 DEF CreateSession, Go, TypeOK
  <2> QED
    BY <2>1 DEF ReceiptsLast, ReceiptsArrive, DeletedStay, TypeOK
<1>8. ASSUME NEW c \in Callbacks, SealPair(c)
      PROVE  Goal
  <2>1. /\ pc[c] = "seal" /\ state[c] \in Attempts
        /\ stage[state[c]] = "claimed" /\ InTable(state[c])
    BY <1>0, <1>8 DEF SealPair, Running, PairInv, SweepSparesCallback, InTable
  <2>2. /\ \A d \in Callbacks \ {c} : pc'[d] = pc[d]
        /\ UNCHANGED <<now, session, state>>
    BY <1>8 DEF SealPair, Go, TypeOK
  <2>3. pc'[c] = "receipt" => stage'[state[c]] = "sealed" /\ sessionId'[state[c]] = c
    BY <1>8, <2>1 DEF SealPair, Go, TypeOK
  <2>4. \A b \in Attempts \ {state[c]} :
          stage'[b] = stage[b] /\ sealedAt'[b] = sealedAt[b] /\ sessionId'[b] = sessionId[b]
    BY <1>8, <2>1 DEF SealPair, TypeOK
  <2>5. \A d \in Callbacks : pc[d] = "receipt" => state[d] \in Attempts \ {state[c]}
    BY <1>0, <2>1 DEF PairInv, Claims
  <2>6. DeletedStay
    BY <2>1, <2>4 DEF DeletedStay
  <2> QED
    BY <2>1, <2>2, <2>3, <2>4, <2>5, <2>6 DEF ReceiptsLast, ReceiptsArrive, TypeOK
<1>9. ASSUME NEW c \in Callbacks, UndoSession(c)
      PROVE  Goal
  <2>1. /\ pc[c] = "undoSession" /\ pc'[c] = "back"
        /\ \A d \in Callbacks \ {c} : pc'[d] = pc[d]
        /\ UNCHANGED <<now, stage, sealedAt, state>>
    BY <1>9 DEF UndoSession, Go, TypeOK
  <2>2. /\ \A d \in Callbacks \ {c} : session'[d] = session[d]
        /\ \A a \in Attempts : sessionId'[a] = sessionId[a] \/ sessionId[a] = c
    BY <1>9, SessionsDropped DEF UndoSession
  <2>3. \A d \in Callbacks : pc[d] = "receipt" => sessionId'[state[d]] = sessionId[state[d]]
    BY <1>0, <2>1, <2>2 DEF PairInv, Seals
  <2> QED
    BY <2>1, <2>2, <2>3 DEF ReceiptsLast, ReceiptsArrive, DeletedStay, TypeOK
<1>10. ASSUME NEW S \in SUBSET Callbacks, NEW fate \in {"ended", "expired"},
              DropSessions(S, fate), UNCHANGED <<now, stage, sealedAt, pc, state>>
       PROVE  Goal
  <2>1. /\ \A c \in Callbacks : session'[c] \in {session[c], "ended", "expired"}
        /\ \A a \in Attempts : sessionId'[a] \in {sessionId[a], None}
        /\ \A a \in Attempts : sessionId'[a] # sessionId[a] => sessionId[a] \in S
    BY <1>10, SessionsDropped
  <2>2. \A c \in S : session'[c] # "live"
    BY <1>10 DEF DropSessions
  <2> QED
    BY <1>2, <1>10, <2>1, <2>2
<1>11. ASSUME Withdraw \/ DeleteExpired \/ \E c \in Callbacks : EndSession(c)
       PROVE  Goal
  BY <1>10, <1>11 DEF Withdraw, DeleteExpired, EndSession
<1>12. ASSUME Sweep
       PROVE  Goal
  <2>1. \A b \in Attempts :
          stage'[b] = stage[b] \/ (b \in DeadPairs /\ InTable(b) /\ stage'[b] = "deleted")
    BY <1>12, PairsDropped DEF Sweep
  <2>2. UNCHANGED <<now, sealedAt, pc, state>>
    BY <1>12 DEF Sweep
  <2>3. ASSUME NEW c \in Callbacks, pc[c] = "receipt"
        PROVE  /\ \/ session'[c] = session[c]
                  \/ session'[c] = "swept" /\ stage[state[c]] # "deleted"
               /\ session'[c] = "live" => sessionId'[state[c]] = sessionId[state[c]]
    <3>1. DropSessions({sessionId[a] : a \in DeadPairs} \ {None}, "swept")
      BY <1>12 DEF Sweep
    <3>2. \A a \in DeadPairs : sessionId[a] = c => state[c] = a /\ stage[a] # "deleted"
      BY DEF DeadPairs, InTable, PairInv, Seals
    <3>3. session'[c] = session[c] \/ (session'[c] = "swept" /\ stage[state[c]] # "deleted")
      BY <3>1, <3>2 DEF DropSessions
    <3>4. sessionId[state[c]] \in {c, None}
      BY <1>0, <2>3 DEF PairInv, Seals
    <3>5. session'[c] = "live" => sessionId'[state[c]] = sessionId[state[c]]
      BY <1>0, <2>3, <3>1, <3>4 DEF DropSessions
    <3> QED
      BY <3>3, <3>5
  <2> QED
    BY <2>1, <2>2, <2>3 DEF ReceiptsLast, ReceiptsArrive, DeletedStay, InTable, TypeOK
<1>13. ASSUME NEW r \in Asks, NEW a \in Attempts, NEW c \in Callbacks \cup {None}, Ask(r, a, c)
       PROVE  Goal
  <2>1. \A b \in Attempts :
          stage'[b] = stage[b] \/ (b = a /\ InTable(b) /\ stage'[b] = "deleted")
    BY <1>13, PairsDropped DEF Ask
  <2> QED
    BY <1>13, <2>1 DEF Ask, ReceiptsLast, ReceiptsArrive, DeletedStay, InTable, TypeOK
<1>14. ASSUME Tick
       PROVE  Goal
  BY <1>14 DEF Tick, ReceiptsLast, ReceiptsArrive, DeletedStay, TypeOK
<1>15. ASSUME Crash
       PROVE  Goal
  BY <1>1, <1>15 DEF Crash, Running, TypeOK
<1>16. ASSUME Restart \/ UNCHANGED vars \/ \E r \in Asks : Peek(r)
       PROVE  Goal
  BY <1>1, <1>16 DEF Restart, vars, Peek
<1> QED
  BY <1>3, <1>4, <1>5, <1>6, <1>7, <1>8, <1>9, <1>11, <1>12, <1>13, <1>14, <1>15, <1>16 DEF Next

\* A sealed pair whose callback answered points to the session as long as there is one.
Pointers ==
  \A c \in Callbacks :
    pc[c] = "receipt" /\ session[c] = "live" /\ stage[state[c]] = "sealed" =>
      sessionId[state[c]] = c

LEMMA PointersStep ==
  ASSUME PairInv, Pointers, [Next]_vars
  PROVE  Pointers'
<1> SUFFICES ASSUME NEW c \in Callbacks, pc'[c] = "receipt", session'[c] = "live",
                    stage'[state'[c]] = "sealed"
             PROVE  sessionId'[state'[c]] = c
  BY DEF Pointers
<1>1. ReceiptsLast /\ ReceiptsArrive /\ DeletedStay
  BY ReceiptFrame
<1>2. CASE pc[c] = "receipt"
  <2>1. state[c] \in Attempts
    BY <1>2, NoneAssumption DEF PairInv, Claims, TypeOK
  <2>2. stage[state[c]] = "sealed" /\ session[c] = "live"
    BY <1>1, <1>2, <2>1 DEF ReceiptsLast, DeletedStay, PairInv, Seals
  <2> QED
    BY <1>1, <1>2, <2>2 DEF ReceiptsLast, Pointers
<1>3. CASE pc[c] # "receipt"
  BY <1>1, <1>3 DEF ReceiptsArrive
<1> QED
  BY <1>2, <1>3

\* A sealed pair whose session stays goes only to the app that asks for it.
LEMMA SealedStays ==
  ASSUME PairInv, Pointers, [Next]_vars, NEW c \in Callbacks, pc[c] = "receipt",
         session'[c] = "live", stage[state[c]] = "sealed", stage'[state[c]] # "sealed"
  PROVE  \E r \in Asks : ask'[r] = "ok" /\ askWith'[r] = c
<1> TypeOK
  BY DEF PairInv
<1>0. state[c] \in Attempts
  BY NoneAssumption DEF PairInv, Claims, TypeOK
<1>1. stage' # stage
  OBVIOUS
<1>2. ASSUME NEW r \in Asks, NEW a \in Attempts, NEW d \in Callbacks \cup {None}, Ask(r, a, d)
      PROVE  \E q \in Asks : ask'[q] = "ok" /\ askWith'[q] = c
  <2>1. Redeemable(a, d) /\ a = state[c]
    BY <1>0, <1>2, PairsDropped DEF Ask
  <2>2. d = c
    BY <1>2, <2>1, NoneAssumption DEF Ask, Redeemable, PairInv, Seals
  <2> QED
    BY <1>2, <2>1, <2>2 DEF Ask, TypeOK
<1>3. ASSUME NEW a \in Attempts, Start(a)
      PROVE  FALSE
  BY <1>0, <1>3 DEF Start, TypeOK
<1>4. ASSUME NEW d \in Callbacks, NEW a \in Attempts, Claim(d, a)
      PROVE  FALSE
  BY <1>0, <1>4 DEF Claim, Claimable, TypeOK
<1>5. ASSUME NEW d \in Callbacks, Abandon(d) \/ UndoPair(d)
      PROVE  FALSE
  <2>1. state[c] = state[d]
    BY <1>0, <1>5, PairsDropped DEF Abandon, UndoPair
  <2>2. c = d
    BY <1>0, <2>1, NoneAssumption DEF PairInv, Claims
  <2> QED
    BY <1>5, <2>2 DEF Abandon, UndoPair
<1>6. ASSUME NEW d \in Callbacks, SealPair(d)
      PROVE  FALSE
  BY <1>0, <1>6 DEF SealPair, TypeOK
<1>7. ASSUME Sweep
      PROVE  FALSE
  <2>1. state[c] \in DeadPairs
    BY <1>0, <1>7, PairsDropped DEF Sweep
  <2>2. session[c] = "live" /\ sessionId[state[c]] = c
    BY ReceiptFrame DEF ReceiptsLast, Pointers
  <2> QED
    BY <1>7, <2>1, <2>2, NoneAssumption DEF Sweep, DropSessions
<1> QED
  BY <1>1, <1>2, <1>3, <1>4, <1>5, <1>6, <1>7
     DEF Next, Nexon, CreateSession, UndoSession, EndSession, Peek, Withdraw, DeleteExpired,
         Tick, Crash, Restart, vars, pairVars

-----------------------------------------------------------------------------
(* What the apps are told. *)

\* A receipt that was refused once is refused for good.
LEMMA RefusalLasts ==
  ASSUME PairInv, [Next]_vars, NEW c \in Callbacks, pc[c] = "receipt", ~Redeemable(state[c], c)
  PROVE  ~Redeemable(state[c], c)'
<1>1. ReceiptsLast /\ DeletedStay /\ now <= now'
  BY ReceiptFrame
<1>2. TypeOK /\ TypeOK'
  BY TypeStep DEF PairInv
<1>3. state[c] \in Attempts
  BY <1>2, NoneAssumption DEF PairInv, Claims, TypeOK
<1>4. stage[state[c]] \in {"sealed", "deleted"} /\ sealedBy[state[c]] = c
  BY DEF PairInv, Seals
<1>5. CASE stage[state[c]] = "deleted"
  BY <1>1, <1>3, <1>5 DEF ReceiptsLast, DeletedStay, Redeemable
<1>6. CASE sealedAt[state[c]] + Window <= now
  BY <1>1, <1>2, <1>3, <1>6, TimeAssumption DEF ReceiptsLast, Redeemable, TypeOK
<1> QED
  BY <1>2, <1>3, <1>4, <1>5, <1>6, NoneAssumption, TimeAssumption DEF Redeemable, TypeOK

LEMMA AskInit == Init => AskInv /\ Pointers
<1> SUFFICES ASSUME Init PROVE AskInv /\ Pointers
  OBVIOUS
<1>1. /\ \A r \in Asks : ask[r] = "idle" /\ askOf[r] = None /\ askWith[r] = None
      /\ \A c \in Callbacks : pc[c] = "idle"
  BY DEF Init
<1> QED
  BY <1>1 DEF AskInv, Answers, RedeemedOnce, HandedOutSessionKept, ReceiptSessionTracked,
              HandedOut, Pointers

\* The steps by which an answer may come about, seen from the apps.
AskFrame ==
  \A r \in Asks :
    /\ ask[r] # "idle" => askOf'[r] = askOf[r] /\ askWith'[r] = askWith[r]
    /\ ask'[r] = "idle" => ask[r] = "idle" /\ askWith'[r] = askWith[r]
    /\ ask'[r] # ask[r] =>
         \/ ask[r] = "peek" /\ ask'[r] \in {"dead", StageAnswer(askOf[r])}
         \/ /\ ask[r] = "idle" /\ askOf'[r] # None
            /\ askWith'[r] # None =>
                 /\ pc[askWith'[r]] = "receipt" /\ state[askWith'[r]] = askOf'[r]
                 /\ IF Redeemable(askOf'[r], askWith'[r])
                    THEN ask'[r] = "ok" /\ stage'[askOf'[r]] = "deleted"
                    ELSE ask'[r] = "peek"
            /\ ask'[r] \in {"ok", "peek"}
            /\ ask'[r] = "ok" => /\ askWith'[r] # None /\ stage[askOf'[r]] = "sealed"
                                 /\ \A q \in Asks \ {r} : ask'[q] = ask[q]

LEMMA AskFrameStep ==
  ASSUME TypeOK, [Next]_vars
  PROVE  AskFrame
<1> USE DEF pairVars, sessionVars, callbackVars, askVars, processVars
<1>1. ASSUME UNCHANGED <<ask, askOf, askWith>>
      PROVE  AskFrame
  BY <1>1 DEF AskFrame
<1>2. ASSUME NEW r \in Asks, NEW a \in Attempts, NEW c \in Callbacks \cup {None}, Ask(r, a, c)
      PROVE  AskFrame
  <2>1. /\ ask[r] = "idle" /\ askOf'[r] = a /\ askWith'[r] = c
        /\ ask'[r] = IF Redeemable(a, c) THEN "ok" ELSE "peek"
        /\ \A q \in Asks \ {r} : ask'[q] = ask[q] /\ askOf'[q] = askOf[q] /\ askWith'[q] = askWith[q]
    BY <1>2 DEF Ask, TypeOK
  <2>2. c # None => pc[c] = "receipt" /\ state[c] = a
    BY <1>2 DEF Ask, Receipts
  <2>3. Redeemable(a, c) => c # None /\ stage[a] = "sealed" /\ stage'[a] = "deleted"
    BY <1>2 DEF Ask, Redeemable, DropPairs, InTable
  <2> QED
    BY <2>1, <2>2, <2>3, NoneAssumption DEF AskFrame
<1>3. ASSUME NEW r \in Asks, Peek(r)
      PROVE  AskFrame
  <2>1. /\ ask[r] = "peek" /\ ask'[r] = StageAnswer(askOf[r])
        /\ \A q \in Asks \ {r} : ask'[q] = ask[q]
        /\ UNCHANGED <<askOf, askWith>>
    BY <1>3 DEF Peek, TypeOK
  <2> QED
    BY <2>1 DEF AskFrame, StageAnswer
<1>4. ASSUME Crash
      PROVE  AskFrame
  BY <1>4 DEF Crash, AskFrame
<1> QED
  BY <1>1, <1>2, <1>3, <1>4
     DEF Next, Start, Claim, Abandon, Nexon, CreateSession, SealPair, UndoPair, UndoSession,
         EndSession, Withdraw, Sweep, DeleteExpired, Tick, Restart, vars

\* The step that hands a session out leaves every session alone.
LEMMA HandingOutIsQuiet ==
  ASSUME TypeOK, [Next]_vars, NEW r \in Asks, ask[r] # "ok", ask'[r] = "ok"
  PROVE  session' = session
<1>1. PICK q \in Asks, a \in Attempts, c \in Callbacks \cup {None} : Ask(q, a, c)
  <2>1. ASSUME NEW q \in Asks, Peek(q) PROVE FALSE
    BY <2>1 DEF Peek, StageAnswer, TypeOK
  <2>2. ask' # ask
    OBVIOUS
  <2> QED
    BY <2>1, <2>2
       DEF Next, Start, Claim, Abandon, Nexon, CreateSession, SealPair, UndoPair, UndoSession,
           EndSession, Withdraw, Sweep, DeleteExpired, Tick, Restart, Crash, vars, askVars
<1> QED
  BY <1>1 DEF Ask, sessionVars

LEMMA AskStep ==
  ASSUME PairInv, Pointers, AskInv, [Next]_vars
  PROVE  AskInv'
<1>1. TypeOK /\ TypeOK' /\ AskFrame /\ ReceiptsLast /\ ReceiptsArrive /\ DeletedStay
  BY TypeStep, AskFrameStep, ReceiptFrame DEF PairInv
<1>2. PairInv'
  BY PairStep
<1>3. \A r \in Asks : askWith'[r] # None =>
        pc[askWith'[r]] = "receipt" /\ state[askWith'[r]] = askOf'[r] /\ askWith'[r] \in Callbacks
  <2> SUFFICES ASSUME NEW r \in Asks, askWith'[r] # None
               PROVE  pc[askWith'[r]] = "receipt" /\ state[askWith'[r]] = askOf'[r]
    BY <1>1 DEF TypeOK
  <2>1. CASE ask[r] # "idle"
    BY <1>1, <2>1 DEF AskFrame, AskInv, Answers
  <2>2. CASE ask[r] = "idle"
    BY <1>1, <2>2 DEF AskFrame, AskInv, Answers
  <2> QED
    BY <2>1, <2>2
<1>4. \A r \in Asks : ask'[r] = "ok" =>
        /\ askWith'[r] # None /\ stage'[askOf'[r]] = "deleted"
        /\ ask[r] # "ok" => /\ stage[askOf'[r]] = "sealed"
                           /\ \A q \in Asks \ {r} : ask'[q] = ask[q]
  <2> SUFFICES ASSUME NEW r \in Asks, ask'[r] = "ok"
               PROVE  /\ askWith'[r] # None /\ stage'[askOf'[r]] = "deleted"
                      /\ ask[r] # "ok" => /\ stage[askOf'[r]] = "sealed"
                                         /\ \A q \in Asks \ {r} : ask'[q] = ask[q]
    OBVIOUS
  <2>1. CASE ask[r] = "ok"
    <3>1. askOf[r] \in Attempts
      BY <1>1, <2>1 DEF AskInv, Answers, TypeOK
    <3> QED
      BY <1>1, <2>1, <3>1 DEF AskFrame, AskInv, Answers, DeletedStay
  <2>2. CASE ask[r] # "ok"
    BY <1>1, <2>2 DEF AskFrame, StageAnswer
  <2> QED
    BY <2>1, <2>2
<1>5. Answers'
  <2>1. ASSUME NEW r \in Asks, askWith'[r] # None
        PROVE  /\ ask'[r] \notin {"pending", "cancelled"}
               /\ ask'[r] \in {"peek", "gone", "dead"} => ~Redeemable(state[askWith'[r]], askWith'[r])
    <3>1. stage[state[askWith'[r]]] \in {"sealed", "deleted"}
      BY <1>3, <2>1 DEF PairInv, Seals
    <3>2. CASE ask[r] = "idle"
      BY <1>1, <1>3, <2>1, <3>2 DEF AskFrame, AskInv, Answers
    <3>3. CASE ask[r] # "idle" /\ ask'[r] = ask[r]
      BY <1>1, <1>3, <2>1, <3>3 DEF AskFrame, AskInv, Answers
    <3>4. CASE ask[r] = "peek" /\ ask'[r] # ask[r]
      BY <1>1, <1>3, <2>1, <3>1, <3>4 DEF AskFrame, AskInv, Answers, StageAnswer
    <3> QED
      BY <1>1, <3>2, <3>3, <3>4 DEF AskFrame
  <2>2. ASSUME NEW r \in Asks, NEW c \in Callbacks, c = askWith'[r],
               ask'[r] \in {"peek", "gone", "dead"}
        PROVE  ~(Redeemable(askOf[r], askWith[r])')
    <3>1. pc[c] = "receipt" /\ ~Redeemable(state[c], c) /\ state[c] = askOf'[r]
      BY <1>3, <2>1, <2>2, NoneAssumption
    <3>2. ~(Redeemable(state[c], c)')
      BY <3>1, RefusalLasts
    <3>3. state'[c] = state[c]
      BY <1>1, <3>1 DEF ReceiptsLast
    <3> QED
      BY <2>2, <3>1, <3>2, <3>3 DEF Redeemable
  <2>3. \A r \in Asks : askWith'[r] # None =>
          pc'[askWith'[r]] = "receipt" /\ state'[askWith'[r]] = askOf'[r]
    BY <1>1, <1>3 DEF ReceiptsLast
  <2>4. \A r \in Asks : ask'[r] = "idle" => askWith'[r] = None
    BY <1>1 DEF AskFrame, AskInv, Answers
  <2>5. \A r \in Asks : ask'[r] # "idle" => askOf'[r] # None
    BY <1>1 DEF AskFrame, AskInv, Answers
  <2> QED
    BY <1>3, <1>4, <2>1, <2>2, <2>3, <2>4, <2>5 DEF Answers
<1>6. RedeemedOnce'
  <2> SUFFICES ASSUME NEW r \in Asks, NEW q \in Asks, ask'[r] = "ok", ask'[q] = "ok",
                      askOf'[r] = askOf'[q], r # q
               PROVE  FALSE
    BY DEF RedeemedOnce
  <2>1. ASSUME NEW x \in Asks, NEW y \in Asks, x # y, ask'[x] = "ok", ask'[y] = "ok",
               askOf'[x] = askOf'[y], ask[x] # "ok"
        PROVE  FALSE
    <3>1. ask[y] = "ok" /\ stage[askOf'[y]] = "sealed"
      BY <1>4, <2>1
    <3>2. askOf'[y] = askOf[y] /\ stage[askOf[y]] = "deleted"
      BY <1>1, <3>1 DEF AskFrame, AskInv, Answers
    <3> QED
      BY <3>1, <3>2
  <2>2. ask[r] = "ok" /\ ask[q] = "ok"
    BY <2>1
  <2>3. askOf[r] = askOf[q]
    BY <1>1, <2>2 DEF AskFrame
  <2> QED
    BY <2>2, <2>3 DEF AskInv, RedeemedOnce
<1>7. \A c \in Callbacks : HandedOut(c) => HandedOut(c)'
  BY <1>1 DEF HandedOut, AskFrame
<1>8. HandedOutSessionKept'
  <2> SUFFICES ASSUME NEW c \in Callbacks, NEW r \in Asks, ask'[r] = "ok", askWith'[r] = c
               PROVE  session'[c] \in {"live", "ended", "expired"}
    BY DEF HandedOutSessionKept, HandedOut
  <2>1. pc[c] = "receipt" /\ state[c] = askOf'[r]
    BY <1>3, NoneAssumption
  <2>2. session'[c] \in {session[c], "ended", "expired"} \/ (session'[c] = "swept" /\ stage[state[c]] # "deleted")
    BY <1>1, <2>1 DEF ReceiptsLast
  <2>3. CASE ask[r] = "ok"
    <3>1. askOf'[r] = askOf[r] /\ askWith[r] = c /\ stage[askOf[r]] = "deleted"
      BY <1>1, <2>3 DEF AskFrame, AskInv, Answers
    <3>2. session[c] \in {"live", "ended", "expired"}
      BY <2>3, <3>1 DEF AskInv, HandedOutSessionKept, HandedOut
    <3> QED
      BY <2>1, <2>2, <3>1, <3>2
  <2>4. CASE ask[r] # "ok"
    <3>1. stage[state[c]] = "sealed" /\ stage'[state[c]] = "deleted"
      BY <1>4, <2>1, <2>4
    <3>2. session[c] \in {"live", "ended", "expired"}
      BY <1>1, <2>1, <3>1 DEF PairInv, Seals, TypeOK, Fates
    <3>3. session' = session
      BY <1>1, <2>4, HandingOutIsQuiet
    <3> QED
      BY <3>2, <3>3
  <2> QED
    BY <2>3, <2>4
<1>9. ReceiptSessionTracked'
  <2> SUFFICES ASSUME NEW c \in Callbacks, pc'[c] = "receipt", session'[c] = "live",
                      ~(HandedOut(c)')
               PROVE  stage'[state'[c]] = "sealed" /\ sessionId'[state'[c]] = c
    BY DEF ReceiptSessionTracked
  <2>1. CASE pc[c] = "receipt"
    <3>1. session[c] = "live" /\ ~HandedOut(c)
      BY <1>1, <1>7, <2>1 DEF ReceiptsLast
    <3>2. stage[state[c]] = "sealed" /\ sessionId[state[c]] = c
      BY <2>1, <3>1 DEF AskInv, ReceiptSessionTracked
    <3>3. stage'[state[c]] = "sealed"
      BY <2>1, <3>2, SealedStays DEF HandedOut
    <3> QED
      BY <1>1, <2>1, <3>2, <3>3 DEF ReceiptsLast
  <2>2. CASE pc[c] # "receipt"
    BY <1>1, <2>2 DEF ReceiptsArrive
  <2> QED
    BY <2>1, <2>2
<1> QED
  BY <1>5, <1>6, <1>8, <1>9 DEF AskInv

-----------------------------------------------------------------------------
(* The clock of the sweep. *)

\* While the interval runs, a pair only comes to the table, or to a new stage, with time to live.
LEMMA ClockRuns ==
  ASSUME TypeOK, SweepClock, UNCHANGED <<now, up, bootAt, nextSweep>>,
         \A a \in Attempts : InTable(a)' =>
           \/ InTable(a) /\ DeadAt(a)' = DeadAt(a)
           \/ DeadAt(a)' \in Nat /\ now <= DeadAt(a)'
  PROVE  SweepClock'
<1> SUFFICES ASSUME up'
             PROVE  /\ now' <= nextSweep' /\ nextSweep' <= now' + Interval
                    /\ \A a \in Attempts : InTable(a)' =>
                         nextSweep' <= DeadAt(a)' + Interval \/ nextSweep' <= bootAt' + Interval
  BY DEF SweepClock
<1>1. /\ now <= nextSweep /\ nextSweep <= now + Interval
      /\ \A a \in Attempts : InTable(a) =>
           nextSweep <= DeadAt(a) + Interval \/ nextSweep <= bootAt + Interval
  BY DEF SweepClock
<1>2. now' = now /\ bootAt' = bootAt /\ nextSweep' = nextSweep
  OBVIOUS
<1>3. now \in Nat /\ nextSweep \in Nat /\ bootAt \in Nat /\ Interval \in Nat
  BY TimeAssumption DEF TypeOK
<1>4. ASSUME NEW a \in Attempts, InTable(a)'
      PROVE  nextSweep <= DeadAt(a)' + Interval \/ nextSweep <= bootAt + Interval
  <2>1. CASE InTable(a) /\ DeadAt(a)' = DeadAt(a)
    BY <1>1, <2>1
  <2>2. CASE DeadAt(a)' \in Nat /\ now <= DeadAt(a)'
    BY <1>1, <1>3, <2>2
  <2> QED
    BY <1>4, <2>1, <2>2
<1> QED
  BY <1>1, <1>2, <1>4

LEMMA ClockInit == Init => SweepClock
BY TimeAssumption DEF Init, SweepClock, InTable

LEMMA ClockStep ==
  ASSUME TypeOK, SweepClock, [Next]_vars
  PROVE  SweepClock'
<1> USE DEF pairVars, sessionVars, callbackVars, askVars, processVars
<1>0. /\ now \in Nat /\ nextSweep \in Nat /\ Interval \in Nat /\ Ttl \in Nat /\ Retention \in Nat
      /\ \A a \in Attempts : expiresAt[a] \in Nat /\ claimedAt[a] \in Nat /\ sealedAt[a] \in Nat
      /\ \A a \in Attempts : DeadAt(a) \in Nat
  BY TimeAssumption DEF TypeOK, DeadAt
<1>1. ASSUME UNCHANGED <<now, up, bootAt, nextSweep, expiresAt, claimedAt, sealedAt>>,
             \E A : DropPairs(A) \/ UNCHANGED stage
      PROVE  SweepClock'
  <2>1. \A a \in Attempts : InTable(a)' => InTable(a) /\ DeadAt(a)' = DeadAt(a)
    BY <1>1, PairsDropped DEF InTable, DeadAt
  <2> QED
    BY <1>1, <2>1, ClockRuns
<1>2. ASSUME NEW b \in Attempts, Start(b)
      PROVE  SweepClock'
  <2>1. \A a \in Attempts : a # b => (InTable(a)' <=> InTable(a)) /\ DeadAt(a)' = DeadAt(a)
    BY <1>2 DEF Start, InTable, DeadAt, TypeOK
  <2>2. DeadAt(b)' = now + Ttl
    BY <1>2 DEF Start, DeadAt, TypeOK
  <2>3. UNCHANGED <<now, up, bootAt, nextSweep>>
    BY <1>2 DEF Start
  <2> QED
    BY <1>0, <2>1, <2>2, <2>3, ClockRuns
<1>3. ASSUME NEW c \in Callbacks, NEW b \in Attempts, Claim(c, b)
      PROVE  SweepClock'
  <2>1. \A a \in Attempts : a # b => (InTable(a)' <=> InTable(a)) /\ DeadAt(a)' = DeadAt(a)
    BY <1>3 DEF Claim, InTable, DeadAt, TypeOK
  <2>2. \/ DeadAt(b)' = Retention + now
        \/ (InTable(b)' <=> InTable(b)) /\ DeadAt(b)' = DeadAt(b)
    BY <1>3 DEF Claim, InTable, DeadAt, TypeOK
  <2>3. UNCHANGED <<now, up, bootAt, nextSweep>>
    BY <1>3 DEF Claim
  <2> QED
    BY <1>0, <2>1, <2>2, <2>3, ClockRuns
<1>4. ASSUME NEW c \in Callbacks, SealPair(c)
      PROVE  SweepClock'
  <2>1. \A a \in Attempts :
          \/ (InTable(a)' <=> InTable(a)) /\ DeadAt(a)' = DeadAt(a)
          \/ DeadAt(a)' = Retention + now
    BY <1>4 DEF SealPair, InTable, DeadAt, TypeOK
  <2>2. UNCHANGED <<now, up, bootAt, nextSweep>>
    BY <1>4 DEF SealPair
  <2> QED
    BY <1>0, <2>1, <2>2, ClockRuns
<1>5. ASSUME Sweep
      PROVE  SweepClock'
  <2>1. \A a \in Attempts : InTable(a)' => DeadAt(a)' = DeadAt(a) /\ now < DeadAt(a)
    <3> SUFFICES ASSUME NEW a \in Attempts, InTable(a)'
                 PROVE  DeadAt(a)' = DeadAt(a) /\ now < DeadAt(a)
      OBVIOUS
    <3>1. stage'[a] = stage[a] /\ InTable(a) /\ a \notin DeadPairs
      BY <1>5 DEF Sweep, DropPairs, InTable, TypeOK
    <3>2. DeadAt(a)' = DeadAt(a)
      BY <1>5, <3>1 DEF Sweep, DeadAt
    <3> QED
      BY <1>0, <3>1, <3>2 DEF DeadPairs
  <2>2. now' = now /\ nextSweep' = now + Interval
    BY <1>5 DEF Sweep
  <2>3. /\ now' <= nextSweep' /\ nextSweep' <= now' + Interval
        /\ \A a \in Attempts : InTable(a)' => nextSweep' <= DeadAt(a)' + Interval
    BY <1>0, <2>1, <2>2
  <2> QED
    BY <2>3 DEF SweepClock
<1>6. ASSUME Tick
      PROVE  SweepClock'
  <2>1. /\ now' = now + 1 /\ up' = up /\ nextSweep' = nextSweep /\ bootAt' = bootAt
        /\ up => now < nextSweep
        /\ \A a \in Attempts : (InTable(a)' <=> InTable(a)) /\ DeadAt(a)' = DeadAt(a)
    BY <1>6 DEF Tick, InTable, DeadAt
  <2>2. up => now' <= nextSweep' /\ (nextSweep <= now + Interval => nextSweep' <= now' + Interval)
    BY <1>0, <2>1
  <2> QED
    BY <2>1, <2>2 DEF SweepClock
<1>7. ASSUME Restart
      PROVE  SweepClock'
  <2>1. now' = now /\ bootAt' = now /\ nextSweep' = now + Interval
    BY <1>7 DEF Restart
  <2>2. now' <= nextSweep' /\ nextSweep' <= now' + Interval /\ nextSweep' <= bootAt' + Interval
    BY <1>0, <2>1
  <2> QED
    BY <2>2 DEF SweepClock
<1>8. ASSUME Crash
      PROVE  SweepClock'
  BY <1>8 DEF Crash, SweepClock
<1>9. ASSUME NEW c \in Callbacks,
             \/ Abandon(c) \/ Nexon(c) \/ CreateSession(c) \/ UndoPair(c) \/ UndoSession(c)
             \/ EndSession(c)
      PROVE  SweepClock'
  BY <1>1, <1>9 DEF Abandon, Nexon, CreateSession, UndoPair, UndoSession, EndSession
<1>10. ASSUME \/ \E r \in Asks, a \in Attempts, c \in Callbacks \cup {None} : Ask(r, a, c)
              \/ \E r \in Asks : Peek(r)
       PROVE  SweepClock'
  BY <1>1, <1>10 DEF Ask, Peek
<1>11. ASSUME Withdraw \/ DeleteExpired \/ UNCHANGED vars
       PROVE  SweepClock'
  BY <1>1, <1>11 DEF Withdraw, DeleteExpired, vars
<1> QED
  BY <1>2, <1>3, <1>4, <1>5, <1>6, <1>7, <1>8, <1>9, <1>10, <1>11 DEF Next

-----------------------------------------------------------------------------
(* Theorems. *)

\* Every state a login can reach keeps each callback alone with its pair and each seal true.
THEOREM PairInvariant == Spec => []PairInv
<1>1. Init => PairInv
  BY PairInit
<1>2. PairInv /\ [Next]_vars => PairInv'
  BY PairStep
<1> QED
  BY <1>1, <1>2, PTL DEF Spec

\* Every variable keeps its type.
THEOREM TypeCorrect == Spec => []TypeOK
<1>1. PairInv => TypeOK
  BY DEF PairInv
<1> QED
  BY <1>1, PairInvariant, PTL

\* However many copies of the callback address arrive, one login makes at most one session:
\* the claim of a pair succeeds once and nothing makes its state claimable again.
THEOREM OneSession == Spec => []OneSessionPerLogin
<1>1. PairInv => OneSessionPerLogin
  <2> SUFFICES ASSUME PairInv, NEW c \in Callbacks, NEW d \in Callbacks,
                      state[c] = state[d], session[c] # "none", session[d] # "none"
               PROVE  c = d
    BY DEF OneSessionPerLogin
  <2>1. state[c] # None
    BY DEF PairInv, Claims
  <2> QED
    BY <2>1 DEF PairInv, Claims
<1> QED
  BY <1>1, PairInvariant, PTL

\* A callback that answers within the retention always finds the pair it claimed.
THEOREM CallbackKeepsPair == Spec => []SweepSparesCallback
<1>1. PairInv => SweepSparesCallback
  BY DEF PairInv
<1> QED
  BY <1>1, PairInvariant, PTL

\* Every state a redeem request can reach has told the truth about its pair.
THEOREM AskInvariant == Spec => [](AskInv /\ Pointers)
<1>1. Init => AskInv /\ Pointers
  BY AskInit
<1>2. PairInv /\ AskInv /\ Pointers /\ [Next]_vars => AskInv' /\ Pointers'
  BY AskStep, PointersStep
<1> QED
  BY <1>1, <1>2, PairInvariant, PTL DEF Spec

\* Of all the requests that carry the key of one pair, one at most is given the session.
THEOREM RedeemsOnce == Spec => []RedeemedOnce
<1>1. AskInv => RedeemedOnce
  BY DEF AskInv
<1> QED
  BY <1>1, AskInvariant, PTL

\* A session in the hands of an app is never swept with its pair nor undone by its callback.
THEOREM HandedOutIsKept == Spec => []HandedOutSessionKept
<1>1. AskInv => HandedOutSessionKept
  BY DEF AskInv
<1> QED
  BY <1>1, AskInvariant, PTL

\* A session whose receipt was sent is with an app, removed, or on a sealed pair.
THEOREM ReceiptIsTracked == Spec => []ReceiptSessionTracked
<1>1. AskInv => ReceiptSessionTracked
  BY DEF AskInv
<1> QED
  BY <1>1, AskInvariant, PTL

\* Who asks with the receipt is never told to wait, nor that a redeemable pair is gone.
THEOREM ReceiptIsDecisive == Spec => []ReceiptDecides
<1>1. AskInv => ReceiptDecides
  BY DEF AskInv, Answers, ReceiptDecides
<1> QED
  BY <1>1, AskInvariant, PTL

\* The job leaves a dead pair at most one interval, counted from its death or from the last start.
THEOREM DeadPairsGo == Spec => []DeadPairSoonGone
<1>1. Init => SweepClock
  BY ClockInit
<1>2. TypeOK /\ SweepClock /\ [Next]_vars => SweepClock'
  BY ClockStep
<1>3. TypeOK /\ SweepClock => DeadPairSoonGone
  <2> SUFFICES ASSUME TypeOK, SweepClock, NEW a \in Attempts, up, InTable(a)
               PROVE  now <= DeadAt(a) + Interval \/ now <= bootAt + Interval
    BY DEF DeadPairSoonGone
  <2>1. /\ now <= nextSweep
        /\ nextSweep <= DeadAt(a) + Interval \/ nextSweep <= bootAt + Interval
    BY DEF SweepClock
  <2>2. now \in Nat /\ nextSweep \in Nat /\ bootAt \in Nat /\ DeadAt(a) \in Nat /\ Interval \in Nat
    BY TimeAssumption DEF TypeOK, DeadAt
  <2> QED
    BY <2>1, <2>2
<1> QED
  BY <1>1, <1>2, <1>3, TypeCorrect, PTL DEF Spec

=============================================================================
