----------------------------- MODULE NexonLogin -----------------------------
(***************************************************************************)
(* One Nexon login, from src/src/modules/auth: the app starts a pair (an   *)
(* "attempt"), Nexon calls back with the pair's state, the callback makes  *)
(* a session and seals it on the pair, and the app redeems the pair with   *)
(* its own key and the receipt the callback returned.  A cleanup job       *)
(* removes dead pairs together with the sessions sealed on them.  Every    *)
(* action is one SQL statement or one external call: the points between    *)
(* two of them are where handlers interleave and where the process may     *)
(* die.                                                                    *)
(*                                                                         *)
(* A pair is named by an element of Attempts, which stands for its id, its *)
(* state and its redeem key (all three are unique and made together).  A   *)
(* session is named by the callback that made it, and so is its receipt.   *)
(* Time is in minutes.                                                     *)
(***************************************************************************)
EXTENDS Integers

CONSTANTS
  Attempts,     \* login pairs the apps may start
  Callbacks,    \* requests on the callback path, reloads of one address included
  Asks,         \* requests that redeem a pair
  None,         \* SQL NULL, JavaScript undefined
  Ttl,          \* ATTEMPT_TTL_MS
  Window,       \* REDEEM_WINDOW
  Retention,    \* SEALED_RETENTION
  Interval,     \* CLEANUP_INTERVAL_MS
  CallbackMax,  \* a callback answers within this time of its claim
  RefreshLife,  \* refresh_token_expires_in
  MaxNow,       \* bound: the clock stops here
  MaxRestarts   \* bound: crashes of the process

ASSUME NoneAssumption == None \notin Callbacks /\ None \notin Attempts

ASSUME TimeAssumption ==
  /\ Ttl \in Nat /\ Window \in Nat /\ Interval \in Nat
  /\ Retention \in Nat /\ CallbackMax \in Nat /\ RefreshLife \in Nat
  /\ MaxNow \in Nat /\ MaxRestarts \in Nat
  /\ CallbackMax < Retention

-----------------------------------------------------------------------------
VARIABLES
  now,          \* the clock of the database
  stage,        \* stage[a]: which of claimed_at and sealed_at pair a has
  expiresAt,    \* expires_at
  claimedAt,    \* claimed_at
  sealedAt,     \* sealed_at
  sealedBy,     \* receipt_hash and session_sealed: the callback that wrote them
  sessionId,    \* session_id, set to null by its foreign key
  session,      \* session[c]: the row made by callback c, or what removed it
  refreshEnds,  \* refresh_expires_at
  pc,           \* pc[c]: the statement callback c is at
  state,        \* state[c]: the pair callback c claimed
  made,         \* made[c]: whether the local sessionId of callback c is set
  ask,          \* ask[r]: where redeem request r is, or its answer
  askOf,        \* the pair whose redeem key r carries
  askWith,      \* the receipt r carries
  up,           \* the process is running
  bootAt,       \* when it last started
  nextSweep,    \* when the interval of the cleanup job fires next
  expiring,     \* the job is between its two statements
  restarts      \* crashes so far

pairVars     == <<stage, expiresAt, claimedAt, sealedAt, sealedBy, sessionId>>
sessionVars  == <<session, refreshEnds>>
callbackVars == <<pc, state, made>>
askVars      == <<ask, askOf, askWith>>
processVars  == <<up, bootAt, nextSweep, expiring, restarts>>

vars == <<now, pairVars, sessionVars, callbackVars, askVars, processVars>>

\* A session row is there, was never made, or is gone for one of four reasons.
Fates == {"none", "live", "ended", "expired", "swept", "undone"}

TypeOK ==
  /\ now \in Nat
  /\ stage \in [Attempts -> {"none", "open", "claimed", "sealed", "deleted"}]
  /\ expiresAt \in [Attempts -> Nat]
  /\ claimedAt \in [Attempts -> Nat]
  /\ sealedAt \in [Attempts -> Nat]
  /\ sealedBy \in [Attempts -> Callbacks \cup {None}]
  /\ sessionId \in [Attempts -> Callbacks \cup {None}]
  /\ session \in [Callbacks -> Fates]
  /\ refreshEnds \in [Callbacks -> Nat]
  /\ pc \in [Callbacks -> {"idle", "nexon", "create", "seal", "abandon",
                           "undoPair", "undoSession", "receipt", "back", "dead"}]
  /\ state \in [Callbacks -> Attempts \cup {None}]
  /\ made \in [Callbacks -> BOOLEAN]
  /\ ask \in [Asks -> {"idle", "peek", "ok", "cancelled", "pending", "gone", "dead"}]
  /\ askOf \in [Asks -> Attempts \cup {None}]
  /\ askWith \in [Asks -> Callbacks \cup {None}]
  /\ up \in BOOLEAN
  /\ bootAt \in Nat
  /\ nextSweep \in Nat
  /\ expiring \in BOOLEAN
  /\ restarts \in Nat

Init ==
  /\ now = 0
  /\ stage = [a \in Attempts |-> "none"]
  /\ expiresAt = [a \in Attempts |-> 0]
  /\ claimedAt = [a \in Attempts |-> 0]
  /\ sealedAt = [a \in Attempts |-> 0]
  /\ sealedBy = [a \in Attempts |-> None]
  /\ sessionId = [a \in Attempts |-> None]
  /\ session = [c \in Callbacks |-> "none"]
  /\ refreshEnds = [c \in Callbacks |-> 0]
  /\ pc = [c \in Callbacks |-> "idle"]
  /\ state = [c \in Callbacks |-> None]
  /\ made = [c \in Callbacks |-> FALSE]
  /\ ask = [r \in Asks |-> "idle"]
  /\ askOf = [r \in Asks |-> None]
  /\ askWith = [r \in Asks |-> None]
  /\ up = TRUE
  /\ bootAt = 0
  /\ nextSweep = Interval
  /\ expiring = FALSE
  /\ restarts = 0

-----------------------------------------------------------------------------
(* The two tables. *)

InTable(a) == stage[a] \in {"open", "claimed", "sealed"}

\* Mutant: redeeming, failing and sweeping read the pair but leave its row.
KeepPairs(A) == UNCHANGED stage

DropPairs(A) ==
  stage' = [a \in Attempts |-> IF a \in A /\ InTable(a) THEN "deleted" ELSE stage[a]]

\* Mutant: the pairs go and their sessions stay.
KeepSessions(S, fate) == UNCHANGED <<session, sessionId>>

\* Deleting a session nulls the session_id of the pair that points to it.
DropSessions(S, fate) ==
  /\ session' = [c \in Callbacks |->
                   IF c \in S /\ session[c] = "live" THEN fate ELSE session[c]]
  /\ sessionId' = [a \in Attempts |-> IF sessionId[a] \in S THEN None ELSE sessionId[a]]

Go(c, label) == pc' = [pc EXCEPT ![c] = label]

-----------------------------------------------------------------------------
(* AuthService.start and AuthService.callback. *)

Start(a) ==
  /\ up
  /\ stage[a] = "none"
  /\ stage' = [stage EXCEPT ![a] = "open"]
  /\ expiresAt' = [expiresAt EXCEPT ![a] = now + Ttl]
  /\ UNCHANGED <<now, claimedAt, sealedAt, sealedBy, sessionId,
                 sessionVars, callbackVars, askVars, processVars>>

\* Mutant: claim() without claimed_at IS NULL.
ClaimableAgain(a) == stage[a] \in {"open", "claimed"} /\ now < expiresAt[a]

Claimable(a) == stage[a] = "open" /\ now < expiresAt[a]

\* The request arrives with the state of pair a, with or without a code.
Claim(c, a) ==
  /\ up
  /\ pc[c] = "idle"
  /\ IF Claimable(a)
     THEN /\ stage' = [stage EXCEPT ![a] = "claimed"]
          /\ claimedAt' = [claimedAt EXCEPT ![a] = now]
          /\ state' = [state EXCEPT ![c] = a]
          /\ \E label \in {"nexon", "abandon"} : Go(c, label)
     ELSE Go(c, "back") /\ UNCHANGED <<stage, claimedAt, state>>
  /\ UNCHANGED <<now, expiresAt, sealedAt, sealedBy, sessionId, sessionVars,
                 made, askVars, processVars>>

\* Without a code the pair is deleted; when that throws the controller redirects.
Abandon(c) ==
  /\ up
  /\ pc[c] = "abandon"
  /\ Go(c, "back")
  /\ DropPairs({state[c]}) \/ UNCHANGED stage
  /\ UNCHANGED <<now, expiresAt, claimedAt, sealedAt, sealedBy, sessionId,
                 sessionVars, state, made, askVars, processVars>>

\* exchange, userinfo and upsertByNexonUid: they touch neither table, and each may throw.
Nexon(c) ==
  /\ up
  /\ pc[c] = "nexon"
  /\ \E label \in {"create", "undoPair"} : Go(c, label)
  /\ UNCHANGED <<now, pairVars, sessionVars, state, made, askVars, processVars>>

\* The insert commits and answers, fails, or commits without the answer arriving.
CreateSession(c) ==
  /\ up
  /\ pc[c] = "create"
  /\ \E commits, answers \in BOOLEAN :
       /\ answers => commits
       /\ IF commits
          THEN /\ session' = [session EXCEPT ![c] = "live"]
               /\ refreshEnds' = [refreshEnds EXCEPT ![c] = now + RefreshLife]
          ELSE UNCHANGED sessionVars
       /\ made' = [made EXCEPT ![c] = answers]
       /\ Go(c, IF answers THEN "seal" ELSE "undoPair")
  /\ UNCHANGED <<now, pairVars, state, askVars, processVars>>

\* An UPDATE by id: a pair that is gone takes nothing and raises nothing, and a
\* session that is gone breaks the foreign key.
SealPair(c) ==
  LET a == state[c] IN
  /\ up
  /\ pc[c] = "seal"
  /\ \E commits, answers \in BOOLEAN :
       /\ answers => commits
       /\ commits => session[c] = "live" \/ ~InTable(a)
       /\ IF commits /\ InTable(a)
          THEN /\ stage' = [stage EXCEPT ![a] = "sealed"]
               /\ sealedAt' = [sealedAt EXCEPT ![a] = now]
               /\ sealedBy' = [sealedBy EXCEPT ![a] = c]
               /\ sessionId' = [sessionId EXCEPT ![a] = c]
          ELSE UNCHANGED <<stage, sealedAt, sealedBy, sessionId>>
       /\ Go(c, IF answers THEN "receipt" ELSE "undoPair")
  /\ UNCHANGED <<now, expiresAt, claimedAt, sessionVars, state, made, askVars, processVars>>

\* The catch block, whose deletions may themselves fail unnoticed.
UndoPair(c) ==
  /\ up
  /\ pc[c] = "undoPair"
  /\ Go(c, IF made[c] THEN "undoSession" ELSE "back")
  /\ DropPairs({state[c]}) \/ UNCHANGED stage
  /\ UNCHANGED <<now, expiresAt, claimedAt, sealedAt, sealedBy, sessionId,
                 sessionVars, state, made, askVars, processVars>>

UndoSession(c) ==
  /\ up
  /\ pc[c] = "undoSession"
  /\ Go(c, "back")
  /\ DropSessions({c}, "undone") \/ UNCHANGED <<session, sessionId>>
  /\ UNCHANGED <<now, stage, expiresAt, claimedAt, sealedAt, sealedBy, refreshEnds,
                 state, made, askVars, processVars>>

-----------------------------------------------------------------------------
(* AuthService.redeem. *)

\* The receipts the app of pair a may present: the one it was redirected with, or none.
Receipts(a) == {c \in Callbacks : pc[c] = "receipt" /\ state[c] = a} \cup {None}

Redeemable(a, receipt) ==
  /\ stage[a] = "sealed"
  /\ receipt # None /\ sealedBy[a] = receipt
  /\ now < sealedAt[a] + Window

\* The DELETE ... RETURNING that hands the session out.
Ask(r, a, receipt) ==
  /\ up
  /\ ask[r] = "idle"
  /\ stage[a] # "none"
  /\ receipt \in Receipts(a)
  /\ askOf' = [askOf EXCEPT ![r] = a]
  /\ askWith' = [askWith EXCEPT ![r] = receipt]
  /\ IF Redeemable(a, receipt)
     THEN ask' = [ask EXCEPT ![r] = "ok"] /\ DropPairs({a})
     ELSE ask' = [ask EXCEPT ![r] = "peek"] /\ UNCHANGED stage
  /\ UNCHANGED <<now, expiresAt, claimedAt, sealedAt, sealedBy, sessionId,
                 sessionVars, callbackVars, processVars>>

\* Mutant: the answer is the stage itself.
RawStage(a) == stage[a]

\* Mutant: redeem() without its check of sealed_at.
PendingWhileThere(a) ==
  IF stage[a] = "open" THEN "cancelled" ELSE IF InTable(a) THEN "pending" ELSE "gone"

StageAnswer(a) ==
  IF stage[a] = "open" THEN "cancelled"
  ELSE IF stage[a] = "claimed" THEN "pending" ELSE "gone"

\* A later statement tells the app which stage the pair is at.
Peek(r) ==
  /\ up
  /\ ask[r] = "peek"
  /\ ask' = [ask EXCEPT ![r] = StageAnswer(askOf[r])]
  /\ UNCHANGED <<now, pairVars, sessionVars, callbackVars, askOf, askWith, processVars>>

-----------------------------------------------------------------------------
(* Sessions that end for their owner's reasons, and the cleanup job. *)

HandedOut(c) == \E r \in Asks : ask[r] = "ok" /\ askWith[r] = c

\* Logout, and the deletion of a session whose token Nexon rejected.
EndSession(c) ==
  /\ up
  /\ HandedOut(c)
  /\ session[c] = "live"
  /\ DropSessions({c}, "ended")
  /\ UNCHANGED <<now, stage, expiresAt, claimedAt, sealedAt, sealedBy, refreshEnds,
                 callbackVars, askVars, processVars>>

\* Withdrawal deletes every session of the person, those not yet handed out included.
Withdraw ==
  /\ up
  /\ \E c \in Callbacks : session[c] = "live"
  /\ DropSessions(Callbacks, "ended")
  /\ UNCHANGED <<now, stage, expiresAt, claimedAt, sealedAt, sealedBy, refreshEnds,
                 callbackVars, askVars, processVars>>

DeadAt(a) ==
  IF stage[a] = "open" THEN expiresAt[a]
  ELSE Retention + IF stage[a] = "claimed" THEN claimedAt[a] ELSE sealedAt[a]

\* Mutant: the sweep goes by expires_at alone.
ExpiredPairs == {a \in Attempts : InTable(a) /\ expiresAt[a] <= now}

\* Mutant: the sweep without its third condition.
DeadUnlessClaimed == {a \in Attempts : stage[a] \in {"open", "sealed"} /\ DeadAt(a) <= now}

DeadPairs == {a \in Attempts : InTable(a) /\ DeadAt(a) <= now}

\* One statement removes the dead pairs and the sessions sealed on them.
Sweep ==
  /\ up /\ ~expiring
  /\ now = nextSweep
  /\ DropPairs(DeadPairs)
  /\ DropSessions({sessionId[a] : a \in DeadPairs} \ {None}, "swept")
  /\ expiring' = TRUE
  /\ nextSweep' = now + Interval
  /\ UNCHANGED <<now, expiresAt, claimedAt, sealedAt, sealedBy, refreshEnds,
                 callbackVars, askVars, up, bootAt, restarts>>

DeleteExpired ==
  /\ up /\ expiring
  /\ DropSessions({c \in Callbacks : refreshEnds[c] <= now}, "expired")
  /\ expiring' = FALSE
  /\ UNCHANGED <<now, stage, expiresAt, claimedAt, sealedAt, sealedBy, refreshEnds,
                 callbackVars, askVars, up, bootAt, nextSweep, restarts>>

-----------------------------------------------------------------------------
(* The clock and the process. *)

Running(c) == pc[c] \in {"nexon", "create", "seal", "abandon", "undoPair", "undoSession"}

\* A running callback answers in time and a due cleanup is not skipped.
Tick ==
  /\ now < MaxNow
  /\ \A c \in Callbacks : Running(c) => now < claimedAt[state[c]] + CallbackMax
  /\ up => now < nextSweep /\ ~expiring
  /\ now' = now + 1
  /\ UNCHANGED <<pairVars, sessionVars, callbackVars, askVars, processVars>>

Crash ==
  /\ up
  /\ restarts < MaxRestarts
  /\ up' = FALSE
  /\ restarts' = restarts + 1
  /\ expiring' = FALSE
  /\ pc' = [c \in Callbacks |-> IF Running(c) THEN "dead" ELSE pc[c]]
  /\ ask' = [r \in Asks |-> IF ask[r] = "peek" THEN "dead" ELSE ask[r]]
  /\ UNCHANGED <<now, pairVars, sessionVars, state, made, askOf, askWith, bootAt, nextSweep>>

Restart ==
  /\ ~up
  /\ up' = TRUE
  /\ bootAt' = now
  /\ nextSweep' = now + Interval
  /\ UNCHANGED <<now, pairVars, sessionVars, callbackVars, askVars, expiring, restarts>>

Next ==
  \/ \E a \in Attempts : Start(a)
  \/ \E c \in Callbacks, a \in Attempts : Claim(c, a)
  \/ \E c \in Callbacks :
       \/ Abandon(c)
       \/ Nexon(c)
       \/ CreateSession(c)
       \/ SealPair(c)
       \/ UndoPair(c)
       \/ UndoSession(c)
       \/ EndSession(c)
  \/ \E r \in Asks, a \in Attempts, c \in Callbacks \cup {None} : Ask(r, a, c)
  \/ \E r \in Asks : Peek(r)
  \/ Withdraw
  \/ Sweep
  \/ DeleteExpired
  \/ Tick
  \/ Crash
  \/ Restart

Spec == Init /\ [][Next]_vars

-----------------------------------------------------------------------------
(* Properties. *)

\* Reloading the callback address or racing two copies of it makes at most one session
\* per login: attempts.claim is the only place that stops the state from being used again.
OneSessionPerLogin ==
  \A c, d \in Callbacks :
    state[c] = state[d] /\ session[c] # "none" /\ session[d] # "none" => c = d

\* Two concurrent redeem requests, or a retry after a lost answer, never both get the session.
RedeemedOnce ==
  \A r, q \in Asks : ask[r] = "ok" /\ ask[q] = "ok" /\ askOf[r] = askOf[q] => r = q

\* A session an app was given ends only by logout, withdrawal, rejection or its own expiry:
\* neither the sweep of its pair nor the catch block of its callback ever takes it back.
HandedOutSessionKept ==
  \A c \in Callbacks : HandedOut(c) => session[c] \in {"live", "ended", "expired"}

\* The sweep never takes the pair of a callback that is still on its way: what the callback
\* seals is always there to be redeemed.
SweepSparesCallback ==
  \A c \in Callbacks :
    pc[c] \in {"nexon", "create", "seal"} => stage[state[c]] = "claimed"

\* A session whose callback answered with a receipt is held by an app, removed, or still tied to
\* its sealed pair, where the sweep finds it: no such session is left that nobody can reach.
ReceiptSessionTracked ==
  \A c \in Callbacks :
    pc[c] = "receipt" /\ session[c] = "live" /\ ~HandedOut(c) =>
      stage[state[c]] = "sealed" /\ sessionId[state[c]] = c

\* A dead pair, and with it the sealed session value, stays at most one interval after it died,
\* or after the process came up if it died while the process was down.
DeadPairSoonGone ==
  \A a \in Attempts :
    up /\ InTable(a) =>
      now <= DeadAt(a) + Interval \/ now <= bootAt + Interval

\* An app that asks with the receipt it was sent gets its session or a final "gone": it is never
\* told to wait, and "gone" is never said of a pair that could still be redeemed.
ReceiptDecides ==
  \A r \in Asks :
    askWith[r] # None =>
      /\ ask[r] \notin {"pending", "cancelled"}
      /\ ask[r] = "gone" => ~Redeemable(askOf[r], askWith[r])

\* What cleanup.job.ts says of the job, that it collects dead pairs, orphan sessions and expired
\* sessions every minute: a session that no app holds and no callback is working on is gone one
\* interval after the longest time a pair may keep it, and not only when its refresh token ends.
OrphanSessionsCollected ==
  \A c \in Callbacks :
    up /\ session[c] = "live" /\ ~HandedOut(c) /\ ~Running(c) =>
      \/ now <= (refreshEnds[c] - RefreshLife) + CallbackMax + Retention + Interval
      \/ now <= bootAt + Interval
=============================================================================
