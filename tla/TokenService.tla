---------------------------- MODULE TokenService ----------------------------
(***************************************************************************)
(* The one place that yields a usable access token for a session, from     *)
(* src/src/modules/auth/token.service.ts, with the row of the session, the *)
(* part of Nexon that rotates refresh tokens, and the tasks of a friends   *)
(* run that use the token they were given until their last page            *)
(* (src/src/modules/friends/stream-run.ts).                                *)
(*                                                                         *)
(* One session is modelled: the map of running refreshes is keyed by       *)
(* session and nothing else is shared between two of them.  Refresh tokens *)
(* are numbered in the order Nexon issues them.  An access token is known  *)
(* by the time it really ends; the row records a later one, because the    *)
(* server counts expires_in from when the answer arrives.                  *)
(***************************************************************************)
EXTENDS Integers

CONSTANTS
  Callers,      \* tasks that ask for a token and fetch with it
  None,         \* no refresh is running
  Ahead,        \* REFRESH_AHEAD_MS
  AccessLife,   \* expires_in
  CallMax,      \* Nexon's answer arrives and is stored within this time
  TaskMax,      \* a task is done with its token within this time
  MaxNow,       \* bound: the clock stops here
  MaxRestarts   \* bound: crashes of the process

ASSUME CallersAssumption == None \notin Callers

ASSUME TimeAssumption ==
  /\ Ahead \in Nat /\ AccessLife \in Nat /\ CallMax \in Nat /\ TaskMax \in Nat
  /\ MaxNow \in Nat /\ MaxRestarts \in Nat

VARIABLES
  now,
  row,         \* the row of nexon_sessions: live, ended by its owner, or deleted as rejected
  stored,      \* refresh_sealed
  recorded,    \* access_expires_at
  realEnd,     \* when the access token in access_sealed really ends
  current,     \* the refresh token Nexon accepts
  consent,     \* the user has not withdrawn the consent
  inflight,    \* the caller whose resolve() is in the map, if any
  pc,          \* where a caller is
  leader,      \* the caller whose resolve() a waiting caller awaits
  sent,        \* the refresh token resolve() read from the row
  tokenEnd,    \* when the access token a caller was given really ends
  since,       \* when Nexon granted, or when the caller got its token
  lost,        \* an issued refresh token was lost on its way to the row
  restarts

rowVars    == <<row, stored, recorded, realEnd>>
nexonVars  == <<current, consent>>
callerVars == <<pc, leader, sent, tokenEnd, since>>
vars == <<now, rowVars, nexonVars, inflight, callerVars, lost, restarts>>

Waiting   == {"join", "find", "refresh", "granted", "refused"}
Answered  == {"holds", "relogin", "error"}

TypeOK ==
  /\ now \in Nat
  /\ row \in {"live", "ended", "rejected"}
  /\ stored \in Nat /\ recorded \in Nat /\ realEnd \in Nat
  /\ current \in Nat /\ consent \in BOOLEAN
  /\ inflight \in Callers \cup {None}
  /\ pc \in [Callers -> {"idle", "reject"} \cup Waiting \cup Answered]
  /\ leader \in [Callers -> Callers \cup {None}]
  /\ sent \in [Callers -> Nat]
  /\ tokenEnd \in [Callers -> Nat]
  /\ since \in [Callers -> Nat]
  /\ lost \in BOOLEAN
  /\ restarts \in Nat

\* The session as a login leaves it.
Init ==
  /\ now = 0
  /\ row = "live" /\ stored = 0 /\ recorded = AccessLife /\ realEnd = AccessLife
  /\ current = 0 /\ consent = TRUE
  /\ inflight = None
  /\ pc = [w \in Callers |-> "idle"]
  /\ leader = [w \in Callers |-> None]
  /\ sent = [w \in Callers |-> 0]
  /\ tokenEnd = [w \in Callers |-> 0]
  /\ since = [w \in Callers |-> 0]
  /\ lost = FALSE
  /\ restarts = 0

-----------------------------------------------------------------------------
(* tokenFor and resolve. *)

\* Mutant: every caller starts a refresh of its own.
TokenForAlone(w) ==
  /\ pc[w] = "idle"
  /\ pc' = [pc EXCEPT ![w] = "find"]
  /\ leader' = [leader EXCEPT ![w] = w]
  /\ inflight' = w
  /\ UNCHANGED <<now, rowVars, nexonVars, sent, tokenEnd, since, lost, restarts>>

\* A second caller shares the promise of the first; otherwise it starts one and reads the row.
TokenFor(w) ==
  /\ pc[w] = "idle"
  /\ IF inflight # None
     THEN /\ pc' = [pc EXCEPT ![w] = "join"]
          /\ leader' = [leader EXCEPT ![w] = inflight]
          /\ UNCHANGED inflight
     ELSE /\ pc' = [pc EXCEPT ![w] = "find"]
          /\ leader' = [leader EXCEPT ![w] = w]
          /\ inflight' = w
  /\ UNCHANGED <<now, rowVars, nexonVars, sent, tokenEnd, since, lost, restarts>>

\* Mutant: only the caller that started the refresh is answered.
LeaderOnly(w) == {w}

Followers(w) == {v \in Callers : pc[v] \in Waiting /\ leader[v] = w}

\* The promise of w settles: everyone who awaits it gets the outcome, and finally() clears the map.
Settle(w, outcome, end) ==
  /\ pc' = [v \in Callers |-> IF v \in Followers(w) THEN outcome ELSE pc[v]]
  /\ tokenEnd' = [v \in Callers |-> IF v \in Followers(w) THEN end ELSE tokenEnd[v]]
  /\ since' = [v \in Callers |->
                 IF v \notin Followers(w) THEN since[v]
                 ELSE IF outcome = "holds" THEN now ELSE 0]
  /\ leader' = [v \in Callers |-> IF v \in Followers(w) THEN None ELSE leader[v]]
  /\ sent' = [sent EXCEPT ![w] = 0]
  /\ inflight' = None

\* Mutant: a token is good until it ends.
FreshToTheEnd == recorded > now

Fresh == recorded - now > Ahead

FindSession(w) ==
  /\ pc[w] = "find"
  /\ \/ /\ row # "live"
        /\ Settle(w, "relogin", 0)
     \/ /\ row = "live" /\ Fresh
        /\ Settle(w, "holds", realEnd)
     \/ /\ row = "live" /\ ~Fresh
        /\ pc' = [pc EXCEPT ![w] = "refresh"]
        /\ sent' = [sent EXCEPT ![w] = stored]
        /\ UNCHANGED <<tokenEnd, since, leader, inflight>>
  /\ UNCHANGED <<now, rowVars, nexonVars, lost, restarts>>

\* Nexon takes the request: the old refresh token dies at once, whether or not the answer arrives.
NexonGrants(w) ==
  /\ pc[w] = "refresh"
  /\ consent /\ sent[w] = current
  /\ current' = current + 1
  /\ pc' = [pc EXCEPT ![w] = "granted"]
  /\ since' = [since EXCEPT ![w] = now]
  /\ UNCHANGED <<now, rowVars, consent, inflight, leader, sent, tokenEnd, lost, restarts>>

NexonRefuses(w) ==
  /\ pc[w] = "refresh"
  /\ ~consent \/ sent[w] # current
  /\ pc' = [pc EXCEPT ![w] = "refused"]
  /\ UNCHANGED <<now, rowVars, nexonVars, inflight, leader, sent, tokenEnd, since, lost, restarts>>

\* NexonUnavailable: the request or the refusal got lost, and the error goes to every waiter.
NexonUnavailable(w) ==
  /\ pc[w] \in {"refresh", "refused"}
  /\ Settle(w, "error", 0)
  /\ UNCHANGED <<now, rowVars, nexonVars, lost, restarts>>

\* Mutants: the old refresh token is kept, or none is stored.
OldRefresh(w) == sent[w]
NoRefresh(w) == None

\* The refresh token in the answer to w.
NewRefresh(w) == sent[w] + 1

\* The granted tokens arrive and updateTokens stores them, in a row that may be gone.
StoreTokens(w) ==
  /\ pc[w] = "granted"
  /\ IF row = "live"
     THEN /\ stored' = NewRefresh(w)
          /\ recorded' = now + AccessLife
          /\ realEnd' = since[w] + AccessLife
     ELSE UNCHANGED <<stored, recorded, realEnd>>
  /\ \/ Settle(w, "holds", since[w] + AccessLife)
     \/ Settle(w, "error", 0)             \* committed, but the answer of the database is lost
  /\ UNCHANGED <<now, row, nexonVars, lost, restarts>>

\* The answer of Nexon times out, or the update fails.
LoseTokens(w) ==
  /\ pc[w] = "granted"
  /\ Settle(w, "error", 0)
  /\ lost' = TRUE
  /\ UNCHANGED <<now, rowVars, nexonVars, restarts>>

\* Mutant: the refused session is left where it is.
LeaveRow == UNCHANGED row

RejectRow == row' = IF row = "live" THEN "rejected" ELSE row

\* The refusal deletes the session first, and only then asks for a new login.
RefusedRefresh(w) ==
  /\ pc[w] = "refused"
  /\ RejectRow
  /\ Settle(w, "relogin", 0)
  /\ UNCHANGED <<now, stored, recorded, realEnd, nexonVars, lost, restarts>>

-----------------------------------------------------------------------------
(* A task fetches its pages with the token it was given. *)

\* The last page, or a page that Nexon refuses: the token has ended or its consent is withdrawn.
FetchPage(w) ==
  /\ pc[w] = "holds"
  /\ \/ consent /\ now < tokenEnd[w] /\ pc' = [pc EXCEPT ![w] = "idle"]
     \/ /\ ~consent \/ now >= tokenEnd[w]
        /\ pc' = [pc EXCEPT ![w] = "reject"]
  /\ tokenEnd' = [tokenEnd EXCEPT ![w] = 0]
  /\ since' = [since EXCEPT ![w] = 0]
  /\ UNCHANGED <<now, rowVars, nexonVars, inflight, leader, sent, lost, restarts>>

\* rejected(): the session of a refused token is deleted, or the deletion fails.
Rejected(w) ==
  /\ pc[w] = "reject"
  /\ RejectRow \/ UNCHANGED row
  /\ pc' = [pc EXCEPT ![w] = "idle"]
  /\ UNCHANGED <<now, stored, recorded, realEnd, nexonVars, inflight, leader, sent,
                 tokenEnd, since, lost, restarts>>

Leave(w) ==
  /\ pc[w] \in {"relogin", "error"}
  /\ pc' = [pc EXCEPT ![w] = "idle"]
  /\ UNCHANGED <<now, rowVars, nexonVars, inflight, leader, sent, tokenEnd, since, lost, restarts>>

-----------------------------------------------------------------------------
(* The owner, the clock and the process. *)

EndSession ==
  /\ row = "live"
  /\ row' = "ended"
  /\ UNCHANGED <<now, stored, recorded, realEnd, nexonVars, inflight, callerVars, lost, restarts>>

WithdrawConsent ==
  /\ consent
  /\ consent' = FALSE
  /\ UNCHANGED <<now, rowVars, current, inflight, callerVars, lost, restarts>>

Tick ==
  /\ now < MaxNow
  /\ \A w \in Callers :
       /\ pc[w] = "granted" => now < since[w] + CallMax
       /\ pc[w] = "holds" => now < since[w] + TaskMax
  /\ now' = now + 1
  /\ UNCHANGED <<rowVars, nexonVars, inflight, callerVars, lost, restarts>>

\* The map and every caller die with the process; what Nexon issued is not taken back.
Crash ==
  /\ restarts < MaxRestarts
  /\ restarts' = restarts + 1
  /\ lost' = (lost \/ \E w \in Callers : pc[w] = "granted")
  /\ inflight' = None
  /\ pc' = [w \in Callers |-> "idle"]
  /\ leader' = [w \in Callers |-> None]
  /\ sent' = [w \in Callers |-> 0]
  /\ tokenEnd' = [w \in Callers |-> 0]
  /\ since' = [w \in Callers |-> 0]
  /\ UNCHANGED <<now, rowVars, nexonVars>>

Resolve(w) ==
  \/ FindSession(w)
  \/ NexonGrants(w)
  \/ NexonRefuses(w)
  \/ NexonUnavailable(w)
  \/ StoreTokens(w)
  \/ LoseTokens(w)
  \/ RefusedRefresh(w)

Next ==
  \/ \E w \in Callers :
       \/ TokenFor(w)
       \/ Resolve(w)
       \/ FetchPage(w)
       \/ Rejected(w)
       \/ Leave(w)
  \/ EndSession
  \/ WithdrawConsent
  \/ Tick
  \/ Crash

\* The event loop runs every pending step: queries, and calls that time out, always come back.
Fairness == \A w \in Callers : WF_vars(Resolve(w))

Spec == Init /\ [][Next]_vars /\ Fairness

-----------------------------------------------------------------------------
(* Properties. *)

\* Some holder has the refresh token that Nexon accepts: the row, or a refresh on its way to it.
Alive ==
  /\ consent
  /\ \/ stored = current
     \/ \E w \in Callers : pc[w] = "granted" /\ sent[w] + 1 = current

\* A session is deleted as rejected only when it is dead: no refresh race and no token that ran
\* out under a task ever costs a user a living session.
RejectedMeansDead == row = "rejected" => ~Alive

\* The refresh token Nexon accepts is never dropped by two callers racing, only by a lost answer.
RotationKept ==
  row = "live" /\ ~lost =>
    \/ stored = current
    \/ \E w \in Callers : pc[w] = "granted" /\ sent[w] + 1 = current

\* While a task works with its token the token has not run out: the margin covers the task.
TokenOutlivesTask == \A w \in Callers : pc[w] = "holds" => now < tokenEnd[w]

\* A caller is told to log in again only when the session is really gone.
ReloginMeansGone == \A w \in Callers : pc[w] = "relogin" => row # "live"

\* Everyone who awaits a token gets an answer: no promise stays in the map unsettled.
CallersAnswered == \A w \in Callers : pc[w] \in Waiting ~> pc[w] \notin Waiting
=============================================================================
