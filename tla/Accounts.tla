------------------------------- MODULE Accounts -------------------------------
(***************************************************************************)
(* Persons, the credentials that find them, and the records their devices  *)
(* upload (users, nexon_accounts, nexon_sessions, drop_prices and the      *)
(* other tables with a user_id).  A credential is a Nexon login or the     *)
(* hash of an API key; a hash proves nothing, it only holds samples        *)
(* together.  A device that first used a key and then logs in has the      *)
(* person of the key merged into the person of the login.                  *)
(*                                                                         *)
(* A request is several statements: IdentityGuard finds the person, then   *)
(* the handler writes, and by then the person may have been merged or may  *)
(* have asked to be deleted.  A link is one transaction of many statements *)
(* and others write between them; what it has written shows at its end.    *)
(***************************************************************************)
EXTENDS Naturals, FiniteSets

CONSTANTS
  Requests, NoCall, None,
  Logins,     \* Nexon uids
  Hashes,     \* hashes of API keys
  Persons,    \* ids of users
  Records,    \* record ids devices made
  MaxNow,     \* bound: the time stops here
  Grace       \* ACCOUNT_DELETION_GRACE_DAYS

ASSUME AccountsAssumption ==
  /\ Persons \subseteq Nat /\ MaxNow \in Nat /\ Grace \in Nat
  /\ Logins \cap Hashes = {} /\ None \notin Nat

VARIABLES
  users,      \* id -> when deletion was requested, or None
  accounts,   \* credential -> [user, device]; UNIQUE (user, device), a None beside it
  sessions,   \* users with a session
  prices,     \* <<user, record>> -> [live, updated, admitted]: drop prices, and the anomalies of
              \* enhancement, which are merged the same way; admitted is when the request
              \* that gave the row to its person had passed the guard
  copies,     \* <<user, record>> -> [live, account]: boss clears, cashbook entries, totals
  events,     \* user -> when the last request that gave it usage events had passed the guard
  anonymous,  \* what stays of drop prices without a user: [admitted, asked]
  calls,      \* request -> [q, user, step, since, gone, moved, event]: since is when it passed the
              \* guard; the rows a link has deleted and renamed, and whether it took events along
  now

people  == <<users, accounts, sessions>>
records == <<prices, copies, events, anonymous>>
accountVars == <<people, records, calls, now>>

AccountsInit ==
  /\ users = <<>> /\ accounts = <<>> /\ sessions = {}
  /\ prices = <<>> /\ copies = <<>> /\ events = <<>> /\ anonymous = {}
  /\ calls = [r \in Requests |-> NoCall] /\ now = 0

Device == 1
Later(a, b)     == IF a < b THEN b ELSE a
Put(t, k, row)  == [x \in DOMAIN t \cup {k} |-> IF x = k THEN row ELSE t[x]]
Drop(t, K)      == [x \in DOMAIN t \ K |-> t[x]]
AccountsOf(u)   == {a \in DOMAIN accounts : accounts[a].user = u}
RowsBy(t, U)    == {k \in DOMAIN t : k[1] \in U}
Meant           == {calls[r].user : r \in {r \in Requests : calls[r] # NoCall}}
FreshPerson     == LET free == Persons \ (DOMAIN users \cup Meant)
                   IN {u \in free : \A v \in free : u <= v}
Busy(r)         == calls[r] # NoCall
Linking(r)      == Busy(r) /\ calls[r].step \in {"discard", "move", "commit"}
LinkFrom(r)     == accounts[calls[r].q.hash].user

-----------------------------------------------------------------------------
(* Who asks. *)

\* upsertAccount: the account of a credential, made with a person of its own when there is none.
\* Of two requests that make one at the same time the second finds what the first made.
Found(cred, u) ==
  IF cred \in DOMAIN accounts
  THEN u = accounts[cred].user /\ UNCHANGED users
  ELSE u \in FreshPerson /\ users' = Put(users, u, None)

\* A link holds the row of its key from FOR UPDATE to its end.
LinkHolds(cred) == \E r \in Requests : Linking(r) /\ calls[r].q.hash = cred

\* recordAccountId: not when another account of the person has the device already.
KnowsDevice(cred, u) ==
  \/ \E a \in AccountsOf(u) \ {cred} : accounts[a].device = Device
  \/ cred \in DOMAIN accounts /\ accounts[cred].device = Device
Recorded(cred, u) ==
  accounts' = IF KnowsDevice(cred, u)
              THEN Put(accounts, cred, IF cred \in DOMAIN accounts THEN accounts[cred]
                                       ELSE [user |-> u, device |-> None])
              ELSE Put(accounts, cred, [user |-> u, device |-> Device])

\* Mutant: the guard does not look at it.
MayAlwaysWrite(op, u) == TRUE

\* The way of a person who asked to be deleted ends here, but to ask about the deletion.
MayWrite(op, u) == op \in {"delete", "cancel"} \/ u \notin DOMAIN users \/ users[u] = None

Asks(ops) ==
  [op : ops \cap {"price", "removePrice", "copy", "removeCopy"}, record : Records]
    \cup [op : ops \cap {"event", "delete", "cancel"}]
    \cup [op : ops \cap {"link"}, hash : Hashes]

Call(q, u, step, since, gone, moved, event) ==
  [q |-> q, user |-> u, step |-> step, since |-> since, gone |-> gone, moved |-> moved,
   event |-> event]

\* IdentityGuard: by the session when there is one, else by the hash.  A link needs a login.
Guard(r, ops, logins) == \E cred \in logins \cup Hashes, q \in Asks(ops), u \in Persons :
  /\ ~Busy(r)
  /\ cred \in Logins => cred \in DOMAIN accounts /\ accounts[cred].user \in sessions
  /\ q.op = "link" => cred \in Logins
  /\ Found(cred, u)
  /\ KnowsDevice(cred, u) \/ ~LinkHolds(cred)
  /\ Recorded(cred, u)
  /\ calls' = IF MayWrite(q.op, u) THEN [calls EXCEPT ![r] = Call(q, u, "go", now, {}, {}, FALSE)]
              ELSE calls
  /\ UNCHANGED <<sessions, records, now>>

\* A login makes a session of the person of the uid.
Login(l) == \E u \in Persons :
  /\ Found(l, u)
  /\ accounts' = IF l \in DOMAIN accounts THEN accounts
                 ELSE Put(accounts, l, [user |-> u, device |-> None])
  /\ sessions' = sessions \cup {u}
  /\ UNCHANGED <<records, calls, now>>

\* A session ends: logout, expiry, or Nexon refuses it.
EndSession(u) == u \in sessions /\ sessions' = sessions \ {u}
                   /\ UNCHANGED <<users, accounts, records, calls, now>>

-----------------------------------------------------------------------------
(* Uploads. *)

At(r, op) == Busy(r) /\ calls[r].step = "go" /\ calls[r].q.op = op
Ends(r)   == calls' = [calls EXCEPT ![r] = NoCall] /\ UNCHANGED now
There(r)  == calls[r].user \in DOMAIN users
Row(r)    == <<calls[r].user, calls[r].q.record>>

\* What a link has deleted or renamed nobody else writes before it ends, nor a row of the new name.
Renamed(r)   == {<<calls[r].user, k[2]>> : k \in calls[r].moved}
Written(r)   == calls[r].gone \cup calls[r].moved
Locks(r)     == Written(r) \cup Renamed(r)
PriceRow(live, since) == [live |-> live, updated |-> now, admitted |-> since]

\* Also a deleted row comes back.  A person who is gone: the foreign key refuses the row.
UpsertPrice(r) ==
  /\ At(r, "price") /\ Ends(r)
  /\ \A s \in Requests : Linking(s) => Row(r) \notin Locks(s)
  /\ prices' = IF There(r) THEN Put(prices, Row(r), PriceRow(TRUE, calls[r].since)) ELSE prices
  /\ UNCHANGED <<people, copies, events, anonymous>>

RemovePrice(r) ==
  /\ At(r, "removePrice") /\ Ends(r)
  /\ \A s \in Requests : Linking(s) => Row(r) \notin Written(s)
  /\ prices' = IF Row(r) \notin DOMAIN prices THEN prices
               ELSE Put(prices, Row(r), PriceRow(FALSE, calls[r].since))
  /\ UNCHANGED <<people, copies, events, anonymous>>

\* A copy names the account of the device, when the person has one.
UpsertCopy(r) ==
  /\ At(r, "copy") /\ Ends(r)
  /\ LET mine == {a \in AccountsOf(calls[r].user) : accounts[a].device = Device}
     IN copies' = IF ~There(r) THEN copies
                  ELSE Put(copies, Row(r), [live |-> TRUE, account |-> mine])
  /\ UNCHANGED <<people, prices, events, anonymous>>

RemoveCopy(r) ==
  /\ At(r, "removeCopy") /\ Ends(r)
  /\ copies' = IF Row(r) \notin DOMAIN copies THEN copies
               ELSE [copies EXCEPT ![Row(r)].live = FALSE]
  /\ UNCHANGED <<people, prices, events, anonymous>>

EventsOf(t, u, since) == Put(t, u, IF u \in DOMAIN t THEN Later(since, t[u]) ELSE since)

InsertEvents(r) ==
  /\ At(r, "event") /\ Ends(r)
  /\ events' = IF There(r) THEN EventsOf(events, calls[r].user, calls[r].since) ELSE events
  /\ UNCHANGED <<people, prices, copies, anonymous>>

-----------------------------------------------------------------------------
(* Deletion: asked for, taken back, and done when the days of grace are over. *)

\* COALESCE: asking again does not put it off.  The sessions are another statement.
RequestDeletion(r) ==
  /\ At(r, "delete")
  /\ users' = IF There(r) /\ users[calls[r].user] = None
              THEN [users EXCEPT ![calls[r].user] = now] ELSE users
  /\ calls' = [calls EXCEPT ![r].step = "sessions"]
  /\ UNCHANGED <<accounts, sessions, records, now>>
DropSessions(r) ==
  /\ Busy(r) /\ calls[r].step = "sessions" /\ Ends(r)
  /\ sessions' = sessions \ {calls[r].user}
  /\ UNCHANGED <<users, accounts, records>>

CancelDeletion(r) ==
  /\ At(r, "cancel") /\ Ends(r)
  /\ users' = IF There(r) THEN [users EXCEPT ![calls[r].user] = None] ELSE users
  /\ UNCHANGED <<accounts, sessions, records>>

\* What stays of the rows K when their user_id becomes NULL.
Samples(K) == {[admitted |-> prices[k].admitted, asked |-> users[k[1]]] : k \in K}

\* A link holds the account of its key, the rows it wrote and the person it gives rows to.
Pinned(u) == \E r \in Requests :
  /\ Linking(r)
  /\ \/ u = LinkFrom(r)
     \/ /\ u = calls[r].user
        /\ calls[r].moved # {} \/ calls[r].event \/ \E k \in calls[r].gone : k[1] = u

\* Drop prices, anomalies and events lose their user_id, all other rows go with the person.
Purge ==
  LET due == {u \in DOMAIN users : users[u] # None /\ users[u] + Grace < now}
  IN /\ due # {} /\ \A u \in due : ~Pinned(u)
     /\ users' = Drop(users, due)
     /\ accounts' = Drop(accounts, UNION {AccountsOf(u) : u \in due})
     /\ sessions' = sessions \ due
     /\ prices' = Drop(prices, RowsBy(prices, due))
     /\ copies' = Drop(copies, RowsBy(copies, due))
     /\ events' = Drop(events, due)
     /\ anonymous' = anonymous \cup Samples(RowsBy(prices, due))
     /\ UNCHANGED <<calls, now>>

-----------------------------------------------------------------------------
(* linkApiKey. *)

\* A hash proves nothing, so only a person no login and no session belongs to is merged, and none
\* that asked to be deleted.
HasLogin(u) == (\E l \in Logins \cap DOMAIN accounts : accounts[l].user = u) \/ u \in sessions
\* Mutant: only the deletion is looked at.
MovableAnyway(u) == u \in DOMAIN users /\ users[u] = None

Movable(u) == u \in DOMAIN users /\ users[u] = None /\ ~HasLogin(u)

Goes(r, step, gone, moved, event) ==
  /\ calls' = [calls EXCEPT ![r] = Call(calls[r].q, calls[r].user, step, calls[r].since,
                                        gone, moved, event)]
  /\ UNCHANGED now

LinkLook(r) ==
  LET to == calls[r].user   hash == calls[r].q.hash
      known == hash \in DOMAIN accounts
  IN /\ At(r, "link") /\ ~LinkHolds(hash)
     /\ accounts' = IF known \/ ~There(r) THEN accounts
                    ELSE Put(accounts, hash, [user |-> to, device |-> None])
     /\ IF known /\ accounts[hash].user # to /\ Movable(accounts[hash].user)
        THEN Goes(r, "discard", {}, {}, FALSE)
        ELSE Ends(r)
     /\ UNCHANGED <<users, sessions, records>>

\* Mutant: of two rows as late both go.
OutlivedBoth(t, from, to) ==
  {k \in RowsBy(t, {from, to}) :
     \E o \in RowsBy(t, {from, to}) :
       o[1] # k[1] /\ o[2] = k[2] /\ t[k].updated <= t[o].updated}

\* Of a record both have, the row written last stays, and the login's when both are as late.
Outlived(t, from, to) ==
  {k \in RowsBy(t, {from, to}) :
     \E o \in RowsBy(t, {from, to}) :
       o[1] # k[1] /\ o[2] = k[2]
         /\ (t[k].updated < t[o].updated \/ (t[k].updated = t[o].updated /\ k[1] = from))}

\* UNIQUE (user, device): what the login has already is not known of the key any more.
MovedAccount(a, to) ==
  [user   |-> to,
   device |-> IF \E o \in AccountsOf(to) : accounts[o].device = accounts[a].device THEN None
              ELSE accounts[a].device]

\* Another link writes none of the rows K.
Unlocked(r, K) == \A s \in Requests \ {r} : Linking(s) => K \cap Locks(s) = {}

LinkDiscard(r) ==
  LET gone == Outlived(prices, LinkFrom(r), calls[r].user)
  IN /\ Busy(r) /\ calls[r].step = "discard" /\ Unlocked(r, gone)
     /\ Goes(r, "move", gone, {}, FALSE)
     /\ UNCHANGED <<people, records>>

\* UNIQUE (user, record): where either person wrote the record since, the link ends with an error.
LinkMove(r) ==
  LET from == LinkFrom(r)
      moved == RowsBy(prices, {from}) \ calls[r].gone
      new == {<<calls[r].user, k[2]>> : k \in moved}
  IN /\ Busy(r) /\ calls[r].step = "move" /\ Unlocked(r, moved \cup new)
     /\ IF new \cap (DOMAIN prices \ calls[r].gone) = {}
        THEN Goes(r, "commit", calls[r].gone, moved, from \in DOMAIN events) ELSE Ends(r)
     /\ UNCHANGED <<people, records>>

Merged(r) ==
  LET from == LinkFrom(r)
      left == DOMAIN prices \ (calls[r].gone \cup RowsBy(prices, {from}))
      row(k) == [live |-> prices[k].live, updated |-> prices[k].updated,
                 admitted |-> calls[r].since]
  IN [x \in left \cup Renamed(r) |-> IF x \in Renamed(r) THEN row(<<from, x[2]>>) ELSE prices[x]]

\* The account moves and the person of the key goes: what was written for it after LinkMove loses
\* its user_id.  Who waited to remove a row that is gone now finds none.  A person who is gone: the
\* foreign key refuses the account, and nothing is done.
LinkCommit(r) ==
  LET from == LinkFrom(r)   to == calls[r].user
      late == RowsBy(prices, {from}) \ Written(r)
      waited == {s \in Requests : At(s, "removePrice") /\ Row(s) \in calls[r].gone}
  IN /\ Busy(r) /\ calls[r].step = "commit" /\ UNCHANGED now
     /\ IF There(r)
        THEN /\ \E missed \in SUBSET waited :
                  calls' = [s \in Requests |-> IF s \in missed \cup {r} THEN NoCall ELSE calls[s]]
             /\ prices' = Merged(r)
             /\ anonymous' = anonymous \cup Samples(late)
             /\ events' = LET others == Drop(events, {from})
                          IN IF calls[r].event THEN EventsOf(others, to, calls[r].since) ELSE others
             /\ accounts' = [a \in DOMAIN accounts |-> IF a \in AccountsOf(from)
                                                       THEN MovedAccount(a, to) ELSE accounts[a]]
             /\ users' = Drop(users, {from})
             /\ copies' = Drop(copies, RowsBy(copies, {from}))
        ELSE Ends(r) /\ UNCHANGED <<users, accounts, records>>
     /\ sessions' = sessions \cap DOMAIN users'

-----------------------------------------------------------------------------
\* The connection or the process goes.  A transaction that did not end did nothing.
CutCall(r) == Busy(r) /\ Ends(r) /\ UNCHANGED <<people, records>>

TimePasses ==
  /\ now < MaxNow
  /\ now' = now + 1 /\ UNCHANGED <<people, records, calls>>

\* ops: the requests that come; logins: who logs in.
AccountsNext(ops, logins) ==
  \/ \E r \in Requests :
       \/ Guard(r, ops, logins)
       \/ UpsertPrice(r) \/ RemovePrice(r) \/ UpsertCopy(r) \/ RemoveCopy(r) \/ InsertEvents(r)
       \/ RequestDeletion(r) \/ DropSessions(r) \/ CancelDeletion(r)
       \/ LinkLook(r) \/ LinkDiscard(r) \/ LinkMove(r) \/ LinkCommit(r) \/ CutCall(r)
  \/ \E l \in logins : Login(l)
  \/ \E u \in sessions : EndSession(u)
  \/ Purge \/ TimePasses

-----------------------------------------------------------------------------
(* Properties. *)

Merging(r) == Busy(r) /\ calls[r].step = "commit" /\ LinkFrom(r) \in DOMAIN users \ DOMAIN users'

\* Whoever sends a hash can never take over a person who logs in: between the check and the end
\* of the transaction neither a login nor a session of that person can appear.
OnlyKeyPersonsMerge == [][\A r \in Requests : Merging(r) => ~HasLogin(LinkFrom(r))]_accountVars

\* A merge loses no record, whatever either person or another link writes between its statements:
\* of what the two had, the row written last is there.  The one exception are records uploaded for
\* the key while the link is under way: one that comes after the rows moved is nobody's sample.
MergeKeepsLatest ==
  [][\A r \in Requests : Merging(r) =>
       \A k \in RowsBy(prices, {LinkFrom(r), calls[r].user}) :
         LET kept == <<calls[r].user, k[2]>>
         IN \/ kept \in DOMAIN prices' /\ prices'[kept].updated >= prices[k].updated
            \/ /\ k[1] = LinkFrom(r) /\ prices[k].updated >= calls[r].since
               /\ Samples({k}) \subseteq anonymous']_accountVars

\* A request to be deleted is the end of what is let in: whatever was under way, taken back, merged
\* or purged, no row a person has or leaves among the anonymous samples came by a request that
\* passed the guard after it.  A request let in before may still write after it.
DeletionEndsAdmission ==
  /\ \A k \in DOMAIN prices : users[k[1]] # None => prices[k].admitted <= users[k[1]]
  /\ \A u \in DOMAIN events : users[u] # None => events[u] <= users[u]
  /\ \A row \in anonymous : row.asked # None => row.admitted <= row.asked

=============================================================================
